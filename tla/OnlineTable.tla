---------------------------- MODULE OnlineTable ----------------------------
(***************************************************************************)
(* The table of online users: the usr_shm array and its counter            *)
(* online_usr_num in shared memory (system/util_shm.cpp), the Online_Users *)
(* table that mirrors it (database/online_db.cpp), the packet processors   *)
(* (PPs) that log users in and off, and the EUser process that expires     *)
(* V3/V5 users and removes rows without a record (event/euser.cpp).        *)
(*                                                                         *)
(* shm_add and shm_delete hold the semaphore lock_ushm; their counter      *)
(* update and their record update are separate steps here, because other   *)
(* processes read the array without the lock and because a process may be  *)
(* killed between them (SEM_UNDO then releases the semaphore).  The SQL    *)
(* statement that follows is a step of its own.                            *)
(*                                                                         *)
(* No step reads killed, late, stale and excused: they remember what       *)
(* excuses a session that does not end and a user with two records.  The   *)
(* kick of a V7 session reads the uin again through its pointer            *)
(* (user->uin): it is taken as the one that was looked up.                 *)
(***************************************************************************)
EXTENDS Integers, FiniteSets

CONSTANTS Uins,         \* user numbers
          PPs,          \* packet processors
          EU,           \* the EUser process
          MaxUserCnt,   \* max_user_cnt
          TTL,          \* get_ping_time of V3/V5: heartbeats a user may stay silent
          Protocols,    \* subset of {"udp", "v7"}: which logins happen
          ConcurrentV7, \* lp_v7_accept_concurent: a V7 login kicks a V7 session
          Crashes,      \* may processes be killed
          Reload,       \* does the build load temp_user->uin again in
                        \* online_cache_decrement after testing it (a data race)
          ClockJumps,   \* may the uptime test find a clock set back
          NumMod,       \* 2^32 or 2^64: online_usr_num is an unsigned long
          MaxSessions,  \* bound: sessions created in a behaviour
          MaxUpdates    \* bound: keepalives in a behaviour

ASSUME NamesAssumption == /\ Uins \subseteq Nat \ {0}
                          /\ EU \notin PPs /\ "none" \notin PPs \cup {EU}
                          /\ Protocols \subseteq {"udp", "v7"}
ASSUME SizesAssumption == /\ MaxUserCnt \in Nat \ {0} /\ TTL \in Nat \ {0}
                          /\ NumMod \in Nat /\ MaxUserCnt < NumMod
                          /\ MaxSessions \in Nat /\ MaxUpdates \in Nat
ASSUME FlagsAssumption == {ConcurrentV7, Crashes, Reload, ClockJumps} \subseteq BOOLEAN

VARIABLES usr_shm,         \* the records
          online_usr_num,  \* ipc_vars->online_usr_num
          ushm,            \* the holder of lock_ushm, or NoProc
          odb,             \* uins with a row in Online_Users (unique index)
          login_cookies,   \* uins with a cookie
          st,              \* what each process is doing
          eui, processed,  \* online_cache_decrement's index and processed_num
          portal,          \* check_online_table: rows its cursor has still to fetch
          nsess, nupd,     \* sessions created, keepalives sent
          killed,          \* history: the processes that were killed, ever
          late,            \* history: the PPs whose user has come online since they
                           \* found him offline
          stale,           \* history: the users that have since they got their cookie
          excused          \* history: the sessions that were added late, while
                           \* their user was online

past == <<late, stale, excused>>
vars == <<usr_shm, online_usr_num, ushm, odb, login_cookies, st, eui, processed,
          portal, nsess, nupd, killed, late, stale, excused>>

Procs   == PPs \cup {EU}
NoProc  == "none"
Slots   == 0 .. MaxUserCnt - 1
NoSlot  == MaxUserCnt
NoUin   == 0
Wrapped == -1              \* ttlv-- of 0: 2^64-1, never 0 again
Hole    == [uin |-> NoUin, usid |-> 0, v7 |-> FALSE, ttlv |-> 0]
Idle    == [pc |-> "idle", uin |-> NoUin, v7 |-> FALSE, usid |-> 0, slot |-> NoSlot,
            next |-> "idle", ttlv |-> 0]

Occupied    == {i \in Slots : usr_shm[i].uin # NoUin}
SlotsOf(u)  == {i \in Slots : usr_shm[i].uin = u}
FirstOf(S)  == CHOOSE i \in S : \A j \in S : i <= j
Online(u)   == SlotsOf(u) # {}
InShm(s)    == \E i \in Slots : usr_shm[i].usid = s

Init ==
  /\ usr_shm = [i \in Slots |-> Hole]
  /\ online_usr_num = 0
  /\ ushm = NoProc
  /\ odb = {} /\ login_cookies = {}
  /\ st = [p \in Procs |-> Idle]
  /\ eui = NoSlot /\ processed = 0 /\ portal = {}
  /\ nsess = 0 /\ nupd = 0 /\ killed = {}
  /\ late = {} /\ stale = {} /\ excused = {}

At(p, pc) == st[p].pc = pc
Goto(p, pc) == st' = [st EXCEPT ![p].pc = pc]

----------------------------------------------------------------------------
(* Login requests, up to shm_add. *)

\* Mutant: the test for a user already connected is forgotten.
UdpLoginUnchecked(p, u) ==
  /\ "udp" \in Protocols
  /\ At(p, "idle")
  /\ nsess < MaxSessions
  /\ nsess' = nsess + 1
  /\ st' = [st EXCEPT ![p] = [Idle EXCEPT !.pc = "add", !.uin = u, !.usid = nsess + 1]]
  /\ late' = late \ {p}
  /\ UNCHANGED <<usr_shm, online_usr_num, ushm, odb, login_cookies, eui, processed,
                 portal, nupd, killed, stale, excused>>

\* v3_process_login, v5_process_login: the user must not be online.  The check
\* reads the array without the lock.
UdpLogin(p, u) ==
  /\ "udp" \in Protocols
  /\ At(p, "idle")
  /\ nsess < MaxSessions
  /\ ~Online(u)
  /\ nsess' = nsess + 1
  /\ st' = [st EXCEPT ![p] = [Idle EXCEPT !.pc = "add", !.uin = u, !.usid = nsess + 1]]
  /\ late' = late \ {p}
  /\ UNCHANGED <<usr_shm, online_usr_num, ushm, odb, login_cookies, eui, processed,
                 portal, nupd, killed, stale, excused>>

\* process_authorize_packet: a V7 client that is not online, or whose V7 session
\* may be kicked (move_user_offline), gets a cookie.
V7Authorize(p, u) ==
  /\ "v7" \in Protocols
  /\ At(p, "idle")
  /\ \/ /\ ~Online(u)
        /\ st' = [st EXCEPT ![p] = [Idle EXCEPT !.pc = "auth", !.uin = u]]
     \/ /\ Online(u) /\ ConcurrentV7 /\ usr_shm[FirstOf(SlotsOf(u))].v7
        /\ st' = [st EXCEPT ![p] = [Idle EXCEPT !.pc = "del", !.uin = u, !.next = "auth"]]
  /\ late' = IF \E i, j \in SlotsOf(u) : i # j THEN late \cup {p} ELSE late \ {p}
  /\ UNCHANGED <<usr_shm, online_usr_num, ushm, odb, login_cookies, eui, processed,
                 portal, nsess, nupd, killed, stale, excused>>

\* db_cookie_delete and db_cookie_insert: the user's only cookie is a new one.
CookieInsert(p) ==
  /\ At(p, "auth")
  /\ login_cookies' = login_cookies \cup {st[p].uin}
  /\ stale' = IF p \in late THEN stale \cup {st[p].uin} ELSE stale \ {st[p].uin}
  /\ st' = [st EXCEPT ![p] = Idle]
  /\ UNCHANGED <<usr_shm, online_usr_num, ushm, odb, eui, processed, portal, nsess, nupd,
                 killed, late, excused>>

\* process_cookie_packet: db_cookie_check finds the cookie.
CookieCheck(p, u) ==
  /\ At(p, "idle")
  /\ nsess < MaxSessions
  /\ u \in login_cookies
  /\ st' = [st EXCEPT ![p] = [Idle EXCEPT !.pc = "cookie", !.uin = u, !.v7 = TRUE,
                                       !.usid = nsess + 1]]
  /\ nsess' = nsess + 1
  /\ late' = IF u \in stale THEN late \cup {p} ELSE late \ {p}
  /\ UNCHANGED <<usr_shm, online_usr_num, ushm, odb, login_cookies, eui, processed,
                 portal, nupd, killed, stale, excused>>

\* db_cookie_delete, a second statement.  Whether the user has come online since
\* the cookie was issued is not tested.
CookieDelete(p) ==
  /\ At(p, "cookie")
  /\ login_cookies' = login_cookies \ {st[p].uin}
  /\ Goto(p, "add")
  /\ UNCHANGED <<usr_shm, online_usr_num, ushm, odb, eui, processed, portal, nsess, nupd, killed, past>>

----------------------------------------------------------------------------
(* db_online_insert: shm_add, then the INSERT. *)

\* Mutant: the capacity test is off by one.
ShmAddCountOneMore(p) ==
  /\ At(p, "add")
  /\ ushm = NoProc
  /\ online_usr_num <= MaxUserCnt
  /\ online_usr_num' = (online_usr_num + 1) % NumMod
  /\ ushm' = p
  /\ Goto(p, "add_write")
  /\ UNCHANGED <<usr_shm, odb, login_cookies, eui, processed, portal, nsess, nupd, killed, past>>

\* shm_add: with the semaphore, the counter first.  A full table ends the login.
ShmAddCount(p) ==
  /\ At(p, "add")
  /\ ushm = NoProc
  /\ IF online_usr_num < MaxUserCnt
       THEN /\ online_usr_num' = (online_usr_num + 1) % NumMod
            /\ ushm' = p
            /\ Goto(p, "add_write")
       ELSE /\ st' = [st EXCEPT ![p] = Idle]
            /\ UNCHANGED <<online_usr_num, ushm>>
  /\ UNCHANGED <<usr_shm, odb, login_cookies, eui, processed, portal, nsess, nupd, killed, past>>

\* shm_add: the first hole gets the record, the semaphore is released.  Without a
\* hole ("internal err ?") the login ends and the counter stays.
ShmAddWrite(p) ==
  /\ At(p, "add_write")
  /\ ushm' = NoProc
  /\ IF Online(NoUin)
       THEN /\ usr_shm' = [usr_shm EXCEPT ![FirstOf(SlotsOf(NoUin))] =
                 [uin |-> st[p].uin, usid |-> st[p].usid, v7 |-> st[p].v7,
                  ttlv |-> IF st[p].v7 THEN 0 ELSE TTL]]
            /\ Goto(p, "insert")
            /\ late' = (late \cup {q \in PPs : st[q].uin = st[p].uin}) \ {p}
            /\ stale' = stale \cup ({st[p].uin} \cap login_cookies)
            /\ excused' = IF p \in late /\ Online(st[p].uin)
                            THEN excused \cup {st[p].usid} ELSE excused
       ELSE st' = [st EXCEPT ![p] = Idle] /\ UNCHANGED <<usr_shm, past>>
  /\ UNCHANGED <<online_usr_num, odb, login_cookies, eui, processed, portal, nsess, nupd,
                 killed>>

\* The INSERT fails on the unique index when the user has a row.  A V3/V5 client
\* then gets an error; a V7 connection is closed (twice, by send_session_fail too).
DbInsert(p) ==
  /\ At(p, "insert")
  /\ IF st[p].uin \notin odb
       THEN /\ odb' = odb \cup {st[p].uin}
            /\ st' = [st EXCEPT ![p] = Idle]
       ELSE /\ st' = [st EXCEPT ![p] =
                        IF st[p].v7 THEN [st[p] EXCEPT !.pc = "close1"] ELSE Idle]
            /\ UNCHANGED odb
  /\ UNCHANGED <<usr_shm, online_usr_num, ushm, login_cookies, eui, processed, portal, nsess, nupd,
                 killed, past>>

\* close_connection(pack): the record with this connection's socket is moved
\* offline by its uin; without one, SP is only told to close.
CloseConnection(p) ==
  /\ st[p].pc \in {"close1", "close2"}
  /\ LET then == IF At(p, "close1") THEN "close2" ELSE "idle"
     IN  st' = [st EXCEPT ![p] = IF InShm(st[p].usid)
                                   THEN [st[p] EXCEPT !.pc = "del", !.next = then]
                                   ELSE [st[p] EXCEPT !.pc = then]]
  /\ UNCHANGED <<usr_shm, online_usr_num, ushm, odb, login_cookies, eui, processed,
                 portal, nsess, nupd, killed, past>>

----------------------------------------------------------------------------
(* move_user_offline, by a PP (logoff, SOCK_TERM, kick) or by EUser. *)

Logoff(p, u) ==
  /\ At(p, "idle")
  /\ Online(u)
  /\ st' = [st EXCEPT ![p] = [Idle EXCEPT !.pc = "del", !.uin = u]]
  /\ UNCHANGED <<usr_shm, online_usr_num, ushm, odb, login_cookies, eui, processed,
                 portal, nsess, nupd, killed, past>>

\* Mutant: the counter is decremented even when no record is found.
ShmDeleteCountAlways(p) ==
  /\ At(p, "del")
  /\ ushm = NoProc
  /\ online_usr_num' = (online_usr_num + NumMod - 1) % NumMod
  /\ IF Online(st[p].uin)
       THEN /\ ushm' = p
            /\ st' = [st EXCEPT ![p].pc = "del_zero",
                                ![p].slot = FirstOf(SlotsOf(st[p].uin))]
       ELSE Goto(p, "del_sql") /\ UNCHANGED ushm
  /\ UNCHANGED <<usr_shm, odb, login_cookies, eui, processed, portal, nsess, nupd, killed, past>>

\* shm_delete: with the semaphore, the first record with this uin; the counter first.
ShmDeleteCount(p) ==
  /\ At(p, "del")
  /\ ushm = NoProc
  /\ IF Online(st[p].uin)
       THEN /\ online_usr_num' = (online_usr_num + NumMod - 1) % NumMod
            /\ ushm' = p
            /\ st' = [st EXCEPT ![p].pc = "del_zero",
                                ![p].slot = FirstOf(SlotsOf(st[p].uin))]
       ELSE Goto(p, "del_sql") /\ UNCHANGED <<online_usr_num, ushm>>
  /\ UNCHANGED <<usr_shm, odb, login_cookies, eui, processed, portal, nsess, nupd, killed, past>>

\* shm_delete: the record is zeroed, the semaphore released.
ShmDeleteZero(p) ==
  /\ At(p, "del_zero")
  /\ usr_shm' = [usr_shm EXCEPT ![st[p].slot] = Hole]
  /\ ushm' = NoProc
  /\ Goto(p, "del_sql")
  /\ UNCHANGED <<online_usr_num, odb, login_cookies, eui, processed, portal, nsess, nupd, killed, past>>

\* db_online_delete: the row goes, whoever inserted it.
DbDelete(p) ==
  /\ At(p, "del_sql")
  /\ odb' = odb \ {st[p].uin}
  /\ st' = [st EXCEPT ![p] = IF st[p].next = "idle" THEN Idle
                             ELSE [st[p] EXCEPT !.pc = st[p].next, !.slot = NoSlot,
                                                !.next = "idle"]]
  /\ UNCHANGED <<usr_shm, online_usr_num, ushm, login_cookies, eui, processed, portal, nsess,
                 nupd, killed, past>>

----------------------------------------------------------------------------
(* EUser: one event at a time. *)

EUReady == At(EU, "idle") /\ eui = NoSlot /\ portal = {}

\* MESS_TIMEOUT: online_cache_decrement begins at the first record.
EUTick ==
  /\ EUReady
  /\ eui' = 0 /\ processed' = 0
  /\ UNCHANGED <<usr_shm, online_usr_num, ushm, odb, login_cookies, st, portal, nsess,
                 nupd, killed, past>>

\* Mutant: holes count as processed records.
EUVisitCountsHoles ==
  /\ At(EU, "idle") /\ eui # NoSlot
  /\ LET user == usr_shm[eui]
     IN  \/ /\ processed >= online_usr_num
            /\ eui' = NoSlot
            /\ UNCHANGED <<processed, st>>
         \/ /\ processed < online_usr_num
            /\ processed' = processed + 1
            /\ IF user.uin = NoUin \/ user.v7
                 THEN eui' = eui + 1 /\ UNCHANGED st
                 ELSE /\ st' = [st EXCEPT ![EU] = [Idle EXCEPT !.pc = "store",
                                                             !.ttlv = user.ttlv]]
                      /\ UNCHANGED eui
  /\ UNCHANGED <<usr_shm, online_usr_num, ushm, odb, login_cookies, portal, nsess,
                 nupd, killed, past>>

\* One turn of its loop, up to the load of ttlv.  The loop ends when as many records
\* were seen as the counter says; a hole is skipped; ttl is 0 for V7.
EUVisit ==
  /\ At(EU, "idle") /\ eui # NoSlot
  /\ LET user == usr_shm[eui]
     IN  \/ /\ processed >= online_usr_num
            /\ eui' = NoSlot
            /\ UNCHANGED <<processed, st>>
         \/ /\ processed < online_usr_num
            /\ processed' = IF user.uin = NoUin THEN processed ELSE processed + 1
            /\ IF user.uin = NoUin \/ user.v7
                 THEN eui' = eui + 1 /\ UNCHANGED st
                 ELSE /\ st' = [st EXCEPT ![EU] = [Idle EXCEPT !.pc = "store",
                                                             !.ttlv = user.ttlv]]
                      /\ UNCHANGED eui
  /\ UNCHANGED <<usr_shm, online_usr_num, ushm, odb, login_cookies, portal, nsess,
                 nupd, killed, past>>

\* ttlv--, on an unsigned long.
Decremented(ttlv) == IF ttlv \in {0, Wrapped} THEN Wrapped ELSE ttlv - 1

\* Its store, which overwrites what another process wrote since, and the decision to
\* expire the user.  The uptime test fails when the clock was set back.
EUStore ==
  /\ At(EU, "store")
  /\ LET user == usr_shm[eui]
         ttlv == Decremented(st[EU].ttlv)
     IN  /\ usr_shm' = [usr_shm EXCEPT ![eui].ttlv = ttlv]
         /\ \E uptimeOk \in IF ClockJumps THEN BOOLEAN ELSE {TRUE} :
              IF ttlv = 0 /\ user.uin # NoUin /\ ~user.v7 /\ uptimeOk
                THEN /\ st' = [st EXCEPT ![EU] = [Idle EXCEPT
                               !.pc = "pick", !.uin = user.uin, !.usid = user.usid]]
                     /\ UNCHANGED eui
                ELSE st' = [st EXCEPT ![EU] = Idle] /\ eui' = eui + 1
  /\ UNCHANGED <<online_usr_num, ushm, odb, login_cookies, processed, portal, nsess,
                 nupd, killed, past>>

\* temp_uin is the uin that was tested or, if the build loads the field again, the
\* one the record has now; that user is moved offline.
EUExpire ==
  /\ At(EU, "pick")
  /\ \E u \in {st[EU].uin} \cup (IF Reload THEN {usr_shm[eui].uin} ELSE {}) :
       st' = [st EXCEPT ![EU].pc = "del", ![EU].uin = u]
  /\ eui' = eui + 1
  /\ UNCHANGED <<usr_shm, online_usr_num, ushm, odb, login_cookies, processed, portal,
                 nsess, nupd, killed, past>>

\* MESS_UPDATE: shm_user_update resets ttlv of every record of the user.
EUUpdate(u) ==
  /\ EUReady
  /\ nupd < MaxUpdates /\ Online(u)
  /\ nupd' = nupd + 1
  /\ usr_shm' = [i \in Slots |->
       IF usr_shm[i].uin = u /\ ~usr_shm[i].v7 THEN [usr_shm[i] EXCEPT !.ttlv = TTL]
       ELSE usr_shm[i]]
  /\ UNCHANGED <<online_usr_num, ushm, odb, login_cookies, st, eui, processed, portal,
                 nsess, killed, past>>

\* check_online_table opens its cursor: the rows of this moment.
EUCheckOpen ==
  /\ EUReady
  /\ portal' = odb
  /\ UNCHANGED <<usr_shm, online_usr_num, ushm, odb, login_cookies, st, eui, processed,
                 nsess, nupd, killed, past>>

\* Mutant: the test of the record is negated.
EUCheckRowNegated(u) ==
  /\ At(EU, "idle") /\ u \in portal
  /\ portal' = portal \ {u}
  /\ IF ~Online(u)
       THEN UNCHANGED st
       ELSE st' = [st EXCEPT ![EU] = [Idle EXCEPT !.pc = "del_sql", !.uin = u]]
  /\ UNCHANGED <<usr_shm, online_usr_num, ushm, odb, login_cookies, eui, processed,
                 nsess, nupd, killed, past>>

\* It fetches one.  If no record has its uin the row is deleted, by a separate
\* statement (DbDelete), whoever may have inserted it by then.
EUCheckRow(u) ==
  /\ At(EU, "idle") /\ u \in portal
  /\ portal' = portal \ {u}
  /\ IF Online(u)
       THEN UNCHANGED st
       ELSE st' = [st EXCEPT ![EU] = [Idle EXCEPT !.pc = "del_sql", !.uin = u]]
  /\ UNCHANGED <<usr_shm, online_usr_num, ushm, odb, login_cookies, eui, processed,
                 nsess, nupd, killed, past>>

----------------------------------------------------------------------------
(* Processes are killed (SIGHUP, database failure, SIGSEGV) and forked again. *)

\* SEM_UNDO releases the semaphore; process_euser begins with db_online_clear.
Crash(p) ==
  /\ Crashes
  /\ st' = [st EXCEPT ![p] = Idle]
  /\ ushm' = IF ushm = p THEN NoProc ELSE ushm
  /\ IF p = EU
       THEN eui' = NoSlot /\ portal' = {} /\ odb' = {}
       ELSE UNCHANGED <<eui, portal, odb>>
  /\ UNCHANGED <<usr_shm, online_usr_num, login_cookies, processed, nsess, nupd, past>>
  /\ killed' = killed \cup {p}

PPStep(p) ==
  \/ \E u \in Uins : UdpLogin(p, u) \/ V7Authorize(p, u) \/ CookieCheck(p, u) \/ Logoff(p, u)
  \/ CookieInsert(p) \/ CookieDelete(p)
  \/ ShmAddCount(p) \/ ShmAddWrite(p) \/ DbInsert(p) \/ CloseConnection(p)

EUStep ==
  \/ EUTick \/ EUVisit \/ EUStore \/ EUExpire \/ EUCheckOpen
  \/ \E u \in Uins : EUUpdate(u) \/ EUCheckRow(u)

OfflineStep(p) == ShmDeleteCount(p) \/ ShmDeleteZero(p) \/ DbDelete(p)

Next ==
  \/ \E p \in PPs : PPStep(p)
  \/ EUStep
  \/ \E p \in Procs : OfflineStep(p) \/ Crash(p)

Spec == Init /\ [][Next]_vars

\* A process that has work goes on, and wins a free semaphore in the end; the timer
\* makes EUser scan again and again, and check the table again and again.
Fairness ==
  /\ \A p \in PPs : SF_vars(ShmAddCount(p)) /\ WF_vars(ShmAddWrite(p)) /\ WF_vars(DbInsert(p))
                    /\ WF_vars(CloseConnection(p))
  /\ \A p \in Procs : SF_vars(ShmDeleteCount(p)) /\ WF_vars(ShmDeleteZero(p))
                      /\ WF_vars(DbDelete(p))
  /\ SF_vars(EUTick) /\ SF_vars(EUCheckOpen)
  /\ WF_vars(EUVisit \/ EUStore \/ EUExpire \/ \E u \in Uins : EUCheckRow(u))

FairSpec == Spec /\ Fairness

----------------------------------------------------------------------------
(* Properties. *)

Records == [uin : Uins \cup {NoUin}, usid : 0 .. MaxSessions, v7 : BOOLEAN, ttlv : -1 .. TTL]
Pcs     == {"idle", "auth", "cookie", "add", "add_write", "insert", "close1", "close2",
            "del", "del_zero", "del_sql", "store", "pick"}
Nexts   == {"idle", "auth", "close2"}
Tasks   == [pc : Pcs, uin : Uins \cup {NoUin}, v7 : BOOLEAN, usid : 0 .. MaxSessions,
            slot : 0 .. MaxUserCnt, next : Nexts, ttlv : -1 .. TTL]

\* Every variable has its type; EUser's index is in range while it uses it, a record
\* to be zeroed is a record of the table, and a packet processor works for a user.
TypeOK ==
  /\ usr_shm \in [Slots -> Records]
  /\ online_usr_num \in 0 .. NumMod - 1
  /\ ushm \in Procs \cup {NoProc}
  /\ odb \subseteq Uins /\ login_cookies \subseteq Uins /\ portal \subseteq Uins
  /\ st \in [Procs -> Tasks]
  /\ eui \in 0 .. MaxUserCnt /\ processed \in Nat
  /\ nsess \in 0 .. MaxSessions /\ nupd \in 0 .. MaxUpdates
  /\ killed \subseteq Procs
  /\ late \subseteq PPs /\ stale \subseteq Uins /\ excused \subseteq 0 .. MaxSessions
  /\ st[EU].pc \in {"store", "pick"} => eui \in Slots
  /\ \A p \in Procs : At(p, "del_zero") => st[p].slot \in Slots
  /\ \A p \in PPs : At(p, "idle") \/ st[p].uin \in Uins

\* ipc_vars->online_usr_num ("number of records in shm userspace", includes.h) is the
\* number of records whenever no process is inside shm_add or shm_delete.
CountMatches == ushm = NoProc => online_usr_num = Cardinality(Occupied)

\* shm_add's "internal err ?" never happens: a login that passed the capacity test
\* finds an empty record.
RoomForRecord == \A p \in PPs : At(p, "add_write") => Online(NoUin)

\* A user has two records, of which lookups, deletes and broadcasts take the first they
\* find, only if the login of one was decided before the user came online by another:
\* by a handler that tested first and inserted later (proto_handler.cpp:1222), with a
\* cookie that the user had been given while offline (v7_proto/proto_handler.cpp:330),
\* or by kicking one of two records he had already.  Whatever EUser, other logins and
\* logoffs, full tables and killed processes do, there is no other way.
DoublesAreKnown ==
  \A u \in Uins : \A i, j \in SlotsOf(u) :
    i # j => {usr_shm[i].usid, usr_shm[j].usid} \cap excused # {}

\* "Decr counters in all cache records and drop offline expired users" (euser.cpp): a
\* V3/V5 session whose client has gone silent leaves the table, unless a process was
\* killed: in shm_delete it leaves the counter wrong, which nobody repairs; between the
\* store of a 0 and the deletion it leaves a counter that wraps.
SilentSession(s) == \E i \in Slots : usr_shm[i].usid = s /\ ~usr_shm[i].v7
SessionEnds == \A s \in 1 .. MaxSessions : SilentSession(s) ~> ~InShm(s) \/ killed # {}

\* A row of Online_Users without a record goes, or its user comes back.
StaleRow(u) == u \in odb /\ ~Online(u)
StaleRowsGo == \A u \in Uins : StaleRow(u) ~> ~StaleRow(u)

=============================================================================
