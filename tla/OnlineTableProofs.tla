------------------------- MODULE OnlineTableProofs -------------------------
(***************************************************************************)
(* Proofs about OnlineTable: type correctness in every build, and, while   *)
(* no process is killed inside the critical sections and the uin is loaded *)
(* once, that the counter counts the records and that a login which passed *)
(* the capacity test finds an empty record; and that a user who has two    *)
(* records came online while another login of his was on its way.          *)
(***************************************************************************)
EXTENDS OnlineTable, TLAPS, FiniteSetTheorems, WellFoundedInduction

USE DEF NoUin, NoSlot, Wrapped

----------------------------------------------------------------------------
(* The helpers. *)

\* The first of some slots is one of them.
LEMMA FirstOfIn ==
  ASSUME NEW S, S \subseteq Slots, S # {}
  PROVE  FirstOf(S) \in S
<1>1. S \subseteq Nat
  BY SizesAssumption DEF Slots
<1> DEFINE Less == {ss \in Nat \X Nat : ss[1] < ss[2]}
<1>2. IsWellFoundedOn(Less, Nat)
  BY NatLessThanWellFounded DEF OpToRel
<1>3. ASSUME NEW R, IsWellFoundedOn(R, Nat)
      PROVE  \E i \in S : \A j \in S : ~(<<j, i>> \in R)
  BY <1>1, <1>3, WFMin
<1>4. PICK i \in S : \A j \in S : ~(<<j, i>> \in Less)
  BY <1>2, <1>3
<1>5. ASSUME NEW j \in S PROVE i <= j
  <2>1. i \in Nat /\ j \in Nat
    BY <1>1
  <2>2. ~(j < i)
    BY <1>4, <2>1
  <2> QED BY <2>1, <2>2
<1> QED BY <1>5 DEF FirstOf

LEMMA IdleType == Idle \in Tasks /\ Hole \in Records
BY SizesAssumption DEF Idle, Tasks, Pcs, Nexts, Hole, Records

LEMMA SlotOfUin ==
  ASSUME NEW u, Online(u)
  PROVE  FirstOf(SlotsOf(u)) \in Slots /\ usr_shm[FirstOf(SlotsOf(u))].uin = u
BY FirstOfIn DEF Online, SlotsOf

LEMMA DecrementedType ==
  ASSUME NEW t \in -1 .. TTL PROVE Decremented(t) \in -1 .. TTL
BY SizesAssumption DEF Decremented

LEMMA ModType ==
  ASSUME NEW n \in Nat PROVE n % NumMod \in 0 .. NumMod - 1
BY SizesAssumption

LEMMA ModOnce ==
  ASSUME NEW n \in 0 .. NumMod - 1 PROVE (n + NumMod) % NumMod = n
BY SizesAssumption

----------------------------------------------------------------------------
(* Type correctness. *)

\* What one process's new task keeps of TypeOK.
TaskOK(p, t) == /\ t \in Tasks
                /\ t.pc = "del_zero" => t.slot \in Slots
                /\ p = EU /\ t.pc \in {"store", "pick"} => eui' \in Slots
                /\ p \in PPs => t.pc = "idle" \/ t.uin \in Uins

TasksOK == /\ st \in [Procs -> Tasks]
           /\ st[EU].pc \in {"store", "pick"} => eui \in Slots
           /\ \A q \in Procs : st[q].pc = "del_zero" => st[q].slot \in Slots
           /\ \A q \in PPs : st[q].pc = "idle" \/ st[q].uin \in Uins

LEMMA TypeHasTasks == TypeOK => TasksOK
BY DEF TypeOK, TasksOK, At

LEMMA NewTask ==
  ASSUME TasksOK, NEW p \in Procs, NEW t, TaskOK(p, t), st' = [st EXCEPT ![p] = t],
         p = EU \/ eui' = eui
  PROVE  TasksOK'
BY NamesAssumption DEF TasksOK, TaskOK, Procs

LEMMA TypeStep == TypeOK /\ [Next]_vars => TypeOK'
<1> SUFFICES ASSUME TypeOK, [Next]_vars PROVE TypeOK'
  OBVIOUS
<1> USE SizesAssumption, NamesAssumption, IdleType
<1>a. /\ \A p \in PPs : p \in Procs /\ p # EU
      /\ EU \in Procs /\ \A p \in Procs : st[p] \in Tasks
      /\ "idle" \in Pcs /\ "auth" \in Pcs /\ "cookie" \in Pcs /\ "add" \in Pcs
      /\ "add_write" \in Pcs /\ "insert" \in Pcs /\ "close1" \in Pcs /\ "close2" \in Pcs
      /\ "del" \in Pcs /\ "del_zero" \in Pcs /\ "del_sql" \in Pcs /\ "store" \in Pcs
      /\ "pick" \in Pcs /\ "idle" \in Nexts /\ "auth" \in Nexts /\ "close2" \in Nexts
  BY DEF Procs, TypeOK, Pcs, Nexts, Idle
<1>b. TasksOK
  BY TypeHasTasks
<1>c. \A p \in PPs : st[p].pc = "idle" \/ st[p].uin \in Uins
  BY <1>b DEF TasksOK
<1>1. ASSUME NEW p \in PPs, NEW u \in Uins, UdpLogin(p, u) PROVE TypeOK'
  <2> DEFINE t == [Idle EXCEPT !.pc = "add", !.uin = u, !.usid = nsess + 1]
  <2>2. nsess + 1 \in 0 .. MaxSessions
    BY <1>1 DEF UdpLogin, TypeOK
  <2>1. TaskOK(p, t)
    BY <1>1, <1>a, <1>b, <1>c, <2>2 DEF UdpLogin, TaskOK, TasksOK, Tasks, Idle, At
  <2>3. st' = [st EXCEPT ![p] = t]
    BY <1>1, <1>a DEF UdpLogin, Goto, TypeOK
  <2> HIDE DEF t
  <2>4. TasksOK'
    BY <1>1, <1>a, <1>b, <2>1, <2>3, NewTask DEF UdpLogin
  <2> QED BY <1>1, <1>c, <2>4, <2>2 DEF UdpLogin, TasksOK, TypeOK, At, past
<1>2. ASSUME NEW p \in PPs, NEW u \in Uins, CookieCheck(p, u) PROVE TypeOK'
  <2> DEFINE t == [Idle EXCEPT !.pc = "cookie", !.uin = u, !.v7 = TRUE,
                           !.usid = nsess + 1]
  <2>2. nsess + 1 \in 0 .. MaxSessions
    BY <1>2 DEF CookieCheck, TypeOK
  <2>1. TaskOK(p, t)
    BY <1>2, <1>a, <1>b, <1>c, <2>2 DEF CookieCheck, TaskOK, TasksOK, Tasks, Idle, At
  <2>3. st' = [st EXCEPT ![p] = t]
    BY <1>2, <1>a DEF CookieCheck, Goto, TypeOK
  <2> HIDE DEF t
  <2>4. TasksOK'
    BY <1>2, <1>a, <1>b, <2>1, <2>3, NewTask DEF CookieCheck
  <2> QED BY <1>2, <1>c, <2>4, <2>2 DEF CookieCheck, TasksOK, TypeOK, At, past
<1>3. ASSUME NEW p \in PPs, NEW u \in Uins, Logoff(p, u) PROVE TypeOK'
  <2> DEFINE t == [Idle EXCEPT !.pc = "del", !.uin = u]
  <2>1. TaskOK(p, t)
    BY <1>3, <1>a, <1>b, <1>c DEF Logoff, TaskOK, TasksOK, Tasks, Idle, At
  <2>3. st' = [st EXCEPT ![p] = t]
    BY <1>3, <1>a DEF Logoff, Goto, TypeOK
  <2> HIDE DEF t
  <2>4. TasksOK'
    BY <1>3, <1>a, <1>b, <2>1, <2>3, NewTask DEF Logoff
  <2> QED BY <1>3, <1>c, <2>4 DEF Logoff, TasksOK, TypeOK, At, past
<1>4. ASSUME NEW p \in PPs, CookieInsert(p) PROVE TypeOK'
  <2> DEFINE t == Idle
  <2>1. TaskOK(p, t)
    BY <1>4, <1>a, <1>b, <1>c DEF CookieInsert, TaskOK, TasksOK, Tasks, Idle, At
  <2>3. st' = [st EXCEPT ![p] = t]
    BY <1>4, <1>a DEF CookieInsert, Goto, TypeOK
  <2> HIDE DEF t
  <2>4. TasksOK'
    BY <1>4, <1>a, <1>b, <2>1, <2>3, NewTask DEF CookieInsert
  <2> QED BY <1>4, <1>c, <2>4 DEF CookieInsert, TasksOK, TypeOK, At, past
<1>5. ASSUME NEW p \in PPs, CookieDelete(p) PROVE TypeOK'
  <2> DEFINE t == [st[p] EXCEPT !.pc = "add"]
  <2>1. TaskOK(p, t)
    BY <1>5, <1>a, <1>b, <1>c DEF CookieDelete, TaskOK, TasksOK, Tasks, Idle, At
  <2>3. st' = [st EXCEPT ![p] = t]
    BY <1>5, <1>a DEF CookieDelete, Goto, TypeOK
  <2> HIDE DEF t
  <2>4. TasksOK'
    BY <1>5, <1>a, <1>b, <2>1, <2>3, NewTask DEF CookieDelete
  <2> QED BY <1>5, <1>c, <2>4 DEF CookieDelete, TasksOK, TypeOK, At, past
<1>6. ASSUME NEW p \in PPs, NEW u \in Uins, V7Authorize(p, u) PROVE TypeOK'
  <2> DEFINE t == IF Online(u) THEN [Idle EXCEPT !.pc = "del", !.uin = u, !.next = "auth"]
                         ELSE [Idle EXCEPT !.pc = "auth", !.uin = u]
  <2>1. TaskOK(p, t)
    BY <1>6, <1>a, <1>b, <1>c DEF V7Authorize, TaskOK, TasksOK, Tasks, Idle, At
  <2>3. st' = [st EXCEPT ![p] = t]
    BY <1>6, <1>a DEF V7Authorize, Goto, TypeOK
  <2> HIDE DEF t
  <2>4. TasksOK'
    BY <1>6, <1>a, <1>b, <2>1, <2>3, NewTask DEF V7Authorize
  <2> QED BY <1>6, <1>c, <2>4 DEF V7Authorize, TasksOK, TypeOK, At, past
<1>7. ASSUME NEW p \in PPs, ShmAddCount(p) PROVE TypeOK'
  <2> DEFINE t == IF online_usr_num < MaxUserCnt THEN [st[p] EXCEPT !.pc = "add_write"]
                                          ELSE Idle
  <2>5. (online_usr_num + 1) % NumMod \in 0 .. NumMod - 1
    BY ModType DEF TypeOK
  <2>1. TaskOK(p, t)
    BY <1>7, <1>a, <1>b, <1>c DEF ShmAddCount, TaskOK, TasksOK, Tasks, Idle, At
  <2>3. st' = [st EXCEPT ![p] = t]
    BY <1>7, <1>a DEF ShmAddCount, Goto, TypeOK
  <2> HIDE DEF t
  <2>4. TasksOK'
    BY <1>7, <1>a, <1>b, <2>1, <2>3, NewTask DEF ShmAddCount
  <2> QED BY <1>7, <1>c, <2>4, <1>a, <2>5 DEF ShmAddCount, TasksOK, TypeOK, At, past
<1>8. ASSUME NEW p \in PPs, ShmAddWrite(p) PROVE TypeOK'
  <2> DEFINE t == IF Online(NoUin) THEN [st[p] EXCEPT !.pc = "insert"] ELSE Idle
  <2>5. [uin |-> st[p].uin, usid |-> st[p].usid, v7 |-> st[p].v7,
         ttlv |-> IF st[p].v7 THEN 0 ELSE TTL] \in Records
    BY <1>a DEF Tasks, Records
  <2>1. TaskOK(p, t)
    BY <1>8, <1>a, <1>b, <1>c DEF ShmAddWrite, TaskOK, TasksOK, Tasks, Idle, At
  <2>3. st' = [st EXCEPT ![p] = t]
    BY <1>8, <1>a DEF ShmAddWrite, Goto, TypeOK
  <2> HIDE DEF t
  <2>4. TasksOK'
    BY <1>8, <1>a, <1>b, <2>1, <2>3, NewTask DEF ShmAddWrite
  <2>6. st[p].usid \in 0 .. MaxSessions /\ st[p].uin \in Uins
    BY <1>8, <1>a, <1>c DEF ShmAddWrite, At, Tasks
  <2>7. late' \subseteq PPs /\ stale' \subseteq Uins /\ excused' \subseteq 0 .. MaxSessions
    BY <1>8, <2>6 DEF ShmAddWrite, TypeOK, past
  <2> QED BY <1>8, <1>c, <2>4, <2>5, <2>7 DEF ShmAddWrite, TasksOK, TypeOK, At
<1>9. ASSUME NEW p \in PPs, DbInsert(p) PROVE TypeOK'
  <2> DEFINE t == IF st[p].uin \in odb /\ st[p].v7 THEN [st[p] EXCEPT !.pc = "close1"]
                                              ELSE Idle
  <2>5. st[p].usid \in 0 .. MaxSessions
    BY <1>a DEF Tasks
  <2>1. TaskOK(p, t)
    BY <1>9, <1>a, <1>b, <1>c DEF DbInsert, TaskOK, TasksOK, Tasks, Idle, At
  <2>3. st' = [st EXCEPT ![p] = t]
    BY <1>9, <1>a DEF DbInsert, Goto, TypeOK
  <2> HIDE DEF t
  <2>4. TasksOK'
    BY <1>9, <1>a, <1>b, <2>1, <2>3, NewTask DEF DbInsert
  <2> QED BY <1>9, <1>c, <2>4, <1>a, <2>5 DEF DbInsert, TasksOK, TypeOK, At, past
<1>10. ASSUME NEW p \in PPs, CloseConnection(p) PROVE TypeOK'
  <2> DEFINE t == LET then == IF At(p, "close1") THEN "close2" ELSE "idle"
                 IN  IF InShm(st[p].usid)
                       THEN [st[p] EXCEPT !.pc = "del", !.next = then]
                       ELSE [st[p] EXCEPT !.pc = then]
  <2>1. TaskOK(p, t)
    BY <1>10, <1>a, <1>b, <1>c DEF CloseConnection, TaskOK, TasksOK, Tasks, Idle, At
  <2>3. st' = [st EXCEPT ![p] = t]
    BY <1>10, <1>a DEF CloseConnection, Goto, TypeOK
  <2> HIDE DEF t
  <2>4. TasksOK'
    BY <1>10, <1>a, <1>b, <2>1, <2>3, NewTask DEF CloseConnection
  <2> QED BY <1>10, <1>c, <2>4 DEF CloseConnection, TasksOK, TypeOK, At, past
<1>11. ASSUME NEW p \in Procs, ShmDeleteCount(p) PROVE TypeOK'
  <2> DEFINE t == IF Online(st[p].uin)
                   THEN [st[p] EXCEPT !.pc = "del_zero",
                                      !.slot = FirstOf(SlotsOf(st[p].uin))]
                   ELSE [st[p] EXCEPT !.pc = "del_sql"]
  <2>5. (online_usr_num + NumMod - 1) % NumMod \in 0 .. NumMod - 1
    BY ModType DEF TypeOK
  <2>6. Online(st[p].uin) => FirstOf(SlotsOf(st[p].uin)) \in Slots \cap 0 .. MaxUserCnt
    BY SlotOfUin DEF Slots
  <2>1. TaskOK(p, t)
    BY <1>11, <1>a, <1>b, <1>c, <2>6 DEF ShmDeleteCount, TaskOK, TasksOK, Tasks, Idle, At
  <2>3. st' = [st EXCEPT ![p] = t]
    BY <1>11, <1>a DEF ShmDeleteCount, Goto, TypeOK
  <2> HIDE DEF t
  <2>4. TasksOK'
    BY <1>11, <1>a, <1>b, <2>1, <2>3, NewTask DEF ShmDeleteCount
  <2> QED BY <1>11, <1>c, <2>4, <2>5 DEF ShmDeleteCount, TasksOK, TypeOK, At, past
<1>12. ASSUME NEW p \in Procs, ShmDeleteZero(p) PROVE TypeOK'
  <2> DEFINE t == [st[p] EXCEPT !.pc = "del_sql"]
  <2>1. TaskOK(p, t)
    BY <1>12, <1>a, <1>b, <1>c DEF ShmDeleteZero, TaskOK, TasksOK, Tasks, Idle, At
  <2>3. st' = [st EXCEPT ![p] = t]
    BY <1>12, <1>a DEF ShmDeleteZero, Goto, TypeOK
  <2> HIDE DEF t
  <2>4. TasksOK'
    BY <1>12, <1>a, <1>b, <2>1, <2>3, NewTask DEF ShmDeleteZero
  <2> QED BY <1>12, <1>c, <2>4 DEF ShmDeleteZero, TasksOK, TypeOK, At, past
<1>13. ASSUME NEW p \in Procs, DbDelete(p) PROVE TypeOK'
  <2> DEFINE t == IF st[p].next = "idle" THEN Idle
                 ELSE [st[p] EXCEPT !.pc = st[p].next, !.slot = NoSlot, !.next = "idle"]
  <2>5. st[p].next \in Nexts /\ Nexts \subseteq Pcs
        /\ "del_zero" \notin Nexts /\ "store" \notin Nexts /\ "pick" \notin Nexts
    BY <1>a DEF Tasks, Nexts, Pcs
  <2>1. TaskOK(p, t)
    BY <1>13, <1>a, <1>b, <1>c, <2>5 DEF DbDelete, TaskOK, TasksOK, Tasks, Idle, At
  <2>3. st' = [st EXCEPT ![p] = t]
    BY <1>13, <1>a DEF DbDelete, Goto, TypeOK
  <2> HIDE DEF t
  <2>4. TasksOK'
    BY <1>13, <1>a, <1>b, <2>1, <2>3, NewTask DEF DbDelete
  <2> QED BY <1>13, <1>c, <2>4 DEF DbDelete, TasksOK, TypeOK, At, past
<1>14. ASSUME NEW p \in Procs, Crash(p) PROVE TypeOK'
  <2> DEFINE t == Idle
  <2>1. TaskOK(p, t)
    BY <1>14, <1>a, <1>b, <1>c DEF Crash, TaskOK, TasksOK, Tasks, Idle, At
  <2>3. st' = [st EXCEPT ![p] = t]
    BY <1>14, <1>a DEF Crash, Goto, TypeOK
  <2> HIDE DEF t
  <2>4. TasksOK'
    BY <1>14, <1>a, <1>b, <2>1, <2>3, NewTask DEF Crash
  <2>5. odb' \subseteq Uins /\ portal' \subseteq Uins /\ eui' \in 0 .. MaxUserCnt
    <3>1. CASE p = EU
      BY <1>14, <3>1 DEF Crash
    <3>2. CASE p # EU
      BY <1>14, <3>2 DEF Crash, TypeOK
    <3> QED BY <3>1, <3>2
  <2>6. ushm' \in Procs \cup {NoProc}
    BY <1>14 DEF Crash, TypeOK
  <2> QED BY <1>14, <1>c, <2>4, <2>5, <2>6 DEF Crash, TasksOK, TypeOK, At, past
<1>15. CASE EUTick
  BY <1>15 DEF EUTick, EUReady, TypeOK, At, Slots, past
<1>16. CASE EUVisit
  <2> DEFINE t == IF eui' = eui /\ processed < online_usr_num
                   THEN [Idle EXCEPT !.pc = "store", !.ttlv = usr_shm[eui].ttlv]
                   ELSE st[EU]
  <2>5. eui \in Slots /\ eui + 1 \in 0 .. MaxUserCnt /\ eui + 1 # eui /\ NoSlot # eui
    BY <1>16 DEF EUVisit, TypeOK, Slots, At
  <2>6. usr_shm[eui] \in Records
    BY <2>5 DEF TypeOK
  <2>7. usr_shm[eui].ttlv \in -1 .. TTL
    BY <2>6 DEF Records
  <2>1. TaskOK(EU, t)
    BY <1>16, <1>a, <1>b, <1>c, <2>5, <2>6, <2>7 DEF EUVisit, TaskOK, TasksOK, Tasks, Idle, At
  <2>3. st' = [st EXCEPT ![EU] = t]
    BY <1>16, <1>a DEF EUVisit, Goto, TypeOK
  <2> HIDE DEF t
  <2>4. TasksOK'
    BY <1>16, <1>a, <1>b, <2>1, <2>3, NewTask DEF EUVisit
  <2> QED BY <1>16, <1>c, <2>4, <1>a, <2>5 DEF EUVisit, TasksOK, TypeOK, At, past
<1>17. CASE EUStore
  <2> DEFINE t == IF eui' = eui THEN [Idle EXCEPT !.pc = "pick", !.uin = usr_shm[eui].uin,
                                                   !.usid = usr_shm[eui].usid]
                                 ELSE Idle
  <2>5. eui \in Slots /\ eui + 1 \in 0 .. MaxUserCnt /\ eui + 1 # eui /\ NoSlot # eui
    BY <1>17 DEF EUStore, TypeOK, Slots, At
  <2>6. usr_shm[eui] \in Records
    BY <2>5 DEF TypeOK
  <2>7. usr_shm[eui].uin \in Uins \cup {NoUin} /\ usr_shm[eui].usid \in 0 .. MaxSessions
    BY <2>6 DEF Records
  <2>8. st[EU].ttlv \in -1 .. TTL
    BY <1>a DEF Tasks
  <2>9. [usr_shm[eui] EXCEPT !.ttlv = Decremented(st[EU].ttlv)] \in Records
    BY <2>6, <2>8, DecrementedType DEF Records
  <2>10. usr_shm' = [usr_shm EXCEPT ![eui] = [usr_shm[eui] EXCEPT !.ttlv =
                                                Decremented(st[EU].ttlv)]]
    BY <1>17 DEF EUStore
  <2>1. TaskOK(EU, t)
    BY <1>17, <1>a, <1>b, <1>c, <2>5, <2>7 DEF EUStore, TaskOK, TasksOK, Tasks, Idle, At
  <2>3. st' = [st EXCEPT ![EU] = t]
    BY <1>17, <1>a DEF EUStore, Goto, TypeOK
  <2> HIDE DEF t
  <2>4. TasksOK'
    BY <1>17, <1>a, <1>b, <2>1, <2>3, NewTask DEF EUStore
  <2> QED BY <1>17, <1>c, <2>4, <2>5, <2>9, <2>10 DEF EUStore, TasksOK, TypeOK, At, past
<1>18. CASE EUExpire
  <2>1. PICK u \in {st[EU].uin} \cup (IF Reload THEN {usr_shm[eui].uin} ELSE {}) :
          st' = [st EXCEPT ![EU].pc = "del", ![EU].uin = u]
    BY <1>18 DEF EUExpire
  <2>2. eui \in Slots /\ eui + 1 \in 0 .. MaxUserCnt
    BY <1>18 DEF EUExpire, TypeOK, Slots, At
  <2>3. u \in Uins \cup {NoUin}
    <3>1. usr_shm[eui].uin \in Uins \cup {NoUin}
      BY <2>2 DEF TypeOK, Records
    <3>2. st[EU].uin \in Uins \cup {NoUin}
      BY <1>a DEF Tasks
    <3> QED BY <3>1, <3>2
  <2> DEFINE t == [st[EU] EXCEPT !.pc = "del", !.uin = u]
  <2>4. TaskOK(EU, t)
    BY <1>a, <2>3 DEF TaskOK, Tasks
  <2>5. st' = [st EXCEPT ![EU] = t]
    BY <1>a, <2>1 DEF TypeOK
  <2> HIDE DEF t
  <2>6. TasksOK'
    BY <1>a, <1>b, <2>4, <2>5, NewTask
  <2> QED BY <1>18, <2>2, <2>6 DEF EUExpire, TasksOK, TypeOK, At, past
<1>19. CASE EUCheckOpen
  BY <1>19 DEF EUCheckOpen, EUReady, TypeOK, At, past
<1>20. ASSUME NEW u \in Uins, EUUpdate(u) PROVE TypeOK'
  BY <1>20 DEF EUUpdate, EUReady, Records, TypeOK, At, past
<1>21. ASSUME NEW u \in Uins, EUCheckRow(u) PROVE TypeOK'
  <2> DEFINE t == IF Online(u) THEN st[EU] ELSE [Idle EXCEPT !.pc = "del_sql", !.uin = u]
  <2>1. TaskOK(EU, t)
    BY <1>21, <1>a, <1>b, <1>c DEF EUCheckRow, TaskOK, TasksOK, Tasks, Idle, At
  <2>3. st' = [st EXCEPT ![EU] = t]
    BY <1>21, <1>a DEF EUCheckRow, Goto, TypeOK
  <2> HIDE DEF t
  <2>4. TasksOK'
    BY <1>21, <1>a, <1>b, <2>1, <2>3, NewTask DEF EUCheckRow
  <2> QED BY <1>21, <1>c, <2>4 DEF EUCheckRow, TasksOK, TypeOK, At, past
<1>22. CASE UNCHANGED vars
  BY <1>22 DEF vars, past, TypeOK, At, past
<1> QED
  BY <1>1, <1>2, <1>3, <1>4, <1>5, <1>6, <1>7, <1>8, <1>9, <1>10, <1>11, <1>12, <1>13, <1>14, <1>15, <1>16, <1>17, <1>18, <1>19, <1>20, <1>21, <1>22
  DEF Next, PPStep, EUStep, OfflineStep

\* Type correctness of every variable, whatever is killed and whatever the build.
THEOREM TypeCorrect == Spec => []TypeOK
<1>1. Init => TypeOK
  <2> SUFFICES ASSUME Init PROVE TypeOK
    OBVIOUS
  <2>1. st \in [Procs -> Tasks] /\ \A p \in Procs : st[p].pc = "idle"
    BY IdleType DEF Init, Idle
  <2>2. usr_shm \in [Slots -> Records]
    BY IdleType DEF Init
  <2>3. EU \in Procs /\ PPs \subseteq Procs
    BY DEF Procs
  <2>4. /\ MaxUserCnt \in 0 .. MaxUserCnt /\ 0 \in 0 .. NumMod - 1 /\ 0 \in Nat
        /\ 0 \in 0 .. MaxSessions /\ 0 \in 0 .. MaxUpdates
    BY SizesAssumption
  <2> QED BY <2>1, <2>2, <2>3, <2>4 DEF Init, TypeOK, At
<1> QED BY <1>1, TypeStep, PTL DEF Spec

----------------------------------------------------------------------------
(* The counter.  Inside shm_add and shm_delete it runs one ahead of, or one *)
(* behind, the records; only the semaphore's holder is there.              *)

Inside  == {"add_write", "del_zero"}
Ahead   == IF ushm = NoProc THEN 0 ELSE IF st[ushm].pc = "add_write" THEN 1 ELSE -1

OneInside     == \A p \in Procs : st[p].pc \in Inside => ushm = p
HolderInside  == ushm # NoProc => st[ushm].pc \in Inside
ZeroesRecord  == \A p \in Procs : st[p].pc = "del_zero" => st[p].slot \in Occupied
ExpiresUser   == st[EU].pc \in {"pick", "del"} => st[EU].uin \in Uins
CounterCounts == /\ online_usr_num = Cardinality(Occupied) + Ahead
                 /\ online_usr_num <= MaxUserCnt

CountInv == OneInside /\ HolderInside /\ ZeroesRecord /\ ExpiresUser /\ CounterCounts

LEMMA OccupiedFinite ==
  /\ IsFiniteSet(Occupied) /\ Cardinality(Occupied) \in Nat
  /\ Cardinality(Occupied) <= MaxUserCnt
  /\ Cardinality(Occupied) = MaxUserCnt => Occupied = Slots
<1>1. IsFiniteSet(Slots) /\ Cardinality(Slots) = MaxUserCnt
  <2>1. 0 \in Int /\ MaxUserCnt - 1 \in Int /\ ~(0 > MaxUserCnt - 1)
    BY SizesAssumption
  <2> QED BY <2>1, FS_Interval, SizesAssumption DEF Slots
<1>2. Occupied \in SUBSET Slots
  BY DEF Occupied
<1> QED BY <1>1, <1>2, FS_Subset, FS_CardinalityType

\* A step outside the critical sections that leaves the occupied slots alone.
LEMMA CountFrame ==
  ASSUME TypeOK, CountInv, NEW p \in Procs, NEW t, st' = [st EXCEPT ![p] = t],
         st[p].pc \notin Inside, t.pc \notin Inside,
         p = EU /\ t.pc \in {"pick", "del"} => t.uin \in Uins,
         ushm' = ushm, online_usr_num' = online_usr_num, Occupied' = Occupied
  PROVE  CountInv'
<1>1. /\ st'[p] = t /\ \A q \in Procs \ {p} : st'[q] = st[q]
      /\ ushm = NoProc \/ ushm \in Procs \ {p}
  BY NamesAssumption DEF TypeOK, CountInv, HolderInside
<1>2. OneInside' /\ HolderInside' /\ Ahead' = Ahead
  BY <1>1 DEF CountInv, OneInside, HolderInside, Ahead
<1>3. ZeroesRecord'
  BY <1>1 DEF CountInv, ZeroesRecord, Inside
<1>4. ExpiresUser'
  BY <1>1 DEF CountInv, ExpiresUser, Procs
<1>5. CounterCounts'
  BY <1>2 DEF CountInv, CounterCounts
<1> QED BY <1>2, <1>3, <1>4, <1>5 DEF CountInv

LEMMA AddCountKeeps ==
  ASSUME TypeOK, CountInv, NEW p \in PPs, ShmAddCount(p) PROVE CountInv'
<1> USE NamesAssumption
<1>1. st \in [Procs -> Tasks] /\ p \in Procs /\ p # EU /\ ushm = NoProc
      /\ st[p].pc = "add" /\ Occupied' = Occupied
  BY DEF ShmAddCount, TypeOK, Procs, At, Occupied, Slots
<1>2. CASE ~(online_usr_num < MaxUserCnt)
  <2>1. st' = [st EXCEPT ![p] = Idle] /\ ushm' = ushm /\ online_usr_num' = online_usr_num
    BY <1>2 DEF ShmAddCount
  <2>2. Idle.pc \notin Inside /\ st[p].pc \notin Inside
    BY <1>1 DEF Idle, Inside
  <2> QED BY <1>1, <2>1, <2>2, CountFrame
<1>3. CASE online_usr_num < MaxUserCnt
  <2>1. /\ st' = [st EXCEPT ![p].pc = "add_write"] /\ ushm' = p
        /\ online_usr_num' = (online_usr_num + 1) % NumMod
    BY <1>3 DEF ShmAddCount, Goto
  <2>2. \A q \in Procs : st[q].pc \notin Inside
    BY <1>1 DEF CountInv, OneInside, Procs, NoProc
  <2>3. /\ st'[p].pc = "add_write" /\ \A q \in Procs \ {p} : st'[q] = st[q]
    BY <1>1, <2>1 DEF Tasks
  <2>4. OneInside' /\ HolderInside' /\ Ahead' = 1
    BY <1>1, <2>1, <2>2, <2>3 DEF OneInside, HolderInside, Ahead, Inside, Procs, NoProc
  <2>5. ZeroesRecord' /\ ExpiresUser'
    BY <1>1, <2>2, <2>3 DEF CountInv, ZeroesRecord, ExpiresUser, Inside, Procs
  <2>6. online_usr_num' = online_usr_num + 1
    <3>1. online_usr_num \in 0 .. MaxUserCnt - 1
      BY <1>3, SizesAssumption DEF TypeOK
    <3> QED BY <2>1, <3>1, SizesAssumption
  <2>7. Ahead = 0
    BY <1>1 DEF Ahead
  <2>8. CounterCounts'
    <3>1. online_usr_num = Cardinality(Occupied) /\ online_usr_num \in Nat
      BY <2>7, OccupiedFinite DEF CountInv, CounterCounts
    <3>2. Cardinality(Occupied)' = Cardinality(Occupied)
      BY <1>1
    <3>3. (Cardinality(Occupied) + Ahead)' = Cardinality(Occupied) + 1
      BY <2>4, <3>2
    <3> QED BY <1>3, <2>6, <3>1, <3>3, SizesAssumption DEF CounterCounts
  <2> QED BY <2>4, <2>5, <2>8 DEF CountInv
<1> QED BY <1>2, <1>3

LEMMA CountGivesRoom == TypeOK /\ CountInv => RoomForRecord
<1> SUFFICES ASSUME TypeOK, CountInv, NEW p \in PPs, st[p].pc = "add_write"
             PROVE  Online(NoUin)
  BY DEF RoomForRecord, At
<1>1. p \in Procs /\ ushm = p /\ p # NoProc
  BY NamesAssumption DEF CountInv, OneInside, Inside, Procs, NoProc
<1>2. online_usr_num = Cardinality(Occupied) + 1 /\ online_usr_num <= MaxUserCnt
  BY <1>1 DEF CountInv, CounterCounts, Ahead
<1>3. Occupied # Slots
  <2>1. IsFiniteSet(Slots) /\ Cardinality(Slots) = MaxUserCnt
    <3>1. 0 \in Int /\ MaxUserCnt - 1 \in Int /\ ~(0 > MaxUserCnt - 1)
      BY SizesAssumption
    <3> QED BY <3>1, FS_Interval, SizesAssumption DEF Slots
  <2>2. Cardinality(Occupied) # MaxUserCnt
    BY <1>2, OccupiedFinite, SizesAssumption
  <2> QED BY <2>1, <2>2
<1>4. PICK i \in Slots : i \notin Occupied
  BY <1>3 DEF Occupied
<1> QED BY <1>4 DEF Occupied, Online, SlotsOf

LEMMA AddWriteKeeps ==
  ASSUME TypeOK, CountInv, NEW p \in PPs, ShmAddWrite(p) PROVE CountInv'
<1> USE NamesAssumption
<1> DEFINE i == FirstOf(SlotsOf(NoUin))
<1>1. st \in [Procs -> Tasks] /\ p \in Procs /\ p # EU /\ p # NoProc
      /\ st[p].pc = "add_write" /\ ushm = p /\ st[p].uin \in Uins
  BY DEF ShmAddWrite, TypeOK, Procs, At, NoProc, CountInv, OneInside, Inside
<1>2. Online(NoUin)
  BY <1>1, CountGivesRoom DEF RoomForRecord, At
<1>3. i \in Slots /\ usr_shm[i].uin = NoUin
  BY <1>2, SlotOfUin
<1>4. /\ usr_shm' = [usr_shm EXCEPT ![i] =
           [uin |-> st[p].uin, usid |-> st[p].usid, v7 |-> st[p].v7,
            ttlv |-> IF st[p].v7 THEN 0 ELSE TTL]]
      /\ st' = [st EXCEPT ![p].pc = "insert"] /\ ushm' = NoProc
      /\ online_usr_num' = online_usr_num
  BY <1>2 DEF ShmAddWrite, Goto
<1> HIDE DEF i
<1>5. Occupied' = Occupied \cup {i} /\ i \notin Occupied
  <2>1. st[p].uin # NoUin
    BY <1>1
  <2>2. usr_shm'[i].uin = st[p].uin /\ \A j \in Slots \ {i} : usr_shm'[j] = usr_shm[j]
    BY <1>3, <1>4 DEF TypeOK
  <2> QED BY <1>3, <2>1, <2>2 DEF Occupied, Slots
<1>6. Cardinality(Occupied') = Cardinality(Occupied) + 1
  BY <1>5, OccupiedFinite, FS_AddElement
<1>7. \A q \in Procs \ {p} : st'[q] = st[q] /\ st[q].pc \notin Inside
  BY <1>1, <1>4 DEF CountInv, OneInside
<1>8. st'[p].pc = "insert"
  BY <1>1, <1>4 DEF Tasks
<1>9. OneInside' /\ HolderInside' /\ Ahead' = 0 /\ ZeroesRecord' /\ ExpiresUser'
  BY <1>1, <1>4, <1>7, <1>8 DEF CountInv, OneInside, HolderInside, Ahead, ZeroesRecord,
     ExpiresUser, Inside, Procs
<1>10. Ahead = 1
  BY <1>1 DEF Ahead
<1>11. CounterCounts'
  BY <1>4, <1>6, <1>9, <1>10, OccupiedFinite DEF CountInv, CounterCounts
<1> QED BY <1>9, <1>11 DEF CountInv

LEMMA DeleteCountKeeps ==
  ASSUME TypeOK, CountInv, NEW p \in Procs, ShmDeleteCount(p) PROVE CountInv'
<1> USE NamesAssumption
<1> DEFINE i == FirstOf(SlotsOf(st[p].uin))
<1>1. st \in [Procs -> Tasks] /\ p # NoProc /\ st[p].pc = "del" /\ ushm = NoProc
      /\ st[p].uin \in Uins /\ Occupied' = Occupied
  BY DEF ShmDeleteCount, TypeOK, Procs, At, NoProc, CountInv, ExpiresUser, Occupied, Slots
<1>2. CASE ~Online(st[p].uin)
  <2>1. st' = [st EXCEPT ![p].pc = "del_sql"] /\ ushm' = ushm
        /\ online_usr_num' = online_usr_num
    BY <1>2 DEF ShmDeleteCount, Goto
  <2> DEFINE t == [st[p] EXCEPT !.pc = "del_sql"]
  <2>2. t.pc = "del_sql" /\ st' = [st EXCEPT ![p] = t]
    BY <1>1, <2>1 DEF Tasks
  <2>3. t.pc \notin Inside /\ st[p].pc \notin Inside /\ t.pc \notin {"pick", "del"}
    BY <1>1, <2>2 DEF Inside
  <2> HIDE DEF t
  <2> QED BY <1>1, <2>1, <2>2, <2>3, CountFrame
<1>3. CASE Online(st[p].uin)
  <2>1. i \in Slots /\ usr_shm[i].uin = st[p].uin
    BY <1>3, SlotOfUin
  <2>2. i \in Occupied
    BY <1>1, <2>1 DEF Occupied
  <2>3. /\ st' = [st EXCEPT ![p].pc = "del_zero", ![p].slot = i] /\ ushm' = p
        /\ online_usr_num' = (online_usr_num + NumMod - 1) % NumMod
    BY <1>3 DEF ShmDeleteCount
  <2> HIDE DEF i
  <2>4. \A q \in Procs \ {p} : st'[q] = st[q] /\ st[q].pc \notin Inside
    BY <1>1, <2>3 DEF CountInv, OneInside, Procs, NoProc
  <2>5. st'[p].pc = "del_zero" /\ st'[p].slot = i
    BY <1>1, <2>3 DEF Tasks
  <2>6. OneInside' /\ HolderInside' /\ Ahead' = -1
    BY <1>1, <2>3, <2>4, <2>5 DEF OneInside, HolderInside, Ahead, Inside, Procs
  <2>7. ZeroesRecord'
    BY <1>1, <2>2, <2>4, <2>5 DEF ZeroesRecord, Inside
  <2>8. ExpiresUser'
    BY <2>4, <2>5 DEF CountInv, ExpiresUser, Procs
  <2>9. online_usr_num = Cardinality(Occupied) /\ online_usr_num \in Nat \ {0}
    <3>1. Ahead = 0
      BY <1>1 DEF Ahead
    <3>2. Cardinality(Occupied) # 0
      BY <2>2, OccupiedFinite, FS_EmptySet
    <3> QED BY <3>1, <3>2, OccupiedFinite DEF CountInv, CounterCounts
  <2>10. online_usr_num' = online_usr_num - 1
    <3>1. online_usr_num - 1 \in 0 .. NumMod - 1
      BY <2>9, SizesAssumption DEF TypeOK
    <3>2. online_usr_num + NumMod - 1 = (online_usr_num - 1) + NumMod
      BY <2>9, SizesAssumption
    <3> QED BY <2>3, <3>1, <3>2, ModOnce
  <2>11. CounterCounts'
    BY <1>1, <2>6, <2>9, <2>10, OccupiedFinite, SizesAssumption
    DEF CountInv, CounterCounts
  <2> QED BY <2>6, <2>7, <2>8, <2>11 DEF CountInv
<1> QED BY <1>2, <1>3

LEMMA DeleteZeroKeeps ==
  ASSUME TypeOK, CountInv, NEW p \in Procs, ShmDeleteZero(p) PROVE CountInv'
<1> USE NamesAssumption
<1> DEFINE i == st[p].slot
<1>1. st \in [Procs -> Tasks] /\ p # NoProc /\ st[p].pc = "del_zero" /\ ushm = p
      /\ i \in Occupied /\ i \in Slots
  BY DEF ShmDeleteZero, TypeOK, Procs, At, NoProc, CountInv, OneInside, Inside,
         ZeroesRecord
<1>2. /\ usr_shm' = [usr_shm EXCEPT ![i] = Hole] /\ ushm' = NoProc
      /\ st' = [st EXCEPT ![p].pc = "del_sql"] /\ online_usr_num' = online_usr_num
  BY DEF ShmDeleteZero, Goto
<1> HIDE DEF i
<1>3. Occupied' = Occupied \ {i}
  <2>1. usr_shm'[i].uin = NoUin /\ \A j \in Slots \ {i} : usr_shm'[j] = usr_shm[j]
    BY <1>1, <1>2 DEF TypeOK, Hole
  <2> QED BY <2>1 DEF Occupied, Slots
<1>4. Cardinality(Occupied') = Cardinality(Occupied) - 1
  BY <1>1, <1>3, OccupiedFinite, FS_RemoveElement
<1>5. /\ st'[p].pc = "del_sql"
      /\ \A q \in Procs \ {p} : st'[q] = st[q] /\ st[q].pc \notin Inside
  BY <1>1, <1>2 DEF CountInv, OneInside, Tasks
<1>6. OneInside' /\ HolderInside' /\ Ahead' = 0 /\ ZeroesRecord' /\ ExpiresUser'
  BY <1>1, <1>2, <1>5 DEF CountInv, OneInside, HolderInside, Ahead, ZeroesRecord,
     ExpiresUser, Inside, Procs
<1>7. Ahead = -1
  BY <1>1 DEF Ahead
<1>8. CounterCounts'
  BY <1>2, <1>4, <1>6, <1>7, OccupiedFinite DEF CountInv, CounterCounts
<1> QED BY <1>6, <1>8 DEF CountInv

\* Nothing the counter depends on changes.
LEMMA CountSame ==
  ASSUME CountInv, st' = st, ushm' = ushm, online_usr_num' = online_usr_num,
         Occupied' = Occupied
  PROVE  CountInv'
BY DEF CountInv, OneInside, HolderInside, ZeroesRecord, ExpiresUser, CounterCounts, Ahead

LEMMA SameUins ==
  ASSUME TypeOK, \A i \in Slots : usr_shm'[i].uin = usr_shm[i].uin
  PROVE  Occupied' = Occupied
BY DEF Occupied, Slots

LEMMA CountStep ==
  ASSUME ~Crashes, ~Reload PROVE TypeOK /\ CountInv /\ [Next]_vars => CountInv'
<1> SUFFICES ASSUME TypeOK, CountInv, [Next]_vars PROVE CountInv'
  OBVIOUS
<1> USE NamesAssumption
<1>a. /\ \A p \in PPs : p \in Procs /\ p # EU
      /\ EU \in Procs /\ st \in [Procs -> Tasks] /\ Idle.pc = "idle"
  BY DEF Procs, TypeOK, Idle
<1>1. ASSUME NEW p \in PPs, NEW u \in Uins, UdpLogin(p, u) PROVE CountInv'
  <2> DEFINE t == [Idle EXCEPT !.pc = "add", !.uin = u, !.usid = nsess + 1]
  <2>1. st' = [st EXCEPT ![p] = t] /\ ushm' = ushm /\ online_usr_num' = online_usr_num
    BY <1>1, <1>a DEF UdpLogin, Goto
  <2>2. t.pc \notin Inside /\ st[p].pc \notin Inside
        /\ (p = EU /\ t.pc \in {"pick", "del"} => t.uin \in Uins)
    BY <1>1, <1>a DEF UdpLogin, At, Inside, Idle, Tasks
  <2>3. Occupied' = Occupied
    BY <1>1 DEF UdpLogin, Occupied, Slots, TypeOK
  <2> HIDE DEF t
  <2> QED BY <1>a, <2>1, <2>2, <2>3, CountFrame
<1>2. ASSUME NEW p \in PPs, NEW u \in Uins, CookieCheck(p, u) PROVE CountInv'
  <2> DEFINE t == [Idle EXCEPT !.pc = "cookie", !.uin = u, !.v7 = TRUE,
                           !.usid = nsess + 1]
  <2>1. st' = [st EXCEPT ![p] = t] /\ ushm' = ushm /\ online_usr_num' = online_usr_num
    BY <1>2, <1>a DEF CookieCheck, Goto
  <2>2. t.pc \notin Inside /\ st[p].pc \notin Inside
        /\ (p = EU /\ t.pc \in {"pick", "del"} => t.uin \in Uins)
    BY <1>2, <1>a DEF CookieCheck, At, Inside, Idle, Tasks
  <2>3. Occupied' = Occupied
    BY <1>2 DEF CookieCheck, Occupied, Slots, TypeOK
  <2> HIDE DEF t
  <2> QED BY <1>a, <2>1, <2>2, <2>3, CountFrame
<1>3. ASSUME NEW p \in PPs, NEW u \in Uins, Logoff(p, u) PROVE CountInv'
  <2> DEFINE t == [Idle EXCEPT !.pc = "del", !.uin = u]
  <2>1. st' = [st EXCEPT ![p] = t] /\ ushm' = ushm /\ online_usr_num' = online_usr_num
    BY <1>3, <1>a DEF Logoff, Goto
  <2>2. t.pc \notin Inside /\ st[p].pc \notin Inside
        /\ (p = EU /\ t.pc \in {"pick", "del"} => t.uin \in Uins)
    BY <1>3, <1>a DEF Logoff, At, Inside, Idle, Tasks
  <2>3. Occupied' = Occupied
    BY <1>3 DEF Logoff, Occupied, Slots, TypeOK
  <2> HIDE DEF t
  <2> QED BY <1>a, <2>1, <2>2, <2>3, CountFrame
<1>4. ASSUME NEW p \in PPs, CookieInsert(p) PROVE CountInv'
  <2> DEFINE t == Idle
  <2>1. st' = [st EXCEPT ![p] = t] /\ ushm' = ushm /\ online_usr_num' = online_usr_num
    BY <1>4, <1>a DEF CookieInsert, Goto
  <2>2. t.pc \notin Inside /\ st[p].pc \notin Inside
        /\ (p = EU /\ t.pc \in {"pick", "del"} => t.uin \in Uins)
    BY <1>4, <1>a DEF CookieInsert, At, Inside, Idle, Tasks
  <2>3. Occupied' = Occupied
    BY <1>4 DEF CookieInsert, Occupied, Slots, TypeOK
  <2> HIDE DEF t
  <2> QED BY <1>a, <2>1, <2>2, <2>3, CountFrame
<1>5. ASSUME NEW p \in PPs, CookieDelete(p) PROVE CountInv'
  <2> DEFINE t == [st[p] EXCEPT !.pc = "add"]
  <2>1. st' = [st EXCEPT ![p] = t] /\ ushm' = ushm /\ online_usr_num' = online_usr_num
    BY <1>5, <1>a DEF CookieDelete, Goto
  <2>2. t.pc \notin Inside /\ st[p].pc \notin Inside
        /\ (p = EU /\ t.pc \in {"pick", "del"} => t.uin \in Uins)
    BY <1>5, <1>a DEF CookieDelete, At, Inside, Idle, Tasks
  <2>3. Occupied' = Occupied
    BY <1>5 DEF CookieDelete, Occupied, Slots, TypeOK
  <2> HIDE DEF t
  <2> QED BY <1>a, <2>1, <2>2, <2>3, CountFrame
<1>6. ASSUME NEW p \in PPs, NEW u \in Uins, V7Authorize(p, u) PROVE CountInv'
  <2> DEFINE t == IF Online(u) THEN [Idle EXCEPT !.pc = "del", !.uin = u, !.next = "auth"]
                         ELSE [Idle EXCEPT !.pc = "auth", !.uin = u]
  <2>1. st' = [st EXCEPT ![p] = t] /\ ushm' = ushm /\ online_usr_num' = online_usr_num
    BY <1>6, <1>a DEF V7Authorize, Goto
  <2>2. t.pc \notin Inside /\ st[p].pc \notin Inside
        /\ (p = EU /\ t.pc \in {"pick", "del"} => t.uin \in Uins)
    BY <1>6, <1>a DEF V7Authorize, At, Inside, Idle, Tasks
  <2>3. Occupied' = Occupied
    BY <1>6 DEF V7Authorize, Occupied, Slots, TypeOK
  <2> HIDE DEF t
  <2> QED BY <1>a, <2>1, <2>2, <2>3, CountFrame
<1>7. ASSUME NEW p \in PPs, DbInsert(p) PROVE CountInv'
  <2> DEFINE t == IF st[p].uin \in odb /\ st[p].v7 THEN [st[p] EXCEPT !.pc = "close1"]
                                              ELSE Idle
  <2>1. st' = [st EXCEPT ![p] = t] /\ ushm' = ushm /\ online_usr_num' = online_usr_num
    BY <1>7, <1>a DEF DbInsert, Goto
  <2>2. t.pc \notin Inside /\ st[p].pc \notin Inside
        /\ (p = EU /\ t.pc \in {"pick", "del"} => t.uin \in Uins)
    BY <1>7, <1>a DEF DbInsert, At, Inside, Idle, Tasks
  <2>3. Occupied' = Occupied
    BY <1>7 DEF DbInsert, Occupied, Slots, TypeOK
  <2> HIDE DEF t
  <2> QED BY <1>a, <2>1, <2>2, <2>3, CountFrame
<1>8. ASSUME NEW p \in PPs, CloseConnection(p) PROVE CountInv'
  <2> DEFINE t == LET then == IF At(p, "close1") THEN "close2" ELSE "idle"
                 IN  IF InShm(st[p].usid)
                       THEN [st[p] EXCEPT !.pc = "del", !.next = then]
                       ELSE [st[p] EXCEPT !.pc = then]
  <2>1. st' = [st EXCEPT ![p] = t] /\ ushm' = ushm /\ online_usr_num' = online_usr_num
    BY <1>8, <1>a DEF CloseConnection, Goto
  <2>2. t.pc \notin Inside /\ st[p].pc \notin Inside
        /\ (p = EU /\ t.pc \in {"pick", "del"} => t.uin \in Uins)
    BY <1>8, <1>a DEF CloseConnection, At, Inside, Idle, Tasks
  <2>3. Occupied' = Occupied
    BY <1>8 DEF CloseConnection, Occupied, Slots, TypeOK
  <2> HIDE DEF t
  <2> QED BY <1>a, <2>1, <2>2, <2>3, CountFrame
<1>9. ASSUME NEW p \in Procs, DbDelete(p) PROVE CountInv'
  <2> DEFINE t == IF st[p].next = "idle" THEN Idle
                 ELSE [st[p] EXCEPT !.pc = st[p].next, !.slot = NoSlot, !.next = "idle"]
  <2>5. st[p] \in Tasks /\ st[p].next \in Nexts /\ "del" \notin Nexts /\ "pick" \notin Nexts
        /\ Nexts \cap Inside = {}
    BY <1>a DEF Tasks, Nexts, Inside
  <2>1. st' = [st EXCEPT ![p] = t] /\ ushm' = ushm /\ online_usr_num' = online_usr_num
    BY <1>9, <1>a, <2>5 DEF DbDelete, Goto
  <2>2. t.pc \notin Inside /\ st[p].pc \notin Inside
        /\ (p = EU /\ t.pc \in {"pick", "del"} => t.uin \in Uins)
    BY <1>9, <1>a, <2>5 DEF DbDelete, At, Inside, Idle, Tasks
  <2>3. Occupied' = Occupied
    BY <1>9, <2>5 DEF DbDelete, Occupied, Slots, TypeOK
  <2> HIDE DEF t
  <2> QED BY <1>a, <2>1, <2>2, <2>3, CountFrame
<1>10. CASE EUTick \/ EUCheckOpen \/ UNCHANGED vars
  BY <1>10, CountSame DEF EUTick, EUCheckOpen, vars, Occupied
<1>11. CASE EUVisit
  <2> DEFINE t == IF eui' = eui /\ processed < online_usr_num
                   THEN [Idle EXCEPT !.pc = "store", !.ttlv = usr_shm[eui].ttlv]
                   ELSE st[EU]
  <2>5. eui \in Slots /\ eui + 1 # eui /\ NoSlot # eui
    BY <1>11, SizesAssumption DEF EUVisit, TypeOK, Slots, At
  <2>1. st' = [st EXCEPT ![EU] = t] /\ ushm' = ushm /\ online_usr_num' = online_usr_num
    BY <1>11, <1>a, <2>5 DEF EUVisit, Goto
  <2>2. t.pc \notin Inside /\ st[EU].pc \notin Inside
        /\ (t.pc \in {"pick", "del"} => t.uin \in Uins)
    BY <1>11, <1>a, <2>5 DEF EUVisit, At, Inside, Idle, Tasks
  <2>3. Occupied' = Occupied
    BY <1>11, <2>5 DEF EUVisit, Occupied, Slots, TypeOK
  <2> HIDE DEF t
  <2> QED BY <1>a, <2>1, <2>2, <2>3, CountFrame
<1>12. CASE EUStore
  <2> DEFINE t == IF eui' = eui THEN [Idle EXCEPT !.pc = "pick", !.uin = usr_shm[eui].uin,
                                                   !.usid = usr_shm[eui].usid]
                                 ELSE Idle
  <2>5. eui \in Slots /\ eui + 1 # eui
    BY <1>12, SizesAssumption DEF EUStore, TypeOK, Slots, At
  <2>6. usr_shm[eui].uin \in Uins \cup {NoUin}
    BY <2>5 DEF TypeOK, Records
  <2>1. st' = [st EXCEPT ![EU] = t] /\ ushm' = ushm /\ online_usr_num' = online_usr_num
    BY <1>12, <1>a, <2>5, <2>6 DEF EUStore, Goto
  <2>2. t.pc \notin Inside /\ st[EU].pc \notin Inside
        /\ (t.pc \in {"pick", "del"} => t.uin \in Uins)
    BY <1>12, <1>a, <2>5, <2>6 DEF EUStore, At, Inside, Idle, Tasks
  <2>3. Occupied' = Occupied
    BY <1>12, <2>5, <2>6 DEF EUStore, Occupied, Slots, TypeOK
  <2> HIDE DEF t
  <2> QED BY <1>a, <2>1, <2>2, <2>3, CountFrame
<1>13. CASE EUExpire
  <2>1. st' = [st EXCEPT ![EU].pc = "del", ![EU].uin = st[EU].uin]
    BY <1>13 DEF EUExpire
  <2> DEFINE t == [st[EU] EXCEPT !.pc = "del", !.uin = st[EU].uin]
  <2>2. st' = [st EXCEPT ![EU] = t] /\ t.pc = "del" /\ t.uin = st[EU].uin
    BY <1>a, <2>1 DEF Tasks
  <2>3. st[EU].pc = "pick" /\ st[EU].uin \in Uins
    BY <1>13 DEF EUExpire, At, CountInv, ExpiresUser
  <2>4. /\ t.pc \notin Inside /\ st[EU].pc \notin Inside
        /\ ushm' = ushm /\ online_usr_num' = online_usr_num /\ Occupied' = Occupied
    BY <1>13, <2>2, <2>3 DEF EUExpire, Inside, Occupied
  <2> HIDE DEF t
  <2> QED BY <1>a, <2>2, <2>3, <2>4, CountFrame
<1>14. ASSUME NEW u \in Uins, EUUpdate(u) PROVE CountInv'
  <2>1. \A i \in Slots : usr_shm[i] \in Records
    BY DEF TypeOK
  <2>2. \A i \in Slots : usr_shm'[i].uin = usr_shm[i].uin
    BY <1>14, <2>1 DEF EUUpdate, Records
  <2> QED BY <1>14, <2>2, SameUins, CountSame DEF EUUpdate
<1>15. ASSUME NEW u \in Uins, EUCheckRow(u) PROVE CountInv'
  <2> DEFINE t == IF Online(u) THEN st[EU] ELSE [Idle EXCEPT !.pc = "del_sql", !.uin = u]
  <2>1. st' = [st EXCEPT ![EU] = t] /\ ushm' = ushm /\ online_usr_num' = online_usr_num
    BY <1>15, <1>a DEF EUCheckRow
  <2>2. t.pc \notin Inside \cup {"pick", "del"} /\ st[EU].pc \notin Inside
    BY <1>15, <1>a DEF EUCheckRow, At, Inside, Idle
  <2>3. Occupied' = Occupied
    BY <1>15 DEF EUCheckRow, Occupied
  <2> HIDE DEF t
  <2> QED BY <1>a, <2>1, <2>2, <2>3, CountFrame
<1> QED
  BY <1>1, <1>2, <1>3, <1>4, <1>5, <1>6, <1>7, <1>8, <1>9, <1>10, <1>11, <1>12, <1>13, <1>14, <1>15,
     AddCountKeeps, AddWriteKeeps, DeleteCountKeeps, DeleteZeroKeeps
  DEF Next, PPStep, EUStep, OfflineStep, Crash

LEMMA CountInit == Init => CountInv
<1> SUFFICES ASSUME Init PROVE CountInv
  OBVIOUS
<1>1. \A p \in Procs : st[p].pc = "idle"
  BY DEF Init, Idle
<1>2. Occupied = {} /\ Ahead = 0 /\ EU \in Procs /\ ushm = NoProc
  BY DEF Init, Occupied, Hole, Ahead, Procs
<1>3. CounterCounts
  BY <1>2, FS_EmptySet, SizesAssumption DEF CounterCounts, Init
<1> QED BY <1>1, <1>2, <1>3 DEF CountInv, OneInside, HolderInside, ZeroesRecord,
     ExpiresUser, Inside

\* As long as no process dies inside and EUser loads the uin once, online_usr_num is
\* the number of records whenever the semaphore is free (shm_add, shm_delete).
THEOREM CounterIsExact ==
  ASSUME ~Crashes, ~Reload PROVE Spec => []CountMatches
<1>1. CountInv => CountMatches
  BY OccupiedFinite DEF CountInv, CounterCounts, CountMatches, Ahead
<1> QED BY CountInit, <1>1, CountStep, TypeCorrect, PTL DEF Spec

\* Then the capacity test of shm_add is right: "internal err ?" is never logged.
THEOREM TestedAddFindsRoom ==
  ASSUME ~Crashes, ~Reload PROVE Spec => []RoomForRecord
BY CountInit, CountGivesRoom, CountStep, TypeCorrect, PTL DEF Spec

----------------------------------------------------------------------------
(* Two records of a user have a cause.                                     *)

\* A login whose test still holds: it has found its user offline, or is about to make
\* him so by deleting the only record he has.
Pending(t) == \/ t.pc \in {"auth", "cookie", "add", "add_write"}
              \/ t.pc = "del_sql" /\ t.next = "auth"
SlotsIn(shm, u) == {i \in Slots : shm[i].uin = u}
HoldsIn(shm, t) ==
  /\ Pending(t) => SlotsIn(shm, t.uin) = {}
  /\ t.pc = "del" /\ t.next = "auth" => \A i, j \in SlotsIn(shm, t.uin) : i = j
  /\ t.pc = "del_zero" /\ t.next = "auth" => SlotsIn(shm, t.uin) \subseteq {t.slot}

TestsHold   == \A p \in PPs \ late : HoldsIn(usr_shm, st[p])
CookiesHold == \A u \in login_cookies \ stale : SlotsIn(usr_shm, u) = {}

\* Strengthens DoublesAreKnown: what has been tested holds, or is known not to.
DoubleInv == TestsHold /\ CookiesHold /\ DoublesAreKnown

\* No step but the addition of a record brings a user online.
SlotsStay == \A u \in Uins : SlotsIn(usr_shm', u) \subseteq SlotsIn(usr_shm, u)
UsidsStay == \A i \in Slots : usr_shm'[i].uin # NoUin => usr_shm'[i].usid = usr_shm[i].usid

\* A record changes at most its counter, or is zeroed.
RecordsStay == \A i \in Slots : \/ usr_shm'[i].uin = NoUin
                                \/ /\ usr_shm'[i].uin = usr_shm[i].uin
                                   /\ usr_shm'[i].usid = usr_shm[i].usid

LEMMA RecordsStayStay == RecordsStay => SlotsStay /\ UsidsStay
BY NamesAssumption DEF RecordsStay, SlotsStay, UsidsStay, SlotsIn

LEMMA DoublesStay ==
  ASSUME DoublesAreKnown, SlotsStay, UsidsStay, excused \subseteq excused'
  PROVE  DoublesAreKnown'
<1> SUFFICES ASSUME NEW u \in Uins, NEW i \in SlotsIn(usr_shm', u), NEW j \in SlotsIn(usr_shm', u), i # j
             PROVE  {usr_shm'[i].usid, usr_shm'[j].usid} \cap excused' # {}
  BY DEF DoublesAreKnown, SlotsOf, SlotsIn
<1>1. i \in SlotsIn(usr_shm, u) /\ j \in SlotsIn(usr_shm, u)
  BY DEF SlotsStay
<1>2. usr_shm'[i].usid = usr_shm[i].usid /\ usr_shm'[j].usid = usr_shm[j].usid
  BY NamesAssumption DEF UsidsStay, SlotsIn
<1> QED BY <1>1, <1>2 DEF DoublesAreKnown, SlotsOf, SlotsIn

\* A test that holds goes on to, when nobody comes online.
LEMMA HoldsStays ==
  ASSUME SlotsStay, NEW t, HoldsIn(usr_shm, t),
         Pending(t) \/ (t.pc \in {"del", "del_zero"} /\ t.next = "auth") => t.uin \in Uins
  PROVE  HoldsIn(usr_shm', t)
<1>1. ASSUME Pending(t) PROVE SlotsIn(usr_shm', t.uin) = {}
  BY <1>1 DEF HoldsIn, SlotsStay
<1>2. ASSUME t.pc = "del", t.next = "auth" PROVE \A i, j \in SlotsIn(usr_shm', t.uin) : i = j
  <2>1. t.uin \in Uins /\ \A i, j \in SlotsIn(usr_shm, t.uin) : i = j
    BY <1>2 DEF HoldsIn
  <2> QED BY <2>1 DEF SlotsStay
<1>3. ASSUME t.pc = "del_zero", t.next = "auth" PROVE SlotsIn(usr_shm', t.uin) \subseteq {t.slot}
  <2>1. t.uin \in Uins /\ SlotsIn(usr_shm, t.uin) \subseteq {t.slot}
    BY <1>3 DEF HoldsIn
  <2> QED BY <2>1 DEF SlotsStay
<1> QED BY <1>1, <1>2, <1>3 DEF HoldsIn, Pending

\* The step of process p to the task t, if no record is added.
LEMMA DoubleFrame ==
  ASSUME TypeOK, DoubleInv, RecordsStay, NEW p \in Procs, NEW t,
         st' = [st EXCEPT ![p] = t], late' \subseteq PPs, late' \cup {p} = late \cup {p},
         p \in PPs \ late' => HoldsIn(usr_shm', t),
         UNCHANGED <<login_cookies, stale, excused>>
  PROVE  DoubleInv'
<1>1. SlotsStay /\ UsidsStay
  BY RecordsStayStay
<1>2. st \in [Procs -> Tasks] /\ \A q \in PPs : st[q].pc = "idle" \/ st[q].uin \in Uins
  BY DEF TypeOK, At
<1>3. ASSUME NEW q \in PPs, q \notin late' PROVE HoldsIn(usr_shm', st'[q])
  <2>1. CASE q = p
    <3>1. st'[q] = t
      BY <1>2, <2>1
    <3> QED BY <1>3, <2>1, <3>1
  <2>2. CASE q # p
    <3>1. st'[q] = st[q] /\ q \notin late
      BY <1>2, <1>3, <2>2 DEF Procs
    <3>2. HoldsIn(usr_shm, st[q])
      BY <3>1 DEF DoubleInv, TestsHold
    <3>3. Pending(st[q]) \/ (st[q].pc \in {"del", "del_zero"} /\ st[q].next = "auth")
          => st[q].uin \in Uins
      BY <1>2 DEF Pending
    <3>4. HoldsIn(usr_shm', st[q])
      BY <1>1, <3>2, <3>3, HoldsStays
    <3> QED BY <3>1, <3>4
  <2> QED BY <2>1, <2>2
<1>4. TestsHold'
  BY <1>3 DEF TestsHold
<1>5. CookiesHold'
  BY <1>1 DEF DoubleInv, CookiesHold, SlotsStay, TypeOK
<1>6. DoublesAreKnown'
  BY <1>1, DoublesStay DEF DoubleInv
<1> QED BY <1>4, <1>5, <1>6 DEF DoubleInv

\* A task that is no login.
LEMMA NoLoginHolds ==
  ASSUME NEW t, ~Pending(t), t.next # "auth"
  PROVE  HoldsIn(usr_shm', t)
BY DEF HoldsIn, Pending

LEMMA DoubleSame ==
  ASSUME TypeOK, DoubleInv, RecordsStay, UNCHANGED <<st, login_cookies, past>>
  PROVE  DoubleInv'
<1>1. PICK p \in Procs : p = EU
  BY DEF Procs
<1>2. st' = [st EXCEPT ![p] = st[p]] /\ late' \subseteq PPs /\ late' \cup {p} = late \cup {p}
  BY DEF TypeOK, past
<1>3. p \notin PPs
  BY <1>1, NamesAssumption
<1> QED BY <1>2, <1>3, DoubleFrame DEF past

LEMMA DoubleStep == TypeOK /\ DoubleInv /\ [Next]_vars => DoubleInv'
<1> SUFFICES ASSUME TypeOK, DoubleInv, [Next]_vars PROVE DoubleInv'
  OBVIOUS
<1>a. /\ \A p \in PPs : p \in Procs /\ p # EU
      /\ EU \in Procs /\ EU \notin PPs /\ st \in [Procs -> Tasks]
      /\ late \subseteq PPs
      /\ \A p \in PPs : st[p].pc = "idle" \/ st[p].uin \in Uins
      /\ \A p \in Procs : st[p] \in Tasks
  BY NamesAssumption DEF Procs, TypeOK, At
<1>b. usr_shm' = usr_shm => RecordsStay
  BY DEF RecordsStay
<1>c. \A p \in PPs \ late : HoldsIn(usr_shm, st[p])
  BY DEF DoubleInv, TestsHold
<1>e. /\ Idle.pc = "idle" /\ Idle.next = "idle"
      /\ ~Pending(Idle)
  BY DEF Idle, Pending
\* Steps that leave the history alone.
<1>1. ASSUME NEW p \in Procs, NEW t, st' = [st EXCEPT ![p] = t], RecordsStay,
             p \in PPs \ late => HoldsIn(usr_shm', t), UNCHANGED <<login_cookies, past>>
      PROVE  DoubleInv'
  BY <1>1, <1>a, DoubleFrame DEF past
<1>2. ASSUME NEW p \in Procs, NEW t, st' = [st EXCEPT ![p] = t], RecordsStay,
             ~Pending(t), t.next # "auth", UNCHANGED <<login_cookies, past>>
      PROVE  DoubleInv'
  BY <1>1, <1>2, NoLoginHolds
<1>3. ASSUME NEW p \in PPs, NEW u \in Uins, UdpLogin(p, u) PROVE DoubleInv'
  <2> DEFINE t == [Idle EXCEPT !.pc = "add", !.uin = u, !.usid = nsess + 1]
  <2>1. st' = [st EXCEPT ![p] = t] /\ UNCHANGED <<usr_shm, login_cookies, stale, excused>>
        /\ SlotsIn(usr_shm, u) = {} /\ late' = late \ {p}
    BY <1>3 DEF UdpLogin, Online, SlotsOf, SlotsIn
  <2>2. t.pc = "add" /\ t.uin = u
    BY DEF Idle
  <2> HIDE DEF t
  <2>3. HoldsIn(usr_shm', t)
    BY <2>1, <2>2 DEF HoldsIn, SlotsIn
  <2> QED BY <1>a, <1>b, <2>1, <2>3, DoubleFrame
<1>4. ASSUME NEW p \in PPs, NEW u \in Uins, V7Authorize(p, u) PROVE DoubleInv'
  <2> DEFINE t == IF Online(u) THEN [Idle EXCEPT !.pc = "del", !.uin = u, !.next = "auth"]
                               ELSE [Idle EXCEPT !.pc = "auth", !.uin = u]
  <2>1. st' = [st EXCEPT ![p] = t] /\ UNCHANGED <<usr_shm, login_cookies, stale, excused>>
        /\ late' = IF \E i, j \in SlotsIn(usr_shm, u) : i # j THEN late \cup {p} ELSE late \ {p}
    BY <1>4 DEF V7Authorize, SlotsOf, SlotsIn
  <2>2. t.uin = u /\ IF Online(u) THEN t.pc = "del" ELSE t.pc = "auth"
    BY DEF Idle
  <2> HIDE DEF t
  <2>3. ASSUME p \notin late' PROVE HoldsIn(usr_shm', t)
    <3>1. \A i, j \in SlotsIn(usr_shm, u) : i = j
      BY <2>1, <2>3
    <3>2. SlotsIn(usr_shm', u) = SlotsIn(usr_shm, u) /\ (t.pc # "del" => SlotsIn(usr_shm, u) = {})
      BY <2>1, <2>2 DEF Online, SlotsOf, SlotsIn
    <3> QED BY <2>2, <3>1, <3>2 DEF HoldsIn, Pending
  <2> QED BY <1>a, <1>b, <2>1, <2>3, DoubleFrame
<1>5. ASSUME NEW p \in PPs, NEW u \in Uins, CookieCheck(p, u) PROVE DoubleInv'
  <2> DEFINE t == [Idle EXCEPT !.pc = "cookie", !.uin = u, !.v7 = TRUE, !.usid = nsess + 1]
  <2>1. st' = [st EXCEPT ![p] = t] /\ UNCHANGED <<usr_shm, login_cookies, stale, excused>>
        /\ u \in login_cookies /\ late' = IF u \in stale THEN late \cup {p} ELSE late \ {p}
    BY <1>5 DEF CookieCheck
  <2>2. t.uin = u /\ t.pc = "cookie"
    BY DEF Idle
  <2> HIDE DEF t
  <2>3. ASSUME p \notin late' PROVE HoldsIn(usr_shm', t)
    <3>1. SlotsIn(usr_shm, u) = {} /\ SlotsIn(usr_shm', u) = SlotsIn(usr_shm, u)
      BY <2>1, <2>3 DEF DoubleInv, CookiesHold
    <3> QED BY <2>2, <3>1 DEF HoldsIn, Pending
  <2> QED BY <1>a, <1>b, <2>1, <2>3, DoubleFrame
<1>6. ASSUME NEW p \in PPs, CookieInsert(p) PROVE DoubleInv'
  <2>1. /\ st[p].pc = "auth" /\ st' = [st EXCEPT ![p] = Idle]
        /\ login_cookies' = login_cookies \cup {st[p].uin}
        /\ stale' = IF p \in late THEN stale \cup {st[p].uin} ELSE stale \ {st[p].uin}
        /\ UNCHANGED <<usr_shm, late, excused>>
    BY <1>6 DEF CookieInsert, At
  <2>2. TestsHold'
    <3>1. ASSUME NEW q \in PPs, q \notin late, q # p PROVE HoldsIn(usr_shm', st'[q])
      <4>1. st'[q] = st[q] /\ HoldsIn(usr_shm, st[q])
        BY <1>a, <1>c, <2>1, <3>1
      <4> QED BY <2>1, <4>1 DEF HoldsIn, Pending
    <3>2. HoldsIn(usr_shm', st'[p])
      <4>1. st'[p] = Idle
        BY <1>a, <2>1
      <4> QED BY <1>e, <4>1 DEF HoldsIn, Pending
    <3> QED BY <2>1, <3>1, <3>2 DEF TestsHold
  <2>3. CookiesHold'
    <3>1. p \notin late => SlotsIn(usr_shm, st[p].uin) = {}
      BY <1>c, <2>1 DEF HoldsIn, Pending
    <3>2. \A u \in login_cookies \ stale : SlotsIn(usr_shm, u) = {}
      BY DEF DoubleInv, CookiesHold
    <3>3. ASSUME NEW u \in login_cookies', u \notin stale' PROVE SlotsIn(usr_shm, u) = {}
      BY <2>1, <3>1, <3>2, <3>3
    <3> QED BY <2>1, <3>3 DEF CookiesHold
  <2>4. DoublesAreKnown'
    BY <2>1 DEF DoubleInv, DoublesAreKnown, SlotsOf
  <2> QED BY <2>2, <2>3, <2>4 DEF DoubleInv
<1>7. ASSUME NEW p \in PPs, CookieDelete(p) PROVE DoubleInv'
  <2> DEFINE t == [st[p] EXCEPT !.pc = "add"]
  <2>1. /\ st[p].pc = "cookie" /\ st' = [st EXCEPT ![p] = t]
        /\ login_cookies' \subseteq login_cookies /\ UNCHANGED <<usr_shm, past>>
    BY <1>7 DEF CookieDelete, At, Goto
  <2>2. t.uin = st[p].uin /\ t.pc = "add"
    BY <1>a DEF Tasks
  <2> HIDE DEF t
  <2>3. TestsHold'
    <3>1. ASSUME NEW q \in PPs, q \notin late, q # p PROVE HoldsIn(usr_shm', st'[q])
      <4>1. st'[q] = st[q] /\ HoldsIn(usr_shm, st[q])
        BY <1>a, <1>c, <2>1, <3>1
      <4> QED BY <2>1, <4>1 DEF HoldsIn, Pending
    <3>2. ASSUME p \notin late PROVE HoldsIn(usr_shm', st'[p])
      <4>1. st'[p] = t /\ SlotsIn(usr_shm, st[p].uin) = {}
        BY <1>a, <1>c, <2>1, <3>2 DEF HoldsIn, Pending
      <4> QED BY <2>1, <2>2, <4>1 DEF HoldsIn, Pending
    <3> QED BY <2>1, <3>1, <3>2 DEF TestsHold, past
  <2>4. CookiesHold'
    BY <2>1 DEF DoubleInv, CookiesHold, past
  <2>5. DoublesAreKnown'
    BY <2>1 DEF DoubleInv, DoublesAreKnown, SlotsOf, past
  <2> QED BY <2>3, <2>4, <2>5 DEF DoubleInv
<1>8. ASSUME NEW p \in PPs, NEW u \in Uins, Logoff(p, u) PROVE DoubleInv'
  <2> DEFINE t == [Idle EXCEPT !.pc = "del", !.uin = u]
  <2>1. st' = [st EXCEPT ![p] = t] /\ UNCHANGED <<usr_shm, login_cookies, past>>
    BY <1>8 DEF Logoff
  <2>2. ~Pending(t) /\ t.next # "auth"
    BY DEF Pending, Idle
  <2> HIDE DEF t
  <2> QED BY <1>2, <1>a, <1>b, <2>1, <2>2
<1>9. ASSUME NEW p \in PPs, ShmAddCount(p) PROVE DoubleInv'
  <2>1. UNCHANGED <<usr_shm, login_cookies, past>> /\ st[p].pc = "add"
    BY <1>9 DEF ShmAddCount, At
  <2>2. CASE st' = [st EXCEPT ![p].pc = "add_write"]
    <3> DEFINE t == [st[p] EXCEPT !.pc = "add_write"]
    <3>1. st' = [st EXCEPT ![p] = t] /\ t.pc = "add_write" /\ t.uin = st[p].uin
      BY <1>a, <2>2 DEF Tasks
    <3> HIDE DEF t
    <3>2. ASSUME p \notin late PROVE HoldsIn(usr_shm', t)
      <4>1. SlotsIn(usr_shm, st[p].uin) = {}
        BY <1>c, <2>1, <3>2 DEF HoldsIn, Pending
      <4> QED BY <2>1, <3>1, <4>1 DEF HoldsIn, Pending
    <3> QED BY <1>1, <1>a, <1>b, <2>1, <3>1, <3>2
  <2>3. CASE st' = [st EXCEPT ![p] = Idle]
    BY <1>2, <1>a, <1>b, <1>e, <2>1, <2>3
  <2> QED BY <1>9, <2>2, <2>3 DEF ShmAddCount, Goto
<1>10. ASSUME NEW p \in PPs, ShmAddWrite(p) PROVE DoubleInv'
  <2>1. st[p].pc = "add_write" /\ login_cookies' = login_cookies /\ st[p].uin \in Uins
    BY <1>10, <1>a DEF ShmAddWrite, At
  <2>2. CASE Online(NoUin)
    <3> DEFINE i == FirstOf(SlotsOf(NoUin))
               t == [st[p] EXCEPT !.pc = "insert"]
               u == st[p].uin
    <3>1. i \in Slots /\ usr_shm[i].uin = NoUin
      BY <2>2, SlotOfUin
    <3>2. /\ usr_shm' = [usr_shm EXCEPT ![i] =
                 [uin |-> u, usid |-> st[p].usid, v7 |-> st[p].v7,
                  ttlv |-> IF st[p].v7 THEN 0 ELSE TTL]]
          /\ st' = [st EXCEPT ![p] = t]
          /\ late' = (late \cup {q \in PPs : st[q].uin = u}) \ {p}
          /\ stale' = stale \cup ({u} \cap login_cookies)
          /\ excused' = IF p \in late /\ Online(u) THEN excused \cup {st[p].usid} ELSE excused
      BY <1>10, <2>2 DEF ShmAddWrite, Goto
    <3>3. t.pc = "insert"
      BY <1>a DEF Tasks
    <3>4. u \in Uins /\ u # NoUin
      BY <2>1, NamesAssumption
    <3> HIDE DEF i, t
    <3>5. /\ usr_shm'[i].uin = u /\ usr_shm'[i].usid = st[p].usid
          /\ \A j \in Slots : j # i => usr_shm'[j] = usr_shm[j]
      BY <3>1, <3>2 DEF TypeOK
    <3>6. \A v \in Uins : v # u => SlotsIn(usr_shm', v) = SlotsIn(usr_shm, v)
      BY <3>1, <3>5, NamesAssumption DEF SlotsIn
    <3>7. SlotsIn(usr_shm', u) = SlotsIn(usr_shm, u) \cup {i} /\ i \notin SlotsIn(usr_shm, u)
      BY <3>1, <3>4, <3>5 DEF SlotsIn
    <3>8. TestsHold'
      <4>1. ASSUME NEW q \in PPs, q \notin late', q # p PROVE HoldsIn(usr_shm', st'[q])
        <5>1. st'[q] = st[q] /\ q \notin late /\ st[q].uin # u
          BY <1>a, <3>2, <4>1
        <5>2. st[q].pc = "idle" \/ SlotsIn(usr_shm', st[q].uin) = SlotsIn(usr_shm, st[q].uin)
          BY <1>a, <3>6, <5>1
        <5> QED BY <1>c, <5>1, <5>2 DEF HoldsIn, Pending
      <4>2. HoldsIn(usr_shm', st'[p])
        <5>1. st'[p] = t
          BY <1>a, <3>2
        <5> QED BY <3>3, <5>1 DEF HoldsIn, Pending
      <4> QED BY <4>1, <4>2 DEF TestsHold
    <3>9. CookiesHold'
      BY <2>1, <3>2, <3>6 DEF DoubleInv, CookiesHold, TypeOK
    <3>10. Online(u) => st[p].usid \in excused'
      <4>1. Online(u) => p \in late
        BY <1>c, <2>1 DEF HoldsIn, Pending, Online, SlotsOf, SlotsIn
      <4> QED BY <3>2, <4>1
    <3>11. DoublesAreKnown'
      <4> SUFFICES ASSUME NEW v \in Uins, NEW j \in SlotsIn(usr_shm', v), NEW k \in SlotsIn(usr_shm', v), j # k
                   PROVE  {usr_shm'[j].usid, usr_shm'[k].usid} \cap excused' # {}
        BY DEF DoublesAreKnown, SlotsOf, SlotsIn
      <4>1. excused \subseteq excused'
        BY <3>2
      <4>2. CASE i \notin {j, k}
        <5>1. j \in SlotsIn(usr_shm, v) /\ k \in SlotsIn(usr_shm, v)
          BY <3>6, <3>7, <4>2
        <5>2. {usr_shm[j].usid, usr_shm[k].usid} \cap excused # {}
          BY <5>1 DEF DoubleInv, DoublesAreKnown, SlotsOf, SlotsIn
        <5>3. usr_shm'[j] = usr_shm[j] /\ usr_shm'[k] = usr_shm[k]
          BY <3>5, <4>2, <5>1 DEF SlotsIn
        <5> QED BY <4>1, <5>2, <5>3
      <4>3. CASE i \in {j, k}
        <5>1. v = u
          BY <3>5, <4>3 DEF SlotsIn
        <5>2. Online(u)
          BY <3>7, <4>3, <5>1 DEF Online, SlotsOf, SlotsIn
        <5> QED BY <3>5, <3>10, <4>3, <5>2
      <4> QED BY <4>2, <4>3
    <3> QED BY <3>8, <3>9, <3>11 DEF DoubleInv
  <2>3. CASE ~Online(NoUin)
    <3>1. st' = [st EXCEPT ![p] = Idle] /\ UNCHANGED <<usr_shm, past>>
      BY <1>10, <2>3 DEF ShmAddWrite
    <3> QED BY <1>2, <1>a, <1>b, <1>e, <2>1, <3>1
  <2> QED BY <2>2, <2>3
<1>11. ASSUME NEW p \in PPs, DbInsert(p) PROVE DoubleInv'
  <2> DEFINE t == IF st[p].uin \in odb /\ st[p].v7 THEN [st[p] EXCEPT !.pc = "close1"] ELSE Idle
  <2>1. st' = [st EXCEPT ![p] = t] /\ UNCHANGED <<login_cookies, usr_shm, past>>
    BY <1>11 DEF DbInsert
  <2>2. t.pc \in {"close1", "idle"}
    BY <1>a, <1>e DEF Tasks
  <2> HIDE DEF t
  <2>3. HoldsIn(usr_shm', t)
    BY <2>2 DEF HoldsIn, Pending
  <2> QED BY <1>1, <1>a, <1>b, <2>1, <2>3
<1>12. ASSUME NEW p \in PPs, CloseConnection(p) PROVE DoubleInv'
  <2> DEFINE n == IF At(p, "close1") THEN "close2" ELSE "idle"
             t == IF InShm(st[p].usid) THEN [st[p] EXCEPT !.pc = "del", !.next = n]
                                       ELSE [st[p] EXCEPT !.pc = n]
  <2>1. st' = [st EXCEPT ![p] = t] /\ UNCHANGED <<login_cookies, usr_shm, past>>
    BY <1>12 DEF CloseConnection
  <2>2. n \in {"close2", "idle"}
    OBVIOUS
  <2>3. t.pc \in {"close2", "idle"} \/ (t.pc = "del" /\ t.next # "auth")
    <3> HIDE DEF n
    <3> QED BY <1>a, <2>2 DEF Tasks
  <2> HIDE DEF t
  <2>4. HoldsIn(usr_shm', t)
    BY <2>3 DEF HoldsIn, Pending
  <2> QED BY <1>1, <1>a, <1>b, <2>1, <2>4
<1>13. ASSUME NEW p \in Procs, ShmDeleteCount(p) PROVE DoubleInv'
  <2>1. UNCHANGED <<login_cookies, usr_shm, past>> /\ st[p].pc = "del"
    BY <1>13 DEF ShmDeleteCount, At
  <2> DEFINE S == SlotsIn(usr_shm, st[p].uin)
  <2>2. CASE Online(st[p].uin)
    <3>1. PICK i : i = FirstOf(S)
      OBVIOUS
    <3> DEFINE t == [st[p] EXCEPT !.pc = "del_zero", !.slot = i]
    <3>2. st' = [st EXCEPT ![p].pc = "del_zero", ![p].slot = i]
      BY <1>13, <2>2, <3>1 DEF ShmDeleteCount, SlotsOf, SlotsIn
    <3>3. st' = [st EXCEPT ![p] = t] /\ t.pc = "del_zero" /\ t.next = st[p].next
          /\ t.uin = st[p].uin /\ t.slot = i
      BY <1>a, <3>2 DEF Tasks
    <3>4. i \in S
      BY <2>2, <3>1, SlotOfUin DEF SlotsOf, SlotsIn
    <3> HIDE DEF t
    <3>5. ASSUME p \in PPs \ late PROVE HoldsIn(usr_shm', t)
      <4>1. st[p].next = "auth" => S \subseteq {i}
        BY <1>c, <2>1, <3>4, <3>5 DEF HoldsIn
      <4> QED BY <2>1, <3>3, <4>1 DEF HoldsIn, Pending
    <3> QED BY <1>1, <1>b, <2>1, <3>3, <3>5
  <2>3. CASE ~Online(st[p].uin)
    <3> DEFINE t == [st[p] EXCEPT !.pc = "del_sql"]
    <3>1. st' = [st EXCEPT ![p] = t] /\ t.pc = "del_sql" /\ t.uin = st[p].uin
      BY <1>13, <1>a, <2>3 DEF ShmDeleteCount, Goto, Tasks
    <3> HIDE DEF t
    <3>2. HoldsIn(usr_shm', t)
      BY <2>1, <2>3, <3>1 DEF HoldsIn, Pending, Online, SlotsOf, SlotsIn
    <3> QED BY <1>1, <1>b, <2>1, <3>1, <3>2
  <2> QED BY <2>2, <2>3
<1>14. ASSUME NEW p \in Procs, ShmDeleteZero(p) PROVE DoubleInv'
  <2> DEFINE t == [st[p] EXCEPT !.pc = "del_sql"]
             i == st[p].slot
  <2>1. /\ st[p].pc = "del_zero" /\ st' = [st EXCEPT ![p] = t]
        /\ usr_shm' = [usr_shm EXCEPT ![i] = Hole] /\ UNCHANGED <<login_cookies, past>>
    BY <1>14 DEF ShmDeleteZero, Goto, At
  <2>2. t.pc = "del_sql" /\ t.next = st[p].next /\ t.uin = st[p].uin
    BY <1>a DEF Tasks
  <2>3. \A j \in Slots : usr_shm'[j] = IF j = i THEN Hole ELSE usr_shm[j]
    BY <2>1 DEF TypeOK
  <2>4. RecordsStay
    BY <2>3 DEF RecordsStay, Hole
  <2> HIDE DEF t, i
  <2>5. ASSUME p \in PPs \ late PROVE HoldsIn(usr_shm', t)
    <3>1. st[p].next = "auth" => SlotsIn(usr_shm, st[p].uin) \subseteq {i}
      BY <1>c, <2>1, <2>5 DEF HoldsIn, i
    <3>2. st[p].uin \in Uins /\ st[p].uin # NoUin
      BY <1>a, <2>1, <2>5, NamesAssumption
    <3>3. st[p].next = "auth" => SlotsIn(usr_shm', st[p].uin) = {}
      BY <2>3, <3>1, <3>2 DEF SlotsIn, Hole
    <3> QED BY <2>2, <3>3 DEF HoldsIn, Pending
  <2> QED BY <1>1, <2>1, <2>4, <2>5
<1>15. ASSUME NEW p \in Procs, DbDelete(p) PROVE DoubleInv'
  <2> DEFINE t == IF st[p].next = "idle" THEN Idle
                  ELSE [st[p] EXCEPT !.pc = st[p].next, !.slot = NoSlot, !.next = "idle"]
  <2>1. st' = [st EXCEPT ![p] = t] /\ UNCHANGED <<login_cookies, usr_shm, past>>
        /\ st[p].pc = "del_sql"
    BY <1>15 DEF DbDelete, At
  <2>2. st[p].next \in {"idle", "close2", "auth"}
    BY <1>a DEF Tasks, Nexts
  <2>3. t.pc \in {"idle", "close2"} \/ (t.pc = "auth" /\ t.uin = st[p].uin /\ st[p].next = "auth")
    BY <1>a, <1>e, <2>2 DEF Tasks
  <2> HIDE DEF t
  <2>4. ASSUME p \in PPs \ late PROVE HoldsIn(usr_shm', t)
    <3>1. st[p].next = "auth" => SlotsIn(usr_shm, st[p].uin) = {}
      BY <1>c, <2>1, <2>4 DEF HoldsIn, Pending
    <3> QED BY <2>1, <2>3, <3>1 DEF HoldsIn, Pending
  <2> QED BY <1>1, <1>b, <2>1, <2>4
<1>16. CASE EUVisit
  <2> DEFINE t == [Idle EXCEPT !.pc = "store", !.ttlv = usr_shm[eui].ttlv]
  <2>1. UNCHANGED <<usr_shm, login_cookies, past>> /\ (st' = st \/ st' = [st EXCEPT ![EU] = t])
    BY <1>16 DEF EUVisit
  <2> HIDE DEF t
  <2> QED BY <1>1, <1>a, <1>b, <2>1, DoubleSame
<1>17. CASE EUStore
  <2> DEFINE t == [Idle EXCEPT !.pc = "pick", !.uin = usr_shm[eui].uin, !.usid = usr_shm[eui].usid]
  <2>1. UNCHANGED <<login_cookies, past>>
        /\ (st' = [st EXCEPT ![EU] = Idle] \/ st' = [st EXCEPT ![EU] = t])
    BY <1>17 DEF EUStore
  <2>3. RecordsStay
    BY <1>17 DEF EUStore, RecordsStay, TypeOK, Records
  <2> HIDE DEF t
  <2> QED BY <1>1, <1>a, <2>1, <2>3
<1>18. CASE EUExpire
  <2>1. PICK u : st' = [st EXCEPT ![EU].pc = "del", ![EU].uin = u]
    BY <1>18 DEF EUExpire
  <2> DEFINE t == [st[EU] EXCEPT !.pc = "del", !.uin = u]
  <2>2. st' = [st EXCEPT ![EU] = t]
    BY <1>a, <2>1 DEF Tasks
  <2>3. UNCHANGED <<usr_shm, login_cookies, past>>
    BY <1>18 DEF EUExpire
  <2> HIDE DEF t
  <2> QED BY <1>1, <1>a, <1>b, <2>2, <2>3
<1>19. ASSUME NEW u \in Uins, EUCheckRow(u) PROVE DoubleInv'
  <2> DEFINE t == [Idle EXCEPT !.pc = "del_sql", !.uin = u]
  <2>1. UNCHANGED <<usr_shm, login_cookies, past>> /\ (st' = st \/ st' = [st EXCEPT ![EU] = t])
    BY <1>19 DEF EUCheckRow
  <2> HIDE DEF t
  <2> QED BY <1>1, <1>a, <1>b, <2>1, DoubleSame
<1>20. CASE EUTick \/ EUCheckOpen \/ UNCHANGED vars
  BY <1>b, <1>20, DoubleSame DEF EUTick, EUCheckOpen, vars, past
<1>21. ASSUME NEW u \in Uins, EUUpdate(u) PROVE DoubleInv'
  <2>1. \A i \in Slots : usr_shm[i] \in Records
    BY DEF TypeOK
  <2>2. RecordsStay
    BY <1>21, <2>1 DEF EUUpdate, Records, RecordsStay
  <2> QED BY <1>21, <2>2, DoubleSame DEF EUUpdate
<1>22. ASSUME NEW p \in Procs, Crash(p) PROVE DoubleInv'
  BY <1>2, <1>b, <1>e, <1>22 DEF Crash
<1> QED
  BY <1>3, <1>4, <1>5, <1>6, <1>7, <1>8, <1>9, <1>10, <1>11, <1>12, <1>13, <1>14, <1>15, <1>16,
     <1>17, <1>18, <1>19, <1>20, <1>21, <1>22
  DEF Next, PPStep, EUStep, OfflineStep

LEMMA DoubleInit == Init => DoubleInv
<1> SUFFICES ASSUME Init PROVE DoubleInv
  OBVIOUS
<1>1. \A p \in PPs : st[p].pc = "idle"
  BY DEF Init, Idle, Procs
<1>2. TestsHold
  BY <1>1 DEF TestsHold, HoldsIn, Pending
<1>3. CookiesHold
  BY DEF Init, CookiesHold
<1>4. DoublesAreKnown
  BY NamesAssumption DEF Init, DoublesAreKnown, SlotsOf, Hole
<1> QED BY <1>2, <1>3, <1>4 DEF DoubleInv

\* For any number of packet processors, users and slots, in every build and whoever is
\* killed: a user has two records only if the login of one of them was decided before
\* the user came online by another.  What the test without the lock
\* (proto_handler.cpp:1222) and the cookie allow is all that goes wrong: the rest of the
\* way into the array, and every way out of it, adds nothing to it.
THEOREM TwoRecordsHaveACause == Spec => []DoublesAreKnown
<1>1. DoubleInv => DoublesAreKnown
  BY DEF DoubleInv
<1> QED BY <1>1, DoubleInit, DoubleStep, TypeCorrect, PTL DEF Spec

=============================================================================
