-------------------------- MODULE MessagingProofs --------------------------
(***************************************************************************)
(* What the message handlers keep for any number of users, sessions, packet *)
(* processors, messages and failures: a message is shown to its recipient   *)
(* alone, a V7 sender is told the truth, no message is lost but for known    *)
(* causes, and the whole implements Mailbox.                                 *)
(*                                                                         *)
(* The invariant follows a message from hand to hand.  WorkInv says who      *)
(* holds it: one handler, until it is shown or stored.  MailInv says what is *)
(* in the boxes.  CursorInv, ToldInv and DeleteInv go with a reading: the    *)
(* rows a cursor still has to fetch, the end the client was told of, and the *)
(* delete it answers with know of the same unseen rows, which are either     *)
(* younger than what was read or behind an error that cut the reading short. *)
(* CastInv says whom a broadcast has left: those who moved, whose rows were  *)
(* behind when it looked, or who were not active.                            *)
(*                                                                         *)
(* A step is first brought into one of a few forms (Steps): what a handler   *)
(* takes, refuses, writes through a pointer, and so on.                      *)
(***************************************************************************)
EXTENDS Messaging, TLAPS, SequenceTheorems, FiniteSetTheorems

----------------------------------------------------------------------------
(* The inductive invariant *)

Delivering == {"send", "store", "x1", "x4e", "x2", "notice"}
ByPointer  == {"x1", "x4e", "x2", "notice"}
Casting    == {"bselect", "bsend", "binsert"}
Deleting   == {"del", "v7del"}
Pcs        == {"idle", "fetch"} \cup Delivering \cup Casting \cup Deleting

Elements(q) == {q[i] : i \in DOMAIN q}
RowType  == [m : Ids, u : Uins, date : 0 .. MaxTime]
MailType == [to : Uins \cup {0, 1}, from : Uins, way : {"udp", "v7", "broadcast"},
             told : {"nothing", "ack", "error"}]
ShmType  == [uin : Uins \cup {0}, sid : 0 .. MaxSessions, active : BOOLEAN]
JobType  == [pc : Pcs, m : Ids \cup {0}, u : Uins \cup {0, 1}, slot : Slots \cup {0},
             sid : 0 .. MaxSessions, rest : Seq(RowType) \cup Seq(Uins), date : 0 .. All,
             cut : BOOLEAN, tx : SUBSET Pairs, target : Uins \cup {0}, moved : SUBSET Uins]
EndType  == [sid : 0 .. MaxSessions, date : 0 .. MaxTime, cut : BOOLEAN, rows : SUBSET Pairs]

\* The types that TypeOK does not name.
JobsInv ==
  /\ st \in [PPs -> JobType]
  /\ \A p \in PPs : /\ st[p].pc = "fetch" => st[p].rest \in Seq(RowType)
                    /\ st[p].pc \in Casting => st[p].rest \in Seq(Uins)
TypeInv ==
  /\ proto \in Clients /\ shm \in [Slots -> ShmType]
  /\ mail \in Seq(MailType) /\ Len(mail) <= MaxMsgs
  /\ boxes \subseteq RowType /\ inbox \subseteq Pairs /\ kept \subseteq Pairs
  /\ told \subseteq EndType
  /\ nsess \in 0 .. MaxSessions /\ nread \in 0 .. MaxReads
  /\ now \in 1 .. MaxTime /\ nerr \in 0 .. MaxErrors
  /\ JobsInv

\* Sessions are not mixed up: a user has one record, and a session number one.
SessionInv ==
  /\ \A s \in Slots : shm[s].sid <= nsess /\ (shm[s].sid = 0 <=> shm[s].uin = 0)
  /\ \A s, x \in Slots : shm[s].sid = shm[x].sid /\ shm[s].sid # 0 => s = x
  /\ \A s, x \in Slots : shm[s].uin = shm[x].uin /\ shm[s].uin # 0 => s = x

\* A message has one handler until it is shown or stored.
WorkInv ==
  /\ \A p \in PPs :
       /\ st[p].m \in 0 .. Len(mail)
       /\ st[p].m # 0 <=> st[p].pc \in Delivering \cup Casting
       /\ \A q \in PPs : st[p].m # 0 /\ st[q].m = st[p].m => p = q
  /\ \A p \in PPs : st[p].pc \in Delivering =>
       /\ mail[st[p].m].way # "broadcast" /\ mail[st[p].m].to = st[p].u /\ st[p].u \in Uins
       /\ mail[st[p].m].told # "error"
       /\ \A x \in inbox \cup kept : x[1] # st[p].m
  /\ \A p \in PPs : st[p].pc \in ByPointer => mail[st[p].m].way = "v7" /\ st[p].slot \in Slots
  /\ \A p \in PPs : st[p].pc \in Casting =>
       /\ mail[st[p].m].way = "broadcast" /\ mail[st[p].m].told = "nothing"
       /\ \A x \in kept : x[1] # st[p].m
       /\ \A x \in st[p].tx : x[1] = st[p].m

\* What is shown, stored or lost is a message that was taken; a letter is only
\* stored for the one it is to.
MailInv ==
  /\ \A x \in inbox \cup kept : x[1] \in DOMAIN mail
  /\ \A x \in missed : x.m \in DOMAIN mail
  /\ \A r \in boxes : Row(r) \in kept /\ r.date <= now
  /\ \A x \in kept : mail[x[1]].way # "broadcast" => mail[x[1]].to = x[2]
  /\ \A p \in PPs : st[p].pc = "fetch" => \A r \in Elements(st[p].rest) : Row(r) \in kept

\* What is in u's box and was not shown to u is still to be fetched, or the reading
\* was cut before it, or it came later than what was read.
Unseen(u)  == {r \in boxes : r.u = u /\ Row(r) \notin inbox}
Letter(r)  == mail[r.m].way # "broadcast"
After(u, tx, date, cut, more) ==
  \A r \in Unseen(u) :
    /\ Row(r) \in tx => r \in more \/ (cut /\ r.date >= date)
    /\ Row(r) \notin tx /\ Letter(r) => r.date >= date

CursorInv ==
  \A p \in PPs : st[p].pc = "fetch" =>
    LET J == st[p]  more == Elements(st[p].rest) IN
    /\ J.u \in Uins /\ J.sid \in 1 .. nsess /\ J.tx \subseteq kept /\ J.date <= now
    /\ J.cut => J.rest = <<>>
    /\ \A i, j \in DOMAIN J.rest : i < j => J.rest[i].date <= J.rest[j].date
    /\ \A x \in more : J.date <= x.date /\ x.date <= now
    /\ \A r \in Unseen(J.u), x \in more : Row(r) \notin J.tx /\ Letter(r) => r.date >= x.date
    /\ \A s \in Slots : shm[s].sid = J.sid =>
         shm[s].uin = J.u /\ After(J.u, J.tx, J.date, J.cut, more)

ToldInv ==
  \A e \in told :
    /\ e.sid \in 1 .. nsess /\ e.rows \subseteq kept /\ e.date <= now
    /\ \A s \in Slots : shm[s].sid = e.sid => After(shm[s].uin, e.rows, e.date, e.cut, {})

DeleteInv ==
  \A p \in PPs : st[p].pc \in Deleting =>
    LET J == st[p] IN
    /\ J.u \in Uins /\ J.tx \subseteq kept
    /\ J.slot = 0 => J.target = J.u
    /\ J.slot # 0 => proto[J.u] = "v7"
    /\ J.pc = "v7del" => J.slot # 0
    /\ \A r \in Unseen(J.u) : Row(r) \in J.tx => J.cut
    /\ proto[J.u] = "v3" => J.date <= now /\ After(J.u, J.tx, J.date, J.cut, {})

\* A broadcast only passes by those who move meanwhile, whose rows are behind, or who
\* are not active.
CastInv ==
  \A p \in PPs : st[p].pc \in {"bsend", "binsert"} =>
    LET J == st[p] IN
    /\ J.pc = "binsert" => J.date <= now
    /\ \A u \in Uins \ (J.moved \cup {mail[J.m].from}) :
       /\ Active(u) => <<J.m, u>> \in inbox \/ (J.pc = "bsend" /\ u \in Elements(J.rest))
       /\ J.pc = "binsert" /\ ~Online(u) => <<J.m, u>> \in J.tx \/ u \in Elements(J.rest)

\* A message is shown to its recipient, or a V7 handler's pointer went to another.
ShownInv ==
  \A x \in inbox : mail[x[1]].way # "broadcast" =>
    \/ mail[x[1]].to = x[2]
    \/ /\ mail[x[1]].way = "v7" /\ x \notin kept
       /\ \E y \in missed : y.m = x[1] /\ y.why = "reused"

RowsInv == rows \subseteq Uins \X BOOLEAN /\ due \subseteq Uins \X Statements

IInv == /\ TypeInv /\ RowsInv /\ SessionInv /\ WorkInv /\ MailInv
        /\ CursorInv /\ ToldInv /\ DeleteInv /\ CastInv
        /\ ShownInv /\ SenderIsToldTheTruth /\ LossesAreKnown

----------------------------------------------------------------------------
(* Sequences made from sets *)

\* A sequence that lists a finite set once is a sequence of all its elements.
LEMMA ListsAll ==
  ASSUME NEW S, IsFiniteSet(S), NEW q \in [1 .. Cardinality(S) -> S], IsInjective(q)
  PROVE  q \in Seq(S) /\ Elements(q) = S
<1>1. Cardinality(S) \in Nat
  BY FS_CardinalityType
<1> DEFINE n == Cardinality(S)
<1>2. IsFiniteSet(1 .. n) /\ Cardinality(1 .. n) = n
  BY <1>1, FS_Interval, SMT
<1>3. q \in Injection(1 .. n, S)
  BY DEF Injection
<1> HIDE DEF n
<1>4. q \in Surjection(1 .. n, S)
  BY <1>1, <1>2, <1>3, FS_Injection DEF n
<1>5. q \in Seq(S)
  BY <1>1, <1>3, IsASeq DEF n, Injection
<1> QED BY <1>4, <1>5 DEF Surjection, Elements, n

LEMMA SetToSeqFacts ==
  ASSUME NEW S, IsFiniteSet(S)
  PROVE  SetToSeq(S) \in Seq(S) /\ Elements(SetToSeq(S)) = S
<1>1. PICK n \in Nat : ExistsBijection(1 .. n, S)
  BY FS_NatBijection
<1>2. Cardinality(S) = n
  BY <1>1, FS_CountingElements
<1>3. \E f \in [1 .. Cardinality(S) -> S] : IsInjective(f)
  BY <1>1, <1>2 DEF ExistsBijection, Bijection, Injection
<1>4. SetToSeq(S) \in [1 .. Cardinality(S) -> S] /\ IsInjective(SetToSeq(S))
  BY <1>3 DEF SetToSeq
<1> QED BY <1>4, ListsAll

LEMMA SetToSeqsFacts ==
  ASSUME NEW S, IsFiniteSet(S), NEW q \in SetToSeqs(S)
  PROVE  q \in Seq(S) /\ Elements(q) = S
<1>1. q \in [1 .. Cardinality(S) -> S] /\ IsInjective(q)
  BY DEF SetToSeqs, IsInjective
<1> QED BY <1>1, ListsAll

LEMMA TailElements ==
  ASSUME NEW T, NEW q \in Seq(T), q # <<>>
  PROVE  /\ Head(q) \in T /\ Tail(q) \in Seq(T)
         /\ Elements(q) = {Head(q)} \cup Elements(Tail(q))
         /\ \A i \in DOMAIN Tail(q) : i + 1 \in DOMAIN q /\ Tail(q)[i] = q[i + 1]
<1>1. Len(q) \in Nat \ {0} /\ DOMAIN q = 1 .. Len(q)
  BY LenProperties, EmptySeq, SMT
<1>2. Head(q) = q[1] /\ q[1] \in T /\ Tail(q) \in Seq(T) /\ Len(Tail(q)) = Len(q) - 1
  BY HeadTailProperties, ElementOfSeq, <1>1
<1>3. DOMAIN Tail(q) = 1 .. Len(q) - 1
  BY <1>1, <1>2, LenProperties
<1>4. \A i \in 1 .. Len(q) - 1 : Tail(q)[i] = q[i + 1]
  BY <1>1, HeadTailProperties
<1>5. \A i \in DOMAIN Tail(q) : i + 1 \in DOMAIN q /\ Tail(q)[i] = q[i + 1]
  BY <1>1, <1>3, <1>4
<1>6. ASSUME NEW e \in Elements(q) PROVE e \in {Head(q)} \cup Elements(Tail(q))
  <2>1. PICK i \in 1 .. Len(q) : e = q[i]
    BY <1>1 DEF Elements
  <2>2. CASE i = 1
    BY <2>1, <2>2, <1>2
  <2>3. CASE i # 1
    <3>1. i - 1 \in 1 .. Len(q) - 1 /\ (i - 1) + 1 = i
      BY <2>3, <1>1
    <3>2. Tail(q)[i - 1] = q[i] /\ i - 1 \in DOMAIN Tail(q)
      BY <3>1, <1>3, <1>4
    <3> QED BY <3>2, <2>1 DEF Elements
  <2> QED BY <2>2, <2>3
<1>7. ASSUME NEW e \in Elements(Tail(q)) PROVE e \in Elements(q)
  BY <1>5 DEF Elements
<1>8. Head(q) \in Elements(q)
  BY <1>1, <1>2 DEF Elements
<1> QED BY <1>2, <1>5, <1>6, <1>7, <1>8

LEMMA ElementsIn ==
  ASSUME NEW T, NEW q \in Seq(T)
  PROVE  Elements(q) \subseteq T
<1>1. \A i \in DOMAIN q : q[i] \in T
  BY ElementOfSeq, LenProperties
<1> QED BY <1>1 DEF Elements

LEMMA NoElements == Elements(<<>>) = {}
BY EmptySeq DEF Elements
----------------------------------------------------------------------------
(* What a step does *)

\* A handler takes a message and goes on with it, or refuses it.
Taken(p, x, job) ==
  /\ x \in MailType /\ Len(mail) < MaxMsgs /\ st[p].pc = "idle"
  /\ mail' = Append(mail, x)
  /\ st' = [st EXCEPT ![p] = job] /\ missed' = missed
  /\ job.m = Len(mail) + 1 /\ job.u = x.to /\ job.slot \in Slots \cup {0}
  /\ job.rest = <<>> /\ job.tx = {}
  /\ job.pc \in Delivering \cup {"bselect"}
  /\ job.pc \in Delivering => x.way # "broadcast" /\ x.told # "error" /\ x.to \in Uins
  /\ job.pc \in ByPointer => x.way = "v7" /\ job.slot \in Slots
  /\ job.pc = "bselect" => x.way = "broadcast" /\ x.told = "nothing"
  /\ job \in JobType
  /\ UNCHANGED <<proto, shm, boxes, inbox, told, kept, nsess, nread, now, nerr>>
Refused(p, x) ==
  /\ x \in MailType /\ Len(mail) < MaxMsgs
  /\ mail' = Append(mail, x)
  /\ missed' = missed \cup {Lost(Len(mail) + 1, x.to, "refused")}
  /\ x.way = "v7" /\ x.told # "ack"
  /\ UNCHANGED <<proto, shm, boxes, inbox, st, told, kept, nsess, nread, now, nerr>>

\* A delete is taken: the date and the user it is for depend on the protocol.
DeleteTaken(p, u, e, job) ==
  /\ st[p].pc = "idle" /\ e \in told /\ e.sid = shm[SlotOf(u)].sid /\ Online(u)
  /\ st' = [st EXCEPT ![p] = job]
  /\ job \in JobType /\ job.m = 0 /\ job.u = u /\ job.cut = e.cut /\ job.tx = e.rows
  /\ \/ job.pc = "del" /\ job.slot = 0 /\ job.target = u /\ (proto[u] = "v3" => job.date = e.date)
     \/ job.pc = "v7del" /\ job.slot \in Slots /\ proto[u] = "v7"
  /\ told' = told \ {e}
  /\ UNCHANGED <<proto, shm, mail, boxes, inbox, kept, missed, nsess, nread, now, nerr>>

Pointed(p) == st[p].pc \in ByPointer /\ WriteByPointer(p)

StepOf(p) ==
  \/ \E x \in MailType : (\E job \in JobType : Taken(p, x, job)) \/ Refused(p, x)
  \/ Send(p) \/ AddMessage(p) \/ Pointed(p)
  \/ \E u \in Uins : Declare(p, u)
  \/ Fetch(p) \/ EndOfMessages(p)
  \/ \E u \in Uins, e \in told, job \in JobType : DeleteTaken(p, u, e, job)
  \/ V7DeleteUin(p) \/ DelMessages(p)
  \/ SelectOnline(p) \/ SendOnline(p) \/ SelectOffline(p) \/ InsertOffline(p) \/ CommitOffline(p)

Steps ==
  \/ \E u \in Uins : Login(u) \/ Activate(u) \/ Logoff(u)
  \/ LateStatement \/ Tick
  \/ \E p \in PPs : StepOf(p)
  \/ UNCHANGED vars

USE NamesAssumption, SizesAssumption

LEMMA SlotOfFacts ==
  ASSUME NEW u, Online(u)
  PROVE  SlotOf(u) \in Slots /\ shm[SlotOf(u)].uin = u
BY DEF Online, SlotOf, RecordOf

LEMMA ActiveIsOnline == ASSUME NEW u, Active(u) PROVE Online(u)
BY DEF Active, Online, RecordOf

LEMMA IdleType == Idle \in JobType
<1>1. <<>> \in Seq(RowType)
  BY EmptySeq
<1> QED BY <1>1 DEF Idle, JobType, Pcs, All

LEMMA JobTypes ==
  ASSUME TypeInv, Len(mail) < MaxMsgs, NEW pc \in Delivering \cup {"bselect"},
         NEW t \in Uins \cup {0, 1}
  PROVE  /\ Job(pc, t) \in JobType
         /\ \A s \in Slots \cup {0} : [Job(pc, t) EXCEPT !.slot = s] \in JobType
         /\ \A n \in 0 .. MaxSessions : [Job(pc, t) EXCEPT !.sid = n] \in JobType
<1>1. NewId \in Ids /\ pc \in Pcs
  BY LenProperties DEF NewId, TypeInv, Ids, Pcs, Casting
<1>2. Job(pc, t) \in JobType
  BY <1>1, IdleType DEF Job, JobType
<1> QED BY <1>2 DEF JobType

LEMMA JobFields ==
  ASSUME NEW pc, NEW t, NEW s, NEW n
  PROVE  /\ Job(pc, t).m = NewId /\ Job(pc, t).u = t /\ Job(pc, t).rest = <<>>
         /\ Job(pc, t).tx = {} /\ Job(pc, t).pc = pc /\ Job(pc, t).slot = 0
         /\ LET j == [Job(pc, t) EXCEPT !.slot = s] IN
              j.m = NewId /\ j.u = t /\ j.rest = <<>> /\ j.tx = {} /\ j.pc = pc /\ j.slot = s
         /\ LET j == [Job(pc, t) EXCEPT !.sid = n] IN
              j.m = NewId /\ j.u = t /\ j.rest = <<>> /\ j.tx = {} /\ j.pc = pc /\ j.slot = 0
BY DEF Job, Idle

LEMMA UdpTaken ==
  ASSUME TypeInv, NEW p \in PPs, NEW f \in Uins, NEW t \in Uins, CanTake(p),
         ProcessMessage(p, t), Log(f, t, "udp", "nothing"),
         UNCHANGED TakeRest, UNCHANGED missed
  PROVE  \E x \in MailType, job \in JobType : Taken(p, x, job)
<1> DEFINE x == [to |-> t, from |-> f, way |-> "udp", told |-> "nothing"]
           job == IF Active(t) THEN [Job("send", t) EXCEPT !.sid = shm[SlotOf(t)].sid]
                               ELSE Job("store", t)
<1>1. x \in MailType /\ x.to = t /\ x.way = "udp" /\ x.told = "nothing"
  BY DEF MailType
<1>2. Len(mail) < MaxMsgs /\ st[p].pc = "idle"
  BY DEF CanTake, At
<1>3. st' = [st EXCEPT ![p] = job] /\ mail' = Append(mail, x) /\ missed' = missed
  BY DEF ProcessMessage, Start, Log
<1>4. job \in JobType
  <2>1. CASE Active(t)
    <3>1. shm[SlotOf(t)].sid \in 0 .. MaxSessions
      BY <2>1, ActiveIsOnline, SlotOfFacts DEF TypeInv, ShmType
    <3> QED BY <2>1, <3>1, <1>2, JobTypes DEF Delivering
  <2>2. CASE ~Active(t)
    BY <2>2, <1>2, JobTypes DEF Delivering
  <2> QED BY <2>1, <2>2
<1>5. job.m = NewId /\ job.u = t /\ job.slot = 0 /\ job.rest = <<>> /\ job.tx = {}
      /\ job.pc \in {"send", "store"}
  BY JobFields
<1>6. UNCHANGED <<proto, shm, boxes, inbox, told, kept, nsess, nread, now, nerr>>
  BY DEF TakeRest
<1> HIDE DEF x, job
<1>7. Taken(p, x, job)
  BY <1>1, <1>2, <1>3, <1>4, <1>5, <1>6 DEF Taken, NewId, Delivering, ByPointer
<1> QED BY <1>1, <1>4, <1>7

LEMMA CastTaken ==
  ASSUME TypeInv, NEW p \in PPs, NEW f \in Uins, NEW t \in {0, 1}, Broadcast(p, f, t)
  PROVE  \E x \in MailType, job \in JobType : Taken(p, x, job)
<1> DEFINE x == [to |-> t, from |-> f, way |-> "broadcast", told |-> "nothing"]
           job == Job("bselect", t)
<1>1. x \in MailType /\ x.to = t /\ x.way = "broadcast" /\ x.told = "nothing"
  BY DEF MailType
<1>2. Len(mail) < MaxMsgs /\ st[p].pc = "idle"
  BY DEF Broadcast, CanTake, At
<1>3. st' = [st EXCEPT ![p] = job] /\ mail' = Append(mail, x) /\ missed' = missed
  BY DEF Broadcast, Start, Log
<1>4. job \in JobType
  BY <1>2, JobTypes
<1>5. job.m = NewId /\ job.u = t /\ job.slot = 0 /\ job.rest = <<>> /\ job.tx = {}
      /\ job.pc = "bselect"
  BY JobFields
<1>6. UNCHANGED <<proto, shm, boxes, inbox, told, kept, nsess, nread, now, nerr>>
  BY DEF Broadcast, TakeRest
<1> HIDE DEF x, job
<1>7. Taken(p, x, job)
  BY <1>1, <1>2, <1>3, <1>4, <1>5, <1>6 DEF Taken, NewId, Delivering, ByPointer
<1> QED BY <1>1, <1>4, <1>7

LEMMA RefuseRefused ==
  ASSUME NEW p, NEW f \in Uins, NEW t \in Uins, NEW r \in {"nothing", "error"},
         CanTake(p), Refuse(f, t, r), UNCHANGED TakeRest
  PROVE  \E x \in MailType : Refused(p, x)
<1> DEFINE x == [to |-> t, from |-> f, way |-> "v7", told |-> r]
<1>1. x \in MailType /\ x.to = t /\ x.way = "v7" /\ x.told = r
  BY DEF MailType
<1>2. mail' = Append(mail, x) /\ missed' = missed \cup {Lost(Len(mail) + 1, t, "refused")} /\ st' = st
  BY DEF Refuse, Log, NewId
<1> HIDE DEF x
<1> QED BY <1>1, <1>2 DEF Refused, CanTake, TakeRest

LEMMA GoOnTaken ==
  ASSUME TypeInv, NEW p \in PPs, NEW f \in Uins, NEW t \in Uins, NEW r \in Replies,
         NEW pc \in Delivering \ {"send"}, CanTake(p), GoOn(p, f, t, pc, r),
         pc # "store" => Online(t), UNCHANGED TakeRest
  PROVE  \E x \in MailType, job \in JobType : Taken(p, x, job)
<1> DEFINE x == [to |-> t, from |-> f, way |-> "v7", told |-> r]
           s == IF pc = "store" THEN 0 ELSE SlotOf(t)
           job == [Job(pc, t) EXCEPT !.slot = s]
<1>1. x \in MailType /\ x.to = t /\ x.way = "v7" /\ x.told = r
  BY DEF MailType, Replies
<1>2. Len(mail) < MaxMsgs /\ st[p].pc = "idle"
  BY DEF CanTake, At
<1>3. st' = [st EXCEPT ![p] = job] /\ mail' = Append(mail, x) /\ missed' = missed
  BY DEF GoOn, Start, Log
<1>4. s \in Slots \cup {0} /\ (pc # "store" => s \in Slots)
  BY SlotOfFacts
<1> HIDE DEF s
<1>5. job \in JobType
  BY <1>2, <1>4, JobTypes DEF Delivering
<1>6. job.m = NewId /\ job.u = t /\ job.slot = s /\ job.rest = <<>> /\ job.tx = {} /\ job.pc = pc
  BY JobFields
<1>7. UNCHANGED <<proto, shm, boxes, inbox, told, kept, nsess, nread, now, nerr>>
  BY DEF TakeRest
<1> HIDE DEF x, job
<1>8. Taken(p, x, job)
  BY <1>1, <1>2, <1>3, <1>4, <1>5, <1>6, <1>7 DEF Taken, NewId, Delivering, ByPointer, Replies
<1> QED BY <1>1, <1>5, <1>8

LEMMA V7Taken ==
  ASSUME TypeInv, NEW p \in PPs, NEW f \in Uins, NEW t \in Uins, V7Message(p, f, t)
  PROVE  \E x \in MailType : (\E job \in JobType : Taken(p, x, job)) \/ Refused(p, x)
<1>1. CanTake(p) /\ UNCHANGED TakeRest
  BY DEF V7Message
<1>2. ASSUME NEW r \in {"nothing", "error"}, Refuse(f, t, r) PROVE \E x \in MailType : Refused(p, x)
  BY <1>1, <1>2, RefuseRefused
<1>3. ASSUME NEW pc \in {"x1", "x4e", "x2"}, Active(t), Limits(p, f, t, pc)
      PROVE  \E x \in MailType : (\E job \in JobType : Taken(p, x, job)) \/ Refused(p, x)
  <2>1. CASE Refuse(f, t, "error")
    BY <2>1, <1>2
  <2>2. ASSUME NEW r \in Replies, GoOn(p, f, t, pc, r)
        PROVE  \E x \in MailType, job \in JobType : Taken(p, x, job)
    BY <1>1, <1>3, <2>2, GoOnTaken, ActiveIsOnline DEF Delivering
  <2> QED BY <1>3, <2>1, <2>2 DEF Limits
<1>4. ASSUME ForLater(p, f, t)
      PROVE  \E x \in MailType : (\E job \in JobType : Taken(p, x, job)) \/ Refused(p, x)
  <2>1. CASE Refuse(f, t, "nothing")
    BY <2>1, <1>2
  <2>2. ASSUME NEW r \in Replies, GoOn(p, f, t, "store", r)
        PROVE  \E x \in MailType, job \in JobType : Taken(p, x, job)
    BY <1>1, <2>2, GoOnTaken DEF Delivering
  <2> QED BY <1>4, <2>1, <2>2 DEF ForLater
<1>5. ASSUME Online(t), GoOn(p, f, t, "notice", "nothing")
      PROVE  \E x \in MailType, job \in JobType : Taken(p, x, job)
  BY <1>1, <1>5, GoOnTaken DEF Delivering, Replies
<1>6. CASE TxtMessage(p, f, t)
  BY <1>6, <1>2, <1>3, <1>4 DEF TxtMessage
<1>7. CASE SysMessage(p, f, t)
  BY <1>7, <1>2, <1>3, <1>4 DEF SysMessage
<1>8. CASE AdvMessage(p, f, t)
  BY <1>8, <1>2, <1>3 DEF AdvMessage
<1>9. CASE TypingNotification(p, f, t)
  BY <1>9, <1>2, <1>5 DEF TypingNotification
<1>10. CASE ClientAck(p, f, t)
  BY <1>10, <1>2, <1>5 DEF ClientAck
<1> QED BY <1>6, <1>7, <1>8, <1>9, <1>10 DEF V7Message

LEMMA DeletesTaken ==
  ASSUME TypeInv, NEW p \in PPs, NEW u \in Uins, NEW e \in told,
         V3Delete(p, u, e) \/ V5Delete(p, u, e) \/ V7Delete(p, u, e)
  PROVE  \E job \in JobType : DeleteTaken(p, u, e, job)
<1>1. e \in EndType /\ SlotOf(u) \in Slots
  BY SlotOfFacts DEF TypeInv, V3Delete, V5Delete, V7Delete
<1>a. /\ e.date \in 0 .. All /\ All \in 0 .. All /\ e.cut \in BOOLEAN /\ e.rows \in SUBSET Pairs
      /\ "del" \in Pcs /\ "v7del" \in Pcs /\ u \in Uins \cup {0, 1} /\ u \in Uins \cup {0}
      /\ SlotOf(u) \in Slots \cup {0}
  <2>1. e.date \in 0 .. MaxTime /\ e.cut \in BOOLEAN /\ e.rows \in SUBSET Pairs
    BY <1>1 DEF EndType
  <2> QED BY <1>1, <2>1 DEF All, Pcs, Deleting
<1>2. CASE V3Delete(p, u, e)
  <2> DEFINE job == [Idle EXCEPT !.pc = "del", !.u = u, !.target = u,
                                 !.date = e.date, !.cut = e.cut, !.tx = e.rows]
  <2>1. job \in JobType
    BY <1>a, IdleType DEF JobType
  <2>2. /\ job.m = 0 /\ job.u = u /\ job.cut = e.cut /\ job.tx = e.rows
        /\ job.pc = "del" /\ job.slot = 0 /\ job.target = u /\ job.date = e.date
    BY DEF Idle
  <2>3. st' = [st EXCEPT ![p] = job]
    BY <1>2 DEF V3Delete
  <2> HIDE DEF job
  <2>4. DeleteTaken(p, u, e, job)
    BY <1>2, <2>1, <2>2, <2>3 DEF V3Delete, DeleteTaken, At
  <2> QED BY <2>1, <2>4
<1>3. CASE V5Delete(p, u, e)
  <2> DEFINE job == [Idle EXCEPT !.pc = "del", !.u = u, !.target = u,
                                 !.date = All, !.cut = e.cut, !.tx = e.rows]
  <2>1. job \in JobType
    BY <1>a, IdleType DEF JobType
  <2>2. /\ job.m = 0 /\ job.u = u /\ job.cut = e.cut /\ job.tx = e.rows
        /\ job.pc = "del" /\ job.slot = 0 /\ job.target = u
    BY DEF Idle
  <2>3. st' = [st EXCEPT ![p] = job]
    BY <1>3 DEF V5Delete
  <2> HIDE DEF job
  <2>4. DeleteTaken(p, u, e, job)
    BY <1>3, <2>1, <2>2, <2>3 DEF V5Delete, DeleteTaken, At
  <2> QED BY <2>1, <2>4
<1>4. CASE V7Delete(p, u, e)
  <2> DEFINE job == [Idle EXCEPT !.pc = "v7del", !.u = u,
                                 !.slot = SlotOf(u), !.cut = e.cut, !.tx = e.rows]
  <2>1. job \in JobType
    BY <1>a, IdleType DEF JobType
  <2>2. /\ job.m = 0 /\ job.u = u /\ job.cut = e.cut /\ job.tx = e.rows
        /\ job.pc = "v7del" /\ job.slot = SlotOf(u)
    BY DEF Idle
  <2>3. st' = [st EXCEPT ![p] = job]
    BY <1>4 DEF V7Delete
  <2> HIDE DEF job
  <2>4. DeleteTaken(p, u, e, job)
    BY <1>1, <1>4, <2>1, <2>2, <2>3 DEF V7Delete, DeleteTaken, At
  <2> QED BY <2>1, <2>4
<1> QED BY <1>2, <1>3, <1>4

LEMMA StepForms ==
  ASSUME TypeInv, [Next]_vars
  PROVE  Steps
<1>1. CASE UNCHANGED vars
  BY <1>1 DEF Steps
<1>2. CASE \E u \in Uins : Login(u) \/ Activate(u) \/ Logoff(u)
  BY <1>2 DEF Steps
<1>3. CASE LateStatement \/ Tick
  BY <1>3 DEF Steps
<1>4. ASSUME NEW p \in PPs, TakeOne(p) PROVE Steps
  <2>1. ASSUME NEW f \in Writers, NEW t \in Uins \ {f}, V3Message(p, f, t) \/ V5Message(p, f, t)
        PROVE  Steps
    BY <2>1, UdpTaken DEF V3Message, V5Message, Steps, StepOf
  <2>2. ASSUME NEW f \in Writers, NEW t \in Uins \ {f}, V7Message(p, f, t)
        PROVE  Steps
    BY <2>2, V7Taken DEF Steps, StepOf
  <2>3. ASSUME NEW f \in Writers, BadLength(p, f)
        PROVE  Steps
    BY <2>3 DEF BadLength, Steps
  <2>4. ASSUME NEW f \in Writers, NEW t \in {0, 1}, Broadcast(p, f, t)
        PROVE  Steps
    BY <2>4, CastTaken DEF Steps, StepOf
  <2> QED BY <1>4, <2>1, <2>2, <2>3, <2>4 DEF TakeOne
<1>5. ASSUME NEW p \in PPs, Deliver(p) PROVE Steps
  BY <1>5 DEF Deliver, SendX1, SendX4e, SendX2, Notify, At, Steps, StepOf, Pointed, ByPointer
<1>6. ASSUME NEW p \in PPs, Read(p) PROVE Steps
  <2>1. ASSUME NEW u \in Uins, V3Read(p, u) \/ V5Read(p, u) \/ V7Read(p, u) PROVE Steps
    BY <2>1 DEF V3Read, V5Read, V7Read, Steps, StepOf
  <2>2. ASSUME V3Fetch(p) \/ V5Fetch(p) \/ V7Fetch(p) PROVE Steps
    BY <2>2 DEF V3Fetch, V5Fetch, V7Fetch, Steps, StepOf
  <2>3. ASSUME NEW u \in Uins, NEW e \in told, V3Delete(p, u, e) \/ V5Delete(p, u, e) \/ V7Delete(p, u, e)
        PROVE  Steps
    BY <2>3, DeletesTaken DEF Steps, StepOf
  <2>4. ASSUME EndOfMessages(p) \/ V7DeleteUin(p) \/ DelMessages(p) PROVE Steps
    BY <2>4 DEF Steps, StepOf
  <2> QED BY <1>6, <2>1, <2>2, <2>3, <2>4 DEF Read
<1>7. ASSUME NEW p \in PPs, Spread(p) PROVE Steps
  BY <1>7 DEF Spread, Steps, StepOf
<1> QED BY <1>1, <1>2, <1>3, <1>4, <1>5, <1>6, <1>7 DEF Next

----------------------------------------------------------------------------
(* Types *)

LEMMA TypeParts ==
  ASSUME TypeInv
  PROVE  /\ proto \in [Uins -> {"v3", "v5", "v7"}] /\ proto \in Clients
         /\ shm \in [Slots -> ShmType]
         /\ mail \in Seq(MailType) /\ Len(mail) \in Nat /\ Len(mail) <= MaxMsgs
         /\ DOMAIN mail = 1 .. Len(mail)
         /\ boxes \subseteq RowType /\ inbox \subseteq Pairs /\ kept \subseteq Pairs
         /\ told \subseteq EndType
         /\ st \in [PPs -> JobType]
         /\ nsess \in 0 .. MaxSessions /\ nread \in 0 .. MaxReads
         /\ now \in 1 .. MaxTime /\ nerr \in 0 .. MaxErrors
BY LenProperties DEF TypeInv, JobsInv

LEMMA FiniteUins ==
  ASSUME NEW S, S \subseteq Uins
  PROVE  IsFiniteSet(S)
BY FS_Subset

LEMMA FiniteBoxes ==
  ASSUME TypeInv, NEW u
  PROVE  IsFiniteSet(Stored(u))
<1> DEFINE T == (Ids \X Uins) \X (0 .. MaxTime)
           F == [x \in T |-> [m |-> x[1][1], u |-> x[1][2], date |-> x[2]]]
           R == {F[x] : x \in T}
<1>1. IsFiniteSet(Ids) /\ IsFiniteSet(0 .. MaxTime)
  BY FS_Interval, SMT DEF Ids
<1>2. IsFiniteSet(T)
  BY <1>1, FS_Product
<1>3. IsFiniteSet(R)
  <2>1. F \in Surjection(T, R)
    BY DEF Surjection
  <2> HIDE DEF T, F, R
  <2> QED BY <1>2, <2>1, FS_Surjection
<1>4. ASSUME NEW r \in Stored(u) PROVE r \in R
  <2>1. r \in RowType
    BY TypeParts DEF Stored
  <2>2. <<<<r.m, r.u>>, r.date>> \in T /\ r = [m |-> r.m, u |-> r.u, date |-> r.date]
    BY <2>1 DEF RowType
  <2>3. F[<<<<r.m, r.u>>, r.date>>] = r
    BY <2>2
  <2> QED BY <2>2, <2>3
<1> QED BY <1>3, <1>4, FS_Subset

LEMMA JobPut ==
  ASSUME JobsInv, NEW p \in PPs, NEW job \in JobType, st' = [st EXCEPT ![p] = job],
         job.pc = "fetch" => job.rest \in Seq(RowType),
         job.pc \in Casting => job.rest \in Seq(Uins)
  PROVE  JobsInv'
BY DEF JobsInv

LEMMA JobIdle ==
  ASSUME JobsInv, NEW p \in PPs, Finish(p)
  PROVE  JobsInv'
BY JobPut, IdleType DEF Finish, Idle, Casting

LEMMA JobsMove ==
  ASSUME JobsInv, NEW u \in Uins, st' = Moves(u)
  PROVE  /\ JobsInv'
         /\ \A p \in PPs : st'[p] = st[p] \/ (st[p].pc \in Casting /\ st'[p] = [st[p] EXCEPT !.moved = @ \cup {u}])
         /\ \A p \in PPs : st[p].pc \in Casting => st'[p] = [st[p] EXCEPT !.moved = @ \cup {u}]
<1>1. ASSUME NEW p \in PPs
      PROVE  [st[p] EXCEPT !.moved = @ \cup {u}] \in JobType
  <2>1. st[p] \in JobType
    BY DEF JobsInv
  <2>2. st[p].moved \cup {u} \in SUBSET Uins
    BY <2>1 DEF JobType
  <2> QED BY <2>1, <2>2 DEF JobType
<1>2. \A p \in PPs : /\ st[p].pc \in Casting => st'[p] = [st[p] EXCEPT !.moved = @ \cup {u}]
                     /\ st[p].pc \notin Casting => st'[p] = st[p]
  BY DEF Moves, Casting
<1>3. \A p \in PPs : st'[p] \in JobType
  BY <1>1, <1>2 DEF JobsInv
<1>4. \A p \in PPs : st'[p].pc = st[p].pc /\ st'[p].rest = st[p].rest
  <2> SUFFICES ASSUME NEW p \in PPs PROVE st'[p].pc = st[p].pc /\ st'[p].rest = st[p].rest
    OBVIOUS
  <2>1. CASE st[p].pc \in Casting
    <3>1. st'[p] = [st[p] EXCEPT !.moved = @ \cup {u}] /\ st[p] \in JobType
      BY <2>1, <1>2 DEF JobsInv
    <3> QED BY <3>1 DEF JobType
  <2>2. CASE st[p].pc \notin Casting
    BY <2>2, <1>2
  <2> QED BY <2>1, <2>2
<1>5. st' \in [PPs -> JobType]
  BY <1>3 DEF Moves
<1> QED BY <1>2, <1>4, <1>5 DEF JobsInv

\* The fields of the jobs.
LEMMA JobParts ==
  ASSUME JobsInv, NEW p \in PPs
  PROVE  /\ st[p] \in JobType
         /\ st[p].pc \in Pcs /\ st[p].m \in Ids \cup {0} /\ st[p].u \in Uins \cup {0, 1}
         /\ st[p].slot \in Slots \cup {0} /\ st[p].sid \in 0 .. MaxSessions
         /\ st[p].date \in 0 .. All /\ st[p].cut \in BOOLEAN /\ st[p].tx \subseteq Pairs
         /\ st[p].target \in Uins \cup {0} /\ st[p].moved \subseteq Uins
         /\ st[p].pc = "fetch" => st[p].rest \in Seq(RowType)
         /\ st[p].pc \in Casting => st[p].rest \in Seq(Uins)
BY DEF JobsInv, JobType

LEMMA TypeSessions ==
  ASSUME TypeInv, NEW u \in Uins, Login(u) \/ Activate(u) \/ Logoff(u)
  PROVE  TypeInv'
<1>0. JobsInv /\ st' = Moves(u)
  BY DEF Login, Activate, Logoff, TypeInv
<1>1. JobsInv'
  BY <1>0, JobsMove
<1>2. proto \in [Uins -> {"v3", "v5", "v7"}] /\ shm \in [Slots -> ShmType]
  BY TypeParts
<1>3. CASE Login(u)
  <2>1. PICK s \in Slots : shm' = [shm EXCEPT ![s] = [uin |-> u, sid |-> nsess + 1, active |-> Udp(u)]]
    BY <1>3 DEF Login, RecordOf
  <2>2. Udp(u) \in BOOLEAN
    BY DEF Udp
  <2>3. nsess' = nsess + 1 /\ nsess' \in 0 .. MaxSessions /\ nsess + 1 \in 0 .. MaxSessions
    BY <1>3, TypeParts DEF Login
  <2>4. [uin |-> u, sid |-> nsess + 1, active |-> Udp(u)] \in ShmType
    BY <2>2, <2>3 DEF ShmType
  <2>5. shm' \in [Slots -> ShmType]
    BY <1>2, <2>1, <2>4
  <2> QED BY <1>1, <1>3, <2>3, <2>5 DEF TypeInv, Login
<1>4. CASE Activate(u)
  <2>1. SlotOf(u) \in Slots /\ shm' = [shm EXCEPT ![SlotOf(u)].active = TRUE]
    BY <1>4, SlotOfFacts DEF Activate
  <2>2. \A x \in ShmType : [x EXCEPT !.active = TRUE] \in ShmType
    BY DEF ShmType
  <2>3. shm' \in [Slots -> ShmType]
    BY <1>2, <2>1, <2>2
  <2> QED BY <1>1, <1>4, <2>3 DEF TypeInv, Activate
<1>5. CASE Logoff(u)
  <2>1. Hole \in ShmType
    BY DEF Hole, ShmType
  <2>2. shm' \in [Slots -> ShmType] /\ told' \subseteq told
    BY <1>2, <1>5, <2>1 DEF Logoff
  <2> QED BY <1>1, <1>5, <2>2 DEF TypeInv, Logoff
<1> QED BY <1>3, <1>4, <1>5

LEMMA TypeTakes ==
  ASSUME TypeInv, NEW p \in PPs, NEW x \in MailType,
         (\E job \in JobType : Taken(p, x, job)) \/ Refused(p, x)
  PROVE  TypeInv'
<1>1. mail' \in Seq(MailType) /\ Len(mail') = Len(mail) + 1
  <2>1. mail' = Append(mail, x)
    BY DEF Taken, Refused
  <2> QED BY <2>1, TypeParts, AppendProperties
<1>2. JobsInv'
  <2>1. ASSUME NEW job \in JobType, Taken(p, x, job) PROVE JobsInv'
    <3>1. job.rest \in Seq(Uins) /\ job.pc # "fetch" /\ st' = [st EXCEPT ![p] = job]
      BY <2>1, EmptySeq DEF Taken, Delivering
    <3> QED BY <3>1, JobPut DEF TypeInv
  <2>2. ASSUME Refused(p, x) PROVE JobsInv'
    BY <2>2 DEF Refused, TypeInv, JobsInv
  <2> QED BY <2>1, <2>2
<1>3. Len(mail') <= MaxMsgs
  BY <1>1, TypeParts DEF Taken, Refused
<1>4. UNCHANGED <<proto, shm, boxes, inbox, told, kept, nsess, nread, now, nerr>>
  BY DEF Taken, Refused
<1> QED BY <1>1, <1>2, <1>3, <1>4 DEF TypeInv

\* Messages being worked on have a number.
LEMMA WorkPairs ==
  ASSUME TypeInv, WorkInv, NEW p \in PPs, st[p].pc \in Delivering \cup Casting
  PROVE  /\ st[p].m \in DOMAIN mail /\ st[p].m \in Ids
         /\ \A u \in Uins : <<st[p].m, u>> \in Pairs
<1>1. st[p].m \in 1 .. Len(mail)
  BY TypeParts DEF WorkInv
<1> QED BY <1>1, TypeParts DEF Ids, Pairs

LEMMA TypeDelivers ==
  ASSUME TypeInv, WorkInv, NEW p \in PPs, Send(p) \/ AddMessage(p) \/ Pointed(p)
  PROVE  TypeInv'
<1>1. Finish(p) /\ JobsInv
  BY DEF Send, AddMessage, Pointed, WriteByPointer, TypeInv
<1>2. JobsInv'
  BY <1>1, JobIdle
<1>3. st[p].pc \in Delivering /\ st[p].u \in Uins /\ UNCHANGED <<proto, shm, mail, told, nsess, nread, now>>
  <2>1. st[p].pc \in Delivering
    BY DEF Send, AddMessage, Pointed, At, Delivering, ByPointer
  <2> QED BY <2>1 DEF WorkInv, Send, AddMessage, Pointed, WriteByPointer
<1>4. \A u \in Uins : <<st[p].m, u>> \in Pairs
  BY <1>3, WorkPairs
<1>5. CASE Send(p)
  <2>1. inbox' \subseteq inbox \cup {<<st[p].m, st[p].u>>}
    BY <1>5 DEF Send
  <2>2. inbox' \subseteq Pairs
    BY <1>3, <1>4, <2>1, TypeParts
  <2> QED BY <1>2, <1>5, <2>2 DEF TypeInv, Send
<1>6. CASE AddMessage(p)
  <2>1. nerr' \in 0 .. MaxErrors
    BY <1>6, TypeParts DEF AddMessage, DbOk, DbError
  <2>2. [m |-> st[p].m, u |-> st[p].u, date |-> now] \in RowType
    <3>1. st[p].m \in Ids
      BY <1>3, WorkPairs
    <3> QED BY <3>1, <1>3, TypeParts DEF RowType
  <2>3. Rows({<<st[p].m, st[p].u>>}, now) = {[m |-> st[p].m, u |-> st[p].u, date |-> now]}
    BY DEF Rows
  <2>4. boxes' \subseteq RowType /\ kept' \subseteq Pairs
    BY <1>3, <1>4, <1>6, <2>2, <2>3, TypeParts DEF AddMessage
  <2> QED BY <1>2, <1>6, <2>1, <2>4 DEF TypeInv, AddMessage
<1>7. CASE Pointed(p)
  <2>1. st[p].slot \in Slots
    BY <1>7 DEF Pointed, WorkInv
  <2>2. shm[st[p].slot].uin \in Uins \cup {0}
    BY <2>1, TypeParts DEF ShmType
  <2>3. inbox' \subseteq Pairs
    BY <1>4, <1>7, <2>2, TypeParts DEF Pointed, WriteByPointer
  <2> QED BY <1>2, <1>7, <2>3 DEF TypeInv, Pointed, WriteByPointer
<1> QED BY <1>5, <1>6, <1>7
\* A reading that began: the rows of this moment, in the order of their dates.
Declared(p, u, job) ==
  /\ job \in JobType /\ job.pc = "fetch" /\ job.u = u /\ job.m = 0 /\ job.slot = 0
  /\ job.rest \in Seq(RowType) /\ Elements(job.rest) = Stored(u)
  /\ \A i, j \in DOMAIN job.rest : i < j => job.rest[i].date <= job.rest[j].date
  /\ job.sid = shm[SlotOf(u)].sid /\ job.tx = {Row(r) : r \in Stored(u)}
  /\ job.date = 0 /\ job.cut = FALSE
  /\ st' = [st EXCEPT ![p] = job]

LEMMA DeclareForms ==
  ASSUME TypeInv, NEW p \in PPs, NEW u \in Uins, Declare(p, u)
  PROVE  UNCHANGED st \/ \E job \in JobType : Declared(p, u, job)
<1> SUFFICES ASSUME NEW q \in ByDate(Stored(u)),
                    Start(p, Reading(u, q))
             PROVE  \E job \in JobType : Declared(p, u, job)
  BY DEF Declare
<1> DEFINE job == Reading(u, q)
<1>1. q \in Seq(Stored(u)) /\ Elements(q) = Stored(u)
  BY FiniteBoxes, SetToSeqsFacts DEF ByDate
<1>2. Stored(u) \subseteq RowType
  BY TypeParts DEF Stored
<1>3. q \in Seq(RowType)
  BY <1>1, <1>2, SeqMonotonic
<1>4. shm[SlotOf(u)].sid \in 0 .. MaxSessions
  <2>1. SlotOf(u) \in Slots
    BY SlotOfFacts DEF Declare
  <2> QED BY <2>1, TypeParts DEF ShmType
<1>5. {Row(r) : r \in Stored(u)} \in SUBSET Pairs
  BY <1>2 DEF Row, RowType, Pairs
<1>6. "fetch" \in Pcs /\ u \in Uins \cup {0, 1} /\ q \in Seq(RowType) \cup Seq(Uins)
  BY <1>3 DEF Pcs
<1>7. job \in JobType
  <2> DEFINE n == shm[SlotOf(u)].sid
             t == {Row(r) : r \in Stored(u)}
  <2>1. n \in 0 .. MaxSessions /\ t \in SUBSET Pairs
    BY <1>4, <1>5
  <2> HIDE DEF n, t
  <2>2. [Idle EXCEPT !.pc = "fetch", !.u = u, !.sid = n, !.rest = q, !.tx = t] \in JobType
    BY <1>6, <2>1, IdleType DEF JobType
  <2> QED BY <2>2 DEF n, t, Reading
<1>8. st' = [st EXCEPT ![p] = job]
  BY DEF Start
<1>9. /\ job.pc = "fetch" /\ job.u = u /\ job.m = 0 /\ job.slot = 0 /\ job.rest = q
      /\ job.sid = shm[SlotOf(u)].sid /\ job.tx = {Row(r) : r \in Stored(u)}
      /\ job.date = 0 /\ job.cut = FALSE
  BY DEF Idle, Reading
<1>10. \A i, j \in DOMAIN q : i < j => q[i].date <= q[j].date
  BY DEF ByDate
<1> HIDE DEF job
<1>11. Declared(p, u, job)
  BY <1>1, <1>3, <1>7, <1>8, <1>9, <1>10 DEF Declared
<1> QED BY <1>7, <1>11

LEMMA TypeDeclare ==
  ASSUME TypeInv, NEW p \in PPs, NEW u \in Uins, Declare(p, u)
  PROVE  TypeInv'
<1>1. nread' \in 0 .. MaxReads /\ nerr' \in 0 .. MaxErrors
  <2>1. nread < MaxReads /\ nread' = nread + 1 /\ nread \in 0 .. MaxReads /\ nerr \in 0 .. MaxErrors
    BY TypeParts DEF Declare
  <2>2. nerr' = nerr \/ (nerr < MaxErrors /\ nerr' = nerr + 1)
    BY DEF Declare, DbOk, DbError
  <2> QED BY <2>1, <2>2
<1>2. JobsInv'
  <2>1. ASSUME UNCHANGED st PROVE JobsInv'
    BY <2>1 DEF TypeInv, JobsInv
  <2>2. ASSUME NEW job \in JobType, Declared(p, u, job) PROVE JobsInv'
    BY <2>2, JobPut DEF Declared, TypeInv, Casting
  <2> QED BY <2>1, <2>2, DeclareForms
<1>3. UNCHANGED <<proto, shm, mail, boxes, inbox, told, kept, missed, nsess, now>>
  BY DEF Declare
<1> QED BY <1>1, <1>2, <1>3 DEF TypeInv

\* The user number is read through the pointer.
DeleteNamed(p, job) ==
  /\ job \in JobType /\ job.pc = "del" /\ job.target = shm[st[p].slot].uin
  /\ job.m = st[p].m /\ job.u = st[p].u /\ job.slot = st[p].slot /\ job.sid = st[p].sid
  /\ job.tx = st[p].tx /\ job.cut = st[p].cut
  /\ st' = [st EXCEPT ![p] = job]

LEMMA DeleteUinForm ==
  ASSUME TypeInv, DeleteInv, NEW p \in PPs, V7DeleteUin(p)
  PROVE  \E job \in JobType : DeleteNamed(p, job)
<1> DEFINE n == shm[st[p].slot].uin
           job == [st[p] EXCEPT !.pc = "del", !.date = All, !.target = n]
<1>1. st[p] \in JobType /\ st[p].slot \in Slots \cup {0}
  BY JobParts DEF TypeInv
<1>2. st[p].pc = "v7del" /\ st[p].slot # 0
  BY DEF V7DeleteUin, At, DeleteInv, Deleting
<1>3. n \in Uins \cup {0}
  BY <1>1, <1>2, TypeParts DEF ShmType
<1>4. st' = [st EXCEPT ![p] = job]
  BY DEF V7DeleteUin
<1> HIDE DEF n
<1>5. All \in 0 .. All /\ "del" \in Pcs
  BY DEF All, Pcs, Deleting
<1>6. job \in JobType
  BY <1>1, <1>3, <1>5 DEF JobType
<1>7. /\ job.pc = "del" /\ job.target = n /\ job.m = st[p].m /\ job.u = st[p].u
      /\ job.slot = st[p].slot /\ job.sid = st[p].sid /\ job.tx = st[p].tx /\ job.cut = st[p].cut
  BY <1>1 DEF JobType
<1> HIDE DEF job
<1>8. DeleteNamed(p, job)
  BY <1>4, <1>6, <1>7 DEF DeleteNamed, n
<1> QED BY <1>6, <1>8

\* A row is fetched, or the reading is cut short.
FetchJob(p, q, date, cut, job) ==
  /\ job \in JobType /\ job.pc = "fetch" /\ job.rest = q /\ job.date = date /\ job.cut = cut
  /\ job.m = st[p].m /\ job.u = st[p].u /\ job.slot = st[p].slot /\ job.sid = st[p].sid
  /\ job.tx = st[p].tx
  /\ st' = [st EXCEPT ![p] = job]

LEMMA FetchForms ==
  ASSUME TypeInv, NEW p \in PPs, Fetch(p)
  PROVE  LET r == Head(st[p].rest) IN
         /\ st[p].pc = "fetch" /\ st[p].rest \in Seq(RowType) /\ st[p].rest # <<>> /\ r \in RowType
         /\ \/ /\ inbox' = IF Live(st[p].sid) THEN inbox \cup {Row(r)} ELSE inbox
               /\ \E job \in JobType : FetchJob(p, Tail(st[p].rest), r.date, st[p].cut, job)
            \/ /\ inbox' = inbox
               /\ \E job \in JobType : FetchJob(p, <<>>, st[p].date, TRUE, job)
<1> DEFINE r == Head(st[p].rest)
           q == Tail(st[p].rest)
           job1 == [st[p] EXCEPT !.rest = q, !.date = r.date]
           job2 == [st[p] EXCEPT !.rest = <<>>, !.cut = TRUE]
<1>1. st[p].rest \in Seq(RowType) /\ st[p].rest # <<>> /\ st[p] \in JobType /\ st[p].pc = "fetch"
  BY JobParts DEF Fetch, At, TypeInv
<1>2. r \in RowType /\ q \in Seq(RowType) /\ <<>> \in Seq(RowType)
  BY <1>1, TailElements, EmptySeq
<1>3. r.date \in 0 .. All
  BY SMTT(30), <1>2 DEF RowType, All
<1>4. \/ /\ inbox' = IF Live(st[p].sid) THEN inbox \cup {Row(r)} ELSE inbox
         /\ st' = [st EXCEPT ![p] = job1]
      \/ inbox' = inbox /\ st' = [st EXCEPT ![p] = job2]
  BY DEF Fetch
<1>5. job1 \in JobType /\ job2 \in JobType
  <2>1. q \in Seq(RowType) \cup Seq(Uins) /\ <<>> \in Seq(RowType) \cup Seq(Uins)
    BY <1>2
  <2> HIDE DEF q, r
  <2> QED BY <1>1, <1>3, <2>1 DEF JobType
<1>6. /\ job1.pc = "fetch" /\ job1.rest = q /\ job1.date = r.date /\ job1.cut = st[p].cut
      /\ job1.m = st[p].m /\ job1.u = st[p].u /\ job1.slot = st[p].slot /\ job1.sid = st[p].sid
      /\ job1.tx = st[p].tx
  <2> HIDE DEF q, r
  <2> QED BY <1>1 DEF JobType
<1>7. /\ job2.pc = "fetch" /\ job2.rest = <<>> /\ job2.date = st[p].date /\ job2.cut = TRUE
      /\ job2.m = st[p].m /\ job2.u = st[p].u /\ job2.slot = st[p].slot /\ job2.sid = st[p].sid
      /\ job2.tx = st[p].tx
  BY <1>1 DEF JobType
<1> HIDE DEF job1, job2
<1>8. st' = [st EXCEPT ![p] = job1] => FetchJob(p, q, r.date, st[p].cut, job1)
  BY <1>5, <1>6 DEF FetchJob
<1>9. st' = [st EXCEPT ![p] = job2] => FetchJob(p, <<>>, st[p].date, TRUE, job2)
  BY <1>5, <1>7 DEF FetchJob
<1> QED BY <1>1, <1>2, <1>4, <1>5, <1>8, <1>9

LEMMA TypeReads ==
  ASSUME TypeInv, CursorInv, DeleteInv, NEW p \in PPs,
         \/ Fetch(p) \/ EndOfMessages(p)
         \/ \E u \in Uins, e \in told, job \in JobType : DeleteTaken(p, u, e, job)
         \/ V7DeleteUin(p) \/ DelMessages(p)
  PROVE  TypeInv'
<1>2. CASE Fetch(p)
  <2>1. nerr' \in 0 .. MaxErrors
    BY <1>2, TypeParts DEF Fetch, DbOk, DbError
  <2>2. inbox' \subseteq inbox \cup {Row(Head(st[p].rest))} /\ Row(Head(st[p].rest)) \in Pairs
    BY <1>2, FetchForms DEF Row, RowType, Pairs
  <2>3. inbox' \subseteq Pairs
    BY <2>2, TypeParts
  <2>4. JobsInv'
    <3>1. Tail(st[p].rest) \in Seq(RowType) /\ <<>> \in Seq(RowType)
      BY <1>2, FetchForms, TailElements, EmptySeq
    <3>2. ASSUME NEW q \in Seq(RowType), NEW d, NEW c, NEW job \in JobType, FetchJob(p, q, d, c, job)
          PROVE  JobsInv'
      BY <3>2, JobPut DEF FetchJob, TypeInv, Casting
    <3> QED BY <1>2, <3>1, <3>2, FetchForms
  <2> QED BY <1>2, <2>1, <2>3, <2>4 DEF TypeInv, Fetch
<1>3. CASE EndOfMessages(p)
  <2>1. JobsInv'
    BY <1>3, JobIdle DEF EndOfMessages, TypeInv
  <2>2. ASSUME NEW e \in told' \ told PROVE e \in EndType
    <3>1. e = [sid |-> st[p].sid, date |-> st[p].date, cut |-> st[p].cut, rows |-> st[p].tx]
      BY <1>3, <2>2 DEF EndOfMessages
    <3>2. st[p].sid \in 0 .. MaxSessions /\ st[p].date \in 0 .. All /\ st[p].cut \in BOOLEAN /\ st[p].tx \subseteq Pairs
      BY JobParts DEF TypeInv
    <3>3. st[p].date <= now /\ now \in 1 .. MaxTime
      BY <1>3, TypeParts DEF CursorInv, EndOfMessages, At
    <3>4. st[p].date \in 0 .. MaxTime
      BY <3>2, <3>3 DEF All
    <3> QED BY <3>1, <3>2, <3>4 DEF EndType
  <2> QED BY <1>3, <2>1, <2>2 DEF TypeInv, EndOfMessages
<1>4. ASSUME NEW u \in Uins, NEW e \in told, NEW job \in JobType, DeleteTaken(p, u, e, job)
      PROVE  TypeInv'
  <2>1. JobsInv'
    BY <1>4, JobPut DEF DeleteTaken, TypeInv, Casting
  <2>2. told' \subseteq told
    BY <1>4 DEF DeleteTaken
  <2> QED BY <1>4, <2>1, <2>2 DEF TypeInv, DeleteTaken
<1>5. CASE V7DeleteUin(p)
  <2>1. PICK job \in JobType : DeleteNamed(p, job)
    BY <1>5, DeleteUinForm
  <2>2. JobsInv'
    BY <2>1, JobPut DEF DeleteNamed, TypeInv, Casting
  <2> QED BY <1>5, <2>2 DEF TypeInv, V7DeleteUin
<1>6. CASE DelMessages(p)
  <2>1. JobsInv'
    BY <1>6, JobIdle DEF DelMessages, TypeInv
  <2>2. boxes' \subseteq boxes /\ nerr' \in 0 .. MaxErrors
    BY <1>6, TypeParts DEF DelMessages, DbOk, DbError
  <2> QED BY <1>6, <2>1, <2>2 DEF TypeInv, DelMessages
<1> QED BY <1>2, <1>3, <1>4, <1>5, <1>6
\* A broadcast goes on with the jobs q, the rows t and the date d.
CastJob(p, pc, q, t, d, job) ==
  /\ job \in JobType /\ job.pc = pc /\ job.rest = q /\ job.tx = t /\ job.date = d
  /\ job.m = st[p].m /\ job.u = st[p].u /\ st[p].moved \subseteq job.moved
  /\ st' = [st EXCEPT ![p] = job]

\* Whom the two queries find.
RowActive(u) == TRUE \in RowsOf(u)
Actives(p)   == {u \in Uins \ {mail[st[p].m].from} : RowActive(u)}
Absent       == {u \in Uins : RowsOf(u) = {}}

LEMMA BehindFacts ==
  /\ Behind \subseteq Uins
  /\ \A u \in Uins \ Behind : (Active(u) => RowActive(u)) /\ (~Online(u) => RowsOf(u) = {})
BY DEF Behind, Records, RowActive, Active, Online

LEMMA CastFacts ==
  ASSUME TypeInv, NEW p \in PPs, st[p].pc \in Casting
  PROVE  /\ st[p] \in JobType /\ st[p].rest \in Seq(Uins) /\ st[p].tx \in SUBSET Pairs
         /\ st[p].date \in 0 .. All /\ Casting \subseteq Pcs /\ Seq(Uins) \subseteq Seq(RowType) \cup Seq(Uins)
         /\ SetToSeq(Actives(p)) \in Seq(Uins) /\ Elements(SetToSeq(Actives(p))) = Actives(p)
         /\ SetToSeq(Absent) \in Seq(Uins) /\ Elements(SetToSeq(Absent)) = Absent
<1>1. \A S \in SUBSET Uins : SetToSeq(S) \in Seq(Uins) /\ Elements(SetToSeq(S)) = S
  BY FiniteUins, SetToSeqFacts, SeqMonotonic
<1>2. Actives(p) \in SUBSET Uins /\ Absent \in SUBSET Uins
  BY DEF Actives, Absent
<1>3. Casting \subseteq Pcs
  BY DEF Pcs
<1> QED BY <1>1, <1>2, <1>3, JobParts DEF TypeInv

LEMMA SelectOnlineForm ==
  ASSUME TypeInv, NEW p \in PPs, SelectOnline(p)
  PROVE  \/ Finish(p) /\ missed' = missed \cup {Lost(st[p].m, u, "database") : u \in Uins}
         \/ /\ UNCHANGED missed
            /\ \E job \in JobType : CastJob(p, "bsend", SetToSeq(Actives(p)), st[p].tx, st[p].date, job)
                                       /\ Behind \subseteq job.moved
<1> DEFINE q == SetToSeq(Actives(p))
           job == [st[p] EXCEPT !.pc = "bsend", !.rest = q, !.moved = @ \cup Behind]
<1>1. st[p].pc \in Casting /\ "bsend" \in Casting
  BY DEF SelectOnline, At, Casting
<1>2. CASE UNCHANGED missed /\ st' = [st EXCEPT ![p].pc = "bsend", ![p].rest = q,
                                           ![p].moved = @ \cup Behind]
  <2>1. st' = [st EXCEPT ![p] = job]
    BY <1>2
  <2>2. "bsend" \in Pcs /\ q \in Seq(RowType) \cup Seq(Uins) /\ st[p] \in JobType
    BY <1>1, CastFacts
  <2> HIDE DEF q
  <2>3. job \in JobType
    BY <2>2, BehindFacts DEF JobType
  <2>4. /\ job.pc = "bsend" /\ job.rest = q /\ job.tx = st[p].tx /\ job.date = st[p].date
        /\ job.m = st[p].m /\ job.u = st[p].u /\ job.moved = st[p].moved \cup Behind
    BY <2>2 DEF JobType
  <2> HIDE DEF job
  <2>5. CastJob(p, "bsend", q, st[p].tx, st[p].date, job)
    BY <2>1, <2>3, <2>4 DEF CastJob
  <2> QED BY <1>2, <2>3, <2>4, <2>5 DEF q
<1> QED BY <1>2 DEF SelectOnline, Actives, RowActive

LEMMA SendOnlineForm ==
  ASSUME TypeInv, NEW p \in PPs, SendOnline(p)
  PROVE  \E job \in JobType : CastJob(p, "bsend", Tail(st[p].rest), st[p].tx, st[p].date, job)
<1> DEFINE q == Tail(st[p].rest)
           job == [st[p] EXCEPT !.rest = q]
<1>1. st[p].pc = "bsend" /\ st[p].pc \in Casting /\ st[p].rest # <<>>
  BY DEF SendOnline, At, Casting
<1>2. st' = [st EXCEPT ![p] = job]
  BY DEF SendOnline
<1>3. st[p] \in JobType /\ q \in Seq(RowType) \cup Seq(Uins)
  BY <1>1, CastFacts, TailElements
<1> HIDE DEF q
<1>4. job \in JobType
  BY <1>3 DEF JobType
<1>5. /\ job.pc = "bsend" /\ job.rest = q /\ job.tx = st[p].tx /\ job.date = st[p].date
      /\ job.m = st[p].m /\ job.u = st[p].u /\ job.moved = st[p].moved
  BY <1>1, <1>3 DEF JobType
<1> HIDE DEF job
<1>6. CastJob(p, "bsend", q, st[p].tx, st[p].date, job)
  BY <1>2, <1>4, <1>5 DEF CastJob
<1> QED BY <1>4, <1>6 DEF q

LEMMA SelectOfflineForm ==
  ASSUME TypeInv, NEW p \in PPs, SelectOffline(p)
  PROVE  \/ st[p].u = 0 /\ EndBroadcast(p)
         \/ Finish(p) /\ missed' = missed \cup {Lost(st[p].m, u, "database") : u \in Unreached(p)}
         \/ /\ UNCHANGED missed
            /\ st[p].u = 1
            /\ \E job \in JobType : CastJob(p, "binsert", SetToSeq(Absent), st[p].tx, now, job)
                                       /\ Behind \subseteq job.moved
<1> DEFINE q == SetToSeq(Absent)
           job == [st[p] EXCEPT !.pc = "binsert", !.date = now, !.rest = q, !.moved = @ \cup Behind]
<1>1. st[p].pc \in Casting /\ "binsert" \in Casting
  BY DEF SelectOffline, At, Casting
<1>2. CASE UNCHANGED missed /\ st[p].u = 1 /\ st' = [st EXCEPT ![p].pc = "binsert", ![p].date = now, ![p].rest = q,
                                                        ![p].moved = @ \cup Behind]
  <2>1. st' = [st EXCEPT ![p] = job]
    BY <1>2
  <2>2. "binsert" \in Pcs /\ q \in Seq(RowType) \cup Seq(Uins) /\ st[p] \in JobType
    BY <1>1, CastFacts
  <2>3. now \in 0 .. All
    BY TypeParts DEF All
  <2> HIDE DEF q
  <2>4. job \in JobType
    BY <2>2, <2>3, BehindFacts DEF JobType
  <2>5. /\ job.pc = "binsert" /\ job.rest = q /\ job.tx = st[p].tx /\ job.date = now
        /\ job.m = st[p].m /\ job.u = st[p].u /\ job.moved = st[p].moved \cup Behind
    BY <2>2 DEF JobType
  <2> HIDE DEF job
  <2>6. CastJob(p, "binsert", q, st[p].tx, now, job)
    BY <2>1, <2>4, <2>5 DEF CastJob
  <2> QED BY <1>2, <2>4, <2>5, <2>6 DEF q
<1> QED BY <1>2 DEF SelectOffline, Absent

LEMMA InsertOfflineForm ==
  ASSUME TypeInv, WorkInv, NEW p \in PPs, InsertOffline(p)
  PROVE  \/ Finish(p) /\ missed' = missed \cup {Lost(st[p].m, u, "database") : u \in Uins}
         \/ /\ UNCHANGED missed
            /\ \E job \in JobType : CastJob(p, "binsert", Tail(st[p].rest),
                 st[p].tx \cup {<<st[p].m, Head(st[p].rest)>>}, st[p].date, job)
<1> DEFINE q == Tail(st[p].rest)
           t == st[p].tx \cup {<<st[p].m, Head(st[p].rest)>>}
           job == [st[p] EXCEPT !.rest = q, !.tx = t]
<1>1. st[p].pc = "binsert" /\ st[p].pc \in Casting /\ st[p].rest # <<>>
  BY DEF InsertOffline, At, Casting
<1>2. CASE UNCHANGED missed
           /\ st' = [st EXCEPT ![p].rest = Tail(@), ![p].tx = @ \cup {<<st[p].m, Head(st[p].rest)>>}]
  <2>1. st' = [st EXCEPT ![p] = job]
    BY <1>2
  <2>2. st[p] \in JobType /\ q \in Seq(RowType) \cup Seq(Uins) /\ Head(st[p].rest) \in Uins
    BY <1>1, CastFacts, TailElements
  <2>3. t \in SUBSET Pairs
    BY <1>1, <2>2, CastFacts, WorkPairs
  <2> HIDE DEF q, t
  <2>4. job \in JobType
    BY <2>2, <2>3 DEF JobType
  <2>5. /\ job.pc = "binsert" /\ job.rest = q /\ job.tx = t /\ job.date = st[p].date
        /\ job.m = st[p].m /\ job.u = st[p].u /\ job.moved = st[p].moved
    BY <1>1, <2>2 DEF JobType
  <2> HIDE DEF job
  <2>6. CastJob(p, "binsert", q, t, st[p].date, job)
    BY <2>1, <2>4, <2>5 DEF CastJob
  <2> QED BY <1>2, <2>4, <2>6 DEF q, t
<1> QED BY <1>2 DEF InsertOffline

LEMMA TypeCasts ==
  ASSUME TypeInv, WorkInv, CastInv, NEW p \in PPs,
         SelectOnline(p) \/ SendOnline(p) \/ SelectOffline(p) \/ InsertOffline(p) \/ CommitOffline(p)
  PROVE  TypeInv'
<1>0. JobsInv /\ st[p].pc \in Casting
  BY DEF SelectOnline, SendOnline, SelectOffline, InsertOffline, CommitOffline, At, Casting, TypeInv
<1>1. \A u \in Uins : <<st[p].m, u>> \in Pairs
  BY <1>0, WorkPairs
<1>2. ASSUME NEW pc \in Casting, NEW q \in Seq(Uins), NEW t, NEW d,
             NEW job \in JobType, CastJob(p, pc, q, t, d, job)
      PROVE  JobsInv'
  BY <1>0, <1>2, JobPut DEF CastJob, Casting
<1>3. Finish(p) => JobsInv'
  BY <1>0, JobIdle
<1>4. nerr \in 0 .. MaxErrors /\ "bsend" \in Casting /\ "binsert" \in Casting
  BY TypeParts DEF Casting
<1>5. CASE SelectOnline(p)
  <2>0. DbOk \/ DbError
    BY <1>5 DEF SelectOnline
  <2>1. nerr' \in 0 .. MaxErrors
    BY <1>4, <2>0 DEF DbOk, DbError
  <2>2. JobsInv'
    <3>1. ASSUME NEW job \in JobType, CastJob(p, "bsend", SetToSeq(Actives(p)), st[p].tx, st[p].date, job)
          PROVE  JobsInv'
      BY <1>0, <1>2, <1>4, <3>1, CastFacts
    <3> QED BY <1>3, <1>5, <3>1, SelectOnlineForm
  <2> QED BY <1>5, <2>1, <2>2 DEF TypeInv, SelectOnline
<1>6. CASE SendOnline(p)
  <2>1. st[p].rest # <<>>
    BY <1>6 DEF SendOnline
  <2>2. Head(st[p].rest) \in Uins /\ Tail(st[p].rest) \in Seq(Uins)
    BY <1>0, <2>1, CastFacts, TailElements
  <2>3. inbox' \subseteq inbox \cup {<<st[p].m, Head(st[p].rest)>>}
    BY <1>6 DEF SendOnline
  <2>4. inbox' \subseteq Pairs
    BY <1>1, <2>2, <2>3, TypeParts
  <2>5. JobsInv'
    BY <1>2, <1>4, <1>6, <2>2, SendOnlineForm
  <2> QED BY <1>6, <2>4, <2>5 DEF TypeInv, SendOnline
<1>7. CASE SelectOffline(p)
  <2>0. DbOk \/ DbError
    BY <1>7 DEF SelectOffline
  <2>1. nerr' \in 0 .. MaxErrors
    BY <1>4, <2>0 DEF DbOk, DbError
  <2>2. EndBroadcast(p) => Finish(p)
    BY DEF EndBroadcast
  <2>3. JobsInv'
    <3>1. ASSUME NEW job \in JobType, CastJob(p, "binsert", SetToSeq(Absent), st[p].tx, now, job)
          PROVE  JobsInv'
      BY <1>0, <1>2, <1>4, <3>1, CastFacts
    <3> QED BY <1>3, <1>7, <2>2, <3>1, SelectOfflineForm
  <2>4. UNCHANGED <<proto, shm, mail, boxes, inbox, told, kept, nsess, nread, now>>
    BY <1>7 DEF SelectOffline
  <2> QED BY <2>1, <2>3, <2>4 DEF TypeInv
<1>8. CASE InsertOffline(p)
  <2>1. st[p].rest # <<>>
    BY <1>8 DEF InsertOffline
  <2>2. Tail(st[p].rest) \in Seq(Uins)
    BY <1>0, <2>1, CastFacts, TailElements
  <2>3. nerr' \in 0 .. MaxErrors
    BY <1>4, <1>8 DEF InsertOffline, DbOk, DbError
  <2>4. JobsInv'
    BY <1>2, <1>3, <1>4, <1>8, <2>2, InsertOfflineForm
  <2> QED BY <1>8, <2>3, <2>4 DEF TypeInv, InsertOffline
<1>9. CASE CommitOffline(p)
  <2>1. JobsInv'
    BY <1>3, <1>9 DEF CommitOffline, EndBroadcast
  <2>2. st[p].tx \subseteq Pairs
    BY <1>0, CastFacts
  <2>3. kept' \subseteq Pairs
    BY <1>9, <2>2, TypeParts DEF CommitOffline
  <2>4. ASSUME NEW r \in Rows(st[p].tx, st[p].date) PROVE r \in RowType
    <3>1. PICK x \in st[p].tx : r = [m |-> x[1], u |-> x[2], date |-> st[p].date]
      BY DEF Rows
    <3>2. x[1] \in Ids /\ x[2] \in Uins
      BY <2>2 DEF Pairs
    <3>3. st[p].date \in 0 .. MaxTime
      <4>1. st[p].date <= now
        BY <1>9 DEF CommitOffline, At, CastInv
      <4> QED BY <1>0, <4>1, CastFacts, TypeParts DEF All
    <3> QED BY <3>1, <3>2, <3>3 DEF RowType
  <2>5. boxes' \subseteq RowType
    BY <1>9, <2>4, TypeParts DEF CommitOffline
  <2> QED BY <1>9, <2>1, <2>3, <2>5 DEF TypeInv, CommitOffline
<1> QED BY <1>5, <1>6, <1>7, <1>8, <1>9

LEMMA TypeStep ==
  ASSUME IInv, Steps
  PROVE  TypeInv'
<1>0. TypeInv /\ WorkInv /\ CursorInv /\ DeleteInv /\ CastInv
  BY DEF IInv
<1>1. CASE UNCHANGED vars
  BY <1>0, <1>1 DEF TypeInv, JobsInv, vars
<1>2. ASSUME NEW u \in Uins, Login(u) \/ Activate(u) \/ Logoff(u) PROVE TypeInv'
  BY <1>0, <1>2, TypeSessions
<1>3. CASE LateStatement \/ Tick
  <2>1. now' \in 1 .. MaxTime /\ nerr' \in 0 .. MaxErrors
    BY <1>0, <1>3, TypeParts DEF LateStatement, Tick, DbOk, DbError
  <2> QED BY <1>0, <1>3, <2>1 DEF TypeInv, JobsInv, LateStatement, Tick
<1>4. ASSUME NEW p \in PPs, StepOf(p) PROVE TypeInv'
  <2>1. CASE \E x \in MailType : (\E job \in JobType : Taken(p, x, job)) \/ Refused(p, x)
    BY <1>0, <2>1, TypeTakes
  <2>2. CASE Send(p) \/ AddMessage(p) \/ Pointed(p)
    BY <1>0, <2>2, TypeDelivers
  <2>3. CASE \E u \in Uins : Declare(p, u)
    BY <1>0, <2>3, TypeDeclare
  <2>4. CASE \/ Fetch(p) \/ EndOfMessages(p)
             \/ \E u \in Uins, e \in told, job \in JobType : DeleteTaken(p, u, e, job)
             \/ V7DeleteUin(p) \/ DelMessages(p)
    BY <1>0, <2>4, TypeReads
  <2>5. CASE SelectOnline(p) \/ SendOnline(p) \/ SelectOffline(p) \/ InsertOffline(p) \/ CommitOffline(p)
    BY <1>0, <2>5, TypeCasts
  <2> QED BY <1>4, <2>1, <2>2, <2>3, <2>4, <2>5 DEF StepOf
<1> QED BY <1>1, <1>2, <1>3, <1>4 DEF Steps

----------------------------------------------------------------------------
(* What every step leaves as it is: history grows, and a session keeps its *)
(* record until it ends.                                                   *)

Grows ==
  /\ inbox \subseteq inbox' /\ kept \subseteq kept' /\ missed \subseteq missed'
  /\ proto' = proto /\ now <= now' /\ Len(mail) <= Len(mail')
  /\ \A m \in DOMAIN mail : m \in DOMAIN mail' /\ mail'[m] = mail[m]
  /\ \A r \in boxes' : \/ r \in boxes
                       \/ Row(r) \notin kept /\ (mail'[r.m].way # "broadcast" => r.date >= now)

Sessions ==
  /\ nsess <= nsess'
  /\ \A s \in Slots : \/ shm'[s].sid = shm[s].sid /\ shm'[s].uin = shm[s].uin
                      \/ shm'[s].sid = 0 \/ shm'[s].sid > nsess

\* Only these steps change a record, and only these take a message.
LEMMA OtherSteps ==
  ASSUME NEW p \in PPs, StepOf(p)
  PROVE  UNCHANGED <<proto, shm, nsess, now>>
<1>1. CASE \E x \in MailType : (\E job \in JobType : Taken(p, x, job)) \/ Refused(p, x)
  BY <1>1 DEF Taken, Refused
<1>2. CASE Send(p) \/ AddMessage(p) \/ Pointed(p)
  BY <1>2 DEF Send, AddMessage, Pointed, WriteByPointer
<1>3. CASE \E u \in Uins : Declare(p, u)
  BY <1>3 DEF Declare
<1>4. CASE \/ Fetch(p) \/ EndOfMessages(p)
           \/ \E u \in Uins, e \in told, job \in JobType : DeleteTaken(p, u, e, job)
           \/ V7DeleteUin(p) \/ DelMessages(p)
  BY <1>4 DEF Fetch, EndOfMessages, DeleteTaken, V7DeleteUin, DelMessages
<1>5. CASE SelectOnline(p) \/ SendOnline(p)
  BY <1>5 DEF SelectOnline, SendOnline
<1>6. CASE SelectOffline(p) \/ InsertOffline(p) \/ CommitOffline(p)
  BY <1>6 DEF SelectOffline, InsertOffline, CommitOffline
<1> QED BY <1>1, <1>2, <1>3, <1>4, <1>5, <1>6 DEF StepOf

LEMMA SessionStep ==
  ASSUME TypeInv, SessionInv, Steps
  PROVE  SessionInv' /\ Sessions
<1>0. shm \in [Slots -> ShmType] /\ nsess \in 0 .. MaxSessions
  BY TypeParts
<1>a. nsess \in Nat /\ \A s \in Slots : shm[s].sid \in Nat /\ shm[s].sid <= nsess
  <2>1. \A s \in Slots : shm[s].sid \in 0 .. MaxSessions
    BY <1>0 DEF ShmType
  <2> QED BY <1>0, <2>1 DEF SessionInv
<1>1. CASE UNCHANGED <<shm, nsess>>
  BY <1>0, <1>1, <1>a DEF SessionInv, Sessions
<1>2. ASSUME NEW u \in Uins, Login(u) PROVE SessionInv' /\ Sessions
  <2>1. PICK s \in Slots : /\ shm[s].uin = 0
                           /\ shm' = [shm EXCEPT ![s] = [uin |-> u, sid |-> nsess + 1, active |-> Udp(u)]]
    BY <1>2 DEF Login, RecordOf
  <2>2. nsess' = nsess + 1 /\ \A x \in Slots : shm[x].uin # u
    BY <1>2 DEF Login, Online, RecordOf
  <2>3. shm'[s].uin = u /\ shm'[s].sid = nsess + 1 /\ u # 0
    BY <1>0, <2>1
  <2>4. \A x \in Slots \ {s} : shm'[x] = shm[x]
    BY <1>0, <2>1
  <2>5. Sessions
    <3>1. shm'[s].sid > nsess /\ nsess <= nsess'
      BY <1>a, <2>2, <2>3
    <3> QED BY <2>4, <3>1 DEF Sessions
  <2>6. SessionInv'
    BY <1>0, <1>a, <2>2, <2>3, <2>4 DEF SessionInv
  <2> QED BY <2>5, <2>6
<1>3. ASSUME NEW u \in Uins, Activate(u) PROVE SessionInv' /\ Sessions
  <2>1. \A x \in Slots : shm'[x].uin = shm[x].uin /\ shm'[x].sid = shm[x].sid
    BY <1>0, <1>3 DEF Activate, ShmType
  <2>2. nsess' = nsess
    BY <1>3 DEF Activate
  <2>a. nsess <= nsess'
    BY <1>a, <2>2
  <2>3. Sessions
    BY <2>1, <2>a DEF Sessions
  <2>4. SessionInv'
    BY <2>1, <2>2 DEF SessionInv
  <2> QED BY <2>3, <2>4
<1>4. ASSUME NEW u \in Uins, Logoff(u) PROVE SessionInv' /\ Sessions
  <2>1. SlotOf(u) \in Slots /\ shm' = [shm EXCEPT ![SlotOf(u)] = Hole] /\ nsess' = nsess
    BY <1>4, SlotOfFacts DEF Logoff
  <2>2. shm'[SlotOf(u)].uin = 0 /\ shm'[SlotOf(u)].sid = 0
    BY <1>0, <2>1 DEF Hole
  <2>3. \A x \in Slots \ {SlotOf(u)} : shm'[x] = shm[x]
    BY <1>0, <2>1
  <2>4. Sessions
    BY <1>0, <2>1, <2>2, <2>3 DEF Sessions
  <2>5. SessionInv'
    BY <1>0, <1>a, <2>1, <2>2, <2>3 DEF SessionInv
  <2> QED BY <2>4, <2>5
<1>5. (LateStatement \/ Tick \/ UNCHANGED vars) => UNCHANGED <<shm, nsess>>
  BY DEF LateStatement, Tick, vars
<1> QED BY <1>1, <1>2, <1>3, <1>4, <1>5, OtherSteps DEF Steps

LEMMA GrowStep ==
  ASSUME IInv, Steps
  PROVE  Grows
<1>0. TypeInv /\ WorkInv
  BY DEF IInv
<1>a. now \in Nat /\ Len(mail) \in Nat /\ DOMAIN mail = 1 .. Len(mail) /\ mail \in Seq(MailType)
  BY <1>0, TypeParts
<1>1. ASSUME boxes' \subseteq boxes, UNCHANGED <<proto, mail>>, now <= now', inbox \subseteq inbox',
             kept \subseteq kept', missed \subseteq missed'
      PROVE  Grows
  BY <1>a, <1>1 DEF Grows
<1>2. CASE UNCHANGED vars
  BY <1>a, <1>1, <1>2 DEF vars
<1>3. ASSUME NEW u \in Uins, Login(u) \/ Activate(u) \/ Logoff(u) PROVE Grows
  BY <1>a, <1>1, <1>3 DEF Login, Activate, Logoff
<1>4. CASE LateStatement \/ Tick
  BY <1>a, <1>1, <1>4 DEF LateStatement, Tick
<1>5. ASSUME NEW p \in PPs, StepOf(p) PROVE Grows
  <2>1. CASE \E x \in MailType : (\E job \in JobType : Taken(p, x, job)) \/ Refused(p, x)
    <3>1. PICK x \in MailType : mail' = Append(mail, x)
      BY <2>1 DEF Taken, Refused
    <3>2. /\ Len(mail') = Len(mail) + 1 /\ mail' \in Seq(MailType)
          /\ \A i \in 1 .. Len(mail) : mail'[i] = mail[i]
      BY <1>a, <3>1, AppendProperties
    <3>3. DOMAIN mail' = 1 .. Len(mail')
      BY <3>2, LenProperties
    <3>4. UNCHANGED <<proto, now, boxes, inbox, kept>> /\ missed \subseteq missed'
      BY <2>1 DEF Taken, Refused
    <3> QED BY <1>a, <3>2, <3>3, <3>4 DEF Grows
  <2>2. CASE Send(p) \/ Pointed(p)
    <3>1. inbox \subseteq inbox' /\ missed \subseteq missed' /\ UNCHANGED <<proto, mail, boxes, kept, now>>
      BY <2>2 DEF Send, Pointed, WriteByPointer
    <3> QED BY <1>a, <1>1, <3>1
  <2>3. CASE AddMessage(p)
    <3>1. <<st[p].m, st[p].u>> \notin kept /\ st[p].u \in Uins
      BY <1>0, <2>3 DEF WorkInv, AddMessage, At, Delivering
    <3>2. boxes' \subseteq boxes \cup {[m |-> st[p].m, u |-> st[p].u, date |-> now]}
      BY <2>3 DEF AddMessage, Rows
    <3>3. /\ UNCHANGED <<proto, mail, inbox, now>> /\ kept \subseteq kept' /\ missed \subseteq missed'
      BY <2>3 DEF AddMessage
    <3> QED BY <1>a, <3>1, <3>2, <3>3 DEF Grows, Row
  <2>4. CASE \E u \in Uins : Declare(p, u)
    BY <1>a, <1>1, <2>4 DEF Declare
  <2>5. CASE Fetch(p)
    <3>1. inbox \subseteq inbox' /\ UNCHANGED <<proto, mail, boxes, kept, missed, now>>
      BY <2>5 DEF Fetch
    <3> QED BY <1>a, <1>1, <3>1
  <2>6. CASE EndOfMessages(p) \/ V7DeleteUin(p)
    BY <1>a, <1>1, <2>6 DEF EndOfMessages, V7DeleteUin
  <2>7. CASE \E u \in Uins, e \in told, job \in JobType : DeleteTaken(p, u, e, job)
    BY <1>a, <1>1, <2>7 DEF DeleteTaken
  <2>8. CASE DelMessages(p)
    <3>1. boxes' \subseteq boxes /\ missed \subseteq missed' /\ UNCHANGED <<proto, mail, inbox, kept, now>>
      BY <2>8 DEF DelMessages
    <3> QED BY <1>a, <1>1, <3>1
  <2>9. CASE SelectOnline(p) \/ InsertOffline(p)
    <3>1. missed \subseteq missed' /\ UNCHANGED <<proto, mail, boxes, inbox, kept, now>>
      BY <2>9 DEF SelectOnline, InsertOffline
    <3> QED BY <1>a, <1>1, <3>1
  <2>10. CASE SendOnline(p)
    <3>1. inbox \subseteq inbox' /\ UNCHANGED <<proto, mail, boxes, kept, missed, now>>
      BY <2>10 DEF SendOnline
    <3> QED BY <1>a, <1>1, <3>1
  <2>11. CASE SelectOffline(p)
    <3>1. missed \subseteq missed' /\ UNCHANGED <<proto, mail, boxes, inbox, kept, now>>
      BY <2>11 DEF SelectOffline, EndBroadcast
    <3> QED BY <1>a, <1>1, <3>1
  <2>12. CASE CommitOffline(p)
    <3>1. /\ boxes' = boxes \cup Rows(st[p].tx, st[p].date) /\ kept \subseteq kept' /\ missed \subseteq missed'
          /\ UNCHANGED <<proto, mail, inbox, now>>
      BY <2>12 DEF CommitOffline, EndBroadcast
    <3>2. st[p].pc \in Casting /\ st[p].tx \subseteq Pairs
      BY <1>0, <2>12, CastFacts DEF CommitOffline, At, Casting
    <3>3. ASSUME NEW r \in Rows(st[p].tx, st[p].date)
          PROVE  Row(r) \notin kept /\ mail'[r.m].way = "broadcast"
      <4>1. PICK x \in st[p].tx : r = [m |-> x[1], u |-> x[2], date |-> st[p].date]
        BY DEF Rows
      <4>2. x = <<x[1], x[2]>> /\ x[1] = st[p].m
        BY <1>0, <3>2 DEF Pairs, WorkInv
      <4>3. x \notin kept /\ mail[st[p].m].way = "broadcast"
        BY <1>0, <3>2, <4>2 DEF WorkInv
      <4> QED BY <3>1, <4>1, <4>2, <4>3 DEF Row
    <3> QED BY <1>a, <3>1, <3>3 DEF Grows
  <2> QED BY <1>5, <2>1, <2>2, <2>3, <2>4, <2>5, <2>6, <2>7, <2>8, <2>9, <2>10, <2>11, <2>12 DEF StepOf
<1> QED BY <1>2, <1>3, <1>4, <1>5 DEF Steps
----------------------------------------------------------------------------
(* Handlers and messages *)

\* A job that only gets further along its own message, or ends.
LEMMA WorkKept ==
  ASSUME TypeInv, WorkInv, UNCHANGED mail, NEW p \in PPs, NEW job \in JobType,
         st' = [st EXCEPT ![p] = job],
         \/ job.m = 0 /\ job.pc \notin Delivering \cup Casting
         \/ /\ job.m = st[p].m /\ job.m # 0 /\ job.pc \in Casting /\ st[p].pc \in Casting
            /\ \A x \in job.tx : x[1] = job.m,
         \A x \in inbox' \ inbox : \A q \in PPs : st'[q].pc \in Delivering => x[1] # st'[q].m,
         \A x \in kept' \ kept : \A q \in PPs : st'[q].pc \in Delivering \cup Casting => x[1] # st'[q].m
  PROVE  WorkInv'
<1>0. st \in [PPs -> JobType] /\ st'[p] = job /\ \A q \in PPs \ {p} : st'[q] = st[q]
  BY TypeParts
<1>a. ByPointer \subseteq Delivering /\ Delivering \cap Casting = {}
  BY DEF ByPointer, Delivering, Casting
<1>1. ASSUME NEW a \in PPs
      PROVE  /\ st'[a].m \in 0 .. Len(mail')
             /\ st'[a].m # 0 <=> st'[a].pc \in Delivering \cup Casting
             /\ st'[a].m # 0 => st'[a].m = st[a].m
  BY <1>0 DEF WorkInv
<1>2. \A a, q \in PPs : st'[a].m # 0 /\ st'[q].m = st'[a].m => a = q
  BY <1>1 DEF WorkInv
<1>3. ASSUME NEW a \in PPs, st'[a].pc \in Delivering PROVE a # p /\ st'[a] = st[a]
  BY <1>0, <1>3, <1>a
<1>4. ASSUME NEW a \in PPs, st'[a].pc \in Delivering
      PROVE  /\ mail'[st'[a].m].way # "broadcast" /\ mail'[st'[a].m].to = st'[a].u /\ st'[a].u \in Uins
             /\ mail'[st'[a].m].told # "error"
             /\ \A x \in inbox' \cup kept' : x[1] # st'[a].m
  BY <1>3, <1>4 DEF WorkInv
<1>5. ASSUME NEW a \in PPs, st'[a].pc \in ByPointer
      PROVE  mail'[st'[a].m].way = "v7" /\ st'[a].slot \in Slots
  BY <1>3, <1>5, <1>a DEF WorkInv
<1>6. ASSUME NEW a \in PPs, st'[a].pc \in Casting
      PROVE  /\ mail'[st'[a].m].way = "broadcast" /\ mail'[st'[a].m].told = "nothing"
             /\ \A x \in kept' : x[1] # st'[a].m
             /\ \A x \in st'[a].tx : x[1] = st'[a].m
  <2>1. st[a].pc \in Casting /\ st'[a].m = st[a].m
    BY <1>0, <1>6, <1>a
  <2>2. \A x \in st'[a].tx : x[1] = st'[a].m
    BY <1>0, <1>6, <1>a DEF WorkInv
  <2> QED BY <1>6, <2>1, <2>2 DEF WorkInv
<1> QED BY <1>1, <1>2, <1>4, <1>5, <1>6 DEF WorkInv

LEMMA WorkSame ==
  ASSUME TypeInv, WorkInv, UNCHANGED <<inbox, kept>>, Len(mail') \in Nat, Len(mail) <= Len(mail'),
         \A q \in PPs : st[q].m # 0 => mail'[st[q].m] = mail[st[q].m],
         \A q \in PPs : /\ st'[q].pc = st[q].pc /\ st'[q].m = st[q].m /\ st'[q].u = st[q].u
                        /\ st'[q].slot = st[q].slot /\ st'[q].tx = st[q].tx
  PROVE  WorkInv'
<1>a. ByPointer \subseteq Delivering
  BY DEF ByPointer, Delivering
<1>1. ASSUME NEW q \in PPs
      PROVE  st'[q].m \in 0 .. Len(mail') /\ (st'[q].m # 0 <=> st'[q].pc \in Delivering \cup Casting)
  BY TypeParts DEF WorkInv
<1>2. \A a, q \in PPs : st'[a].m # 0 /\ st'[q].m = st'[a].m => a = q
  BY DEF WorkInv
<1>3. ASSUME NEW q \in PPs, st[q].pc \in Delivering \cup Casting PROVE mail'[st[q].m] = mail[st[q].m]
  BY <1>3 DEF WorkInv
<1>4. ASSUME NEW a \in PPs, st'[a].pc \in Delivering
      PROVE  /\ mail'[st'[a].m].way # "broadcast" /\ mail'[st'[a].m].to = st'[a].u /\ st'[a].u \in Uins
             /\ mail'[st'[a].m].told # "error"
             /\ \A x \in inbox' \cup kept' : x[1] # st'[a].m
  <2>1. st[a].pc \in Delivering /\ st'[a].m = st[a].m /\ st'[a].u = st[a].u
    BY <1>4
  <2>2. /\ mail[st[a].m].way # "broadcast" /\ mail[st[a].m].to = st[a].u /\ st[a].u \in Uins
        /\ mail[st[a].m].told # "error" /\ \A x \in inbox \cup kept : x[1] # st[a].m
    BY <2>1 DEF WorkInv
  <2>3. mail'[st[a].m] = mail[st[a].m]
    BY <1>3, <2>1
  <2> QED BY <2>1, <2>2, <2>3
<1>5. ASSUME NEW a \in PPs, st'[a].pc \in ByPointer
      PROVE  mail'[st'[a].m].way = "v7" /\ st'[a].slot \in Slots
  BY <1>3, <1>5, <1>a DEF WorkInv
<1>6. ASSUME NEW a \in PPs, st'[a].pc \in Casting
      PROVE  /\ mail'[st'[a].m].way = "broadcast" /\ mail'[st'[a].m].told = "nothing"
             /\ \A x \in kept' : x[1] # st'[a].m
             /\ \A x \in st'[a].tx : x[1] = st'[a].m
  <2>1. /\ st[a].pc \in Casting /\ st'[a].m = st[a].m /\ st'[a].tx = st[a].tx
    BY <1>6
  <2>2. /\ mail[st[a].m].way = "broadcast" /\ mail[st[a].m].told = "nothing"
        /\ \A x \in kept : x[1] # st[a].m
        /\ \A x \in st[a].tx : x[1] = st[a].m
    BY <2>1 DEF WorkInv
  <2>3. mail'[st[a].m] = mail[st[a].m]
    BY <1>3, <2>1
  <2> QED BY <2>1, <2>2, <2>3
<1> QED BY <1>1, <1>2, <1>4, <1>5, <1>6 DEF WorkInv

LEMMA WorkDone ==
  ASSUME TypeInv, WorkInv, UNCHANGED mail, NEW p \in PPs, Finish(p), st[p].m # 0,
         \A x \in (inbox' \ inbox) \cup (kept' \ kept) : x[1] = st[p].m
  PROVE  WorkInv'
<1>1. Idle \in JobType /\ Idle.m = 0 /\ Idle.pc \notin Delivering \cup Casting
  BY IdleType DEF Idle, Delivering, Casting
<1>2. st' = [st EXCEPT ![p] = Idle]
  BY DEF Finish
<1>3. \A q \in PPs : st'[q].pc \in Delivering \cup Casting => q # p /\ st'[q] = st[q]
  BY <1>1, <1>2, TypeParts
<1>4. \A q \in PPs : st'[q].pc \in Delivering \cup Casting => st'[q].m # st[p].m
  BY <1>3 DEF WorkInv
<1> HIDE DEF Idle
<1> QED BY <1>1, <1>2, <1>4, WorkKept

LEMMA WorkTaken ==
  ASSUME TypeInv, WorkInv, MailInv, NEW p \in PPs, NEW x \in MailType, NEW job \in JobType,
         Taken(p, x, job)
  PROVE  WorkInv'
<1>0. st \in [PPs -> JobType] /\ st'[p] = job /\ \A q \in PPs \ {p} : st'[q] = st[q]
  BY TypeParts DEF Taken
<1>1. /\ Len(mail') = Len(mail) + 1 /\ \A i \in 1 .. Len(mail) : mail'[i] = mail[i]
      /\ mail'[Len(mail) + 1] = x /\ Len(mail) \in Nat /\ DOMAIN mail = 1 .. Len(mail)
  BY TypeParts, AppendProperties DEF Taken
<1>2. \A q \in PPs \ {p} : st[q].m \in 0 .. Len(mail) /\ (st[q].m # 0 => mail'[st[q].m] = mail[st[q].m])
  BY <1>1 DEF WorkInv
<1>3. job.m = Len(mail) + 1 /\ job.m # 0 /\ job.pc \in Delivering \cup {"bselect"} /\ job.u = x.to
  BY <1>1 DEF Taken
<1>4. \A y \in inbox \cup kept : y[1] \in 1 .. Len(mail) /\ y[1] # job.m
  BY <1>1, <1>3 DEF MailInv
<1>5. UNCHANGED <<inbox, kept>>
  BY DEF Taken
<1>a. ByPointer \subseteq Delivering /\ "bselect" \in Casting /\ Delivering \cap Casting = {}
  BY DEF ByPointer, Delivering, Casting
<1>6. ASSUME NEW a \in PPs
      PROVE  /\ st'[a].m \in 0 .. Len(mail')
             /\ st'[a].m # 0 <=> st'[a].pc \in Delivering \cup Casting
  <2>1. CASE a = p
    BY <1>0, <1>1, <1>3, <1>a, <2>1
  <2>2. CASE a # p
    BY <1>0, <1>1, <2>2 DEF WorkInv
  <2> QED BY <2>1, <2>2
<1>7. \A a, q \in PPs : st'[a].m # 0 /\ st'[q].m = st'[a].m => a = q
  BY <1>0, <1>1, <1>2, <1>3 DEF WorkInv
<1>8. ASSUME NEW a \in PPs, st'[a].pc \in Delivering
      PROVE  /\ mail'[st'[a].m].way # "broadcast" /\ mail'[st'[a].m].to = st'[a].u /\ st'[a].u \in Uins
             /\ mail'[st'[a].m].told # "error"
             /\ \A y \in inbox' \cup kept' : y[1] # st'[a].m
  <2>1. CASE a = p
    <3>1. job.pc \in Delivering
      BY <1>0, <1>8, <2>1
    <3>2. x.way # "broadcast" /\ x.told # "error" /\ x.to \in Uins
      BY <3>1 DEF Taken
    <3> QED BY <1>0, <1>1, <1>3, <1>4, <1>5, <2>1, <3>2
  <2>2. CASE a # p
    <3>1. st[a].pc \in Delivering /\ st[a].m # 0 /\ st'[a] = st[a]
      BY <1>0, <1>8, <2>2 DEF WorkInv
    <3>2. mail'[st[a].m] = mail[st[a].m]
      BY <1>2, <2>2, <3>1
    <3> QED BY <1>5, <3>1, <3>2 DEF WorkInv
  <2> QED BY <2>1, <2>2
<1>9. ASSUME NEW a \in PPs, st'[a].pc \in ByPointer
      PROVE  mail'[st'[a].m].way = "v7" /\ st'[a].slot \in Slots
  <2>1. CASE a = p
    <3>1. x.way = "v7" /\ job.slot \in Slots
      BY <1>0, <1>9, <2>1 DEF Taken
    <3> QED BY <1>0, <1>1, <1>3, <2>1, <3>1
  <2>2. CASE a # p
    <3>1. st[a].pc \in ByPointer /\ st[a].m # 0 /\ st'[a] = st[a]
      BY <1>0, <1>9, <1>a, <2>2 DEF WorkInv
    <3> QED BY <1>2, <2>2, <3>1 DEF WorkInv
  <2> QED BY <2>1, <2>2
<1>10. ASSUME NEW a \in PPs, st'[a].pc \in Casting
       PROVE  /\ mail'[st'[a].m].way = "broadcast" /\ mail'[st'[a].m].told = "nothing"
              /\ \A y \in kept' : y[1] # st'[a].m
              /\ \A y \in st'[a].tx : y[1] = st'[a].m
  <2>1. CASE a = p
    <3>1. job.pc = "bselect"
      BY <1>0, <1>3, <1>10, <1>a, <2>1
    <3>2. x.way = "broadcast" /\ x.told = "nothing" /\ job.tx = {}
      BY <3>1 DEF Taken
    <3> QED BY <1>0, <1>1, <1>3, <1>4, <1>5, <2>1, <3>2
  <2>2. CASE a # p
    <3>1. st[a].pc \in Casting /\ st[a].m # 0 /\ st'[a] = st[a]
      BY <1>0, <1>10, <2>2 DEF WorkInv
    <3>2. mail'[st[a].m] = mail[st[a].m]
      BY <1>2, <2>2, <3>1
    <3> QED BY <1>5, <3>1, <3>2 DEF WorkInv
  <2> QED BY <2>1, <2>2
<1> QED BY <1>6, <1>7, <1>8, <1>9, <1>10 DEF WorkInv
\* Everything but the moves a broadcast takes notice of.
Same(p) ==
  /\ st'[p].pc = st[p].pc /\ st'[p].m = st[p].m /\ st'[p].u = st[p].u /\ st'[p].slot = st[p].slot
  /\ st'[p].sid = st[p].sid /\ st'[p].rest = st[p].rest /\ st'[p].date = st[p].date
  /\ st'[p].cut = st[p].cut /\ st'[p].tx = st[p].tx /\ st'[p].target = st[p].target
  /\ st[p].moved \subseteq st'[p].moved

LEMMA MovesSame ==
  ASSUME JobsInv, NEW u \in Uins, st' = Moves(u)
  PROVE  \A p \in PPs : Same(p)
<1> SUFFICES ASSUME NEW p \in PPs PROVE Same(p)
  OBVIOUS
<1>1. CASE st'[p] = st[p]
  BY <1>1 DEF Same
<1>2. CASE st'[p] = [st[p] EXCEPT !.moved = @ \cup {u}]
  <2>1. st[p] \in JobType
    BY DEF JobsInv
  <2> QED BY <1>2, <2>1 DEF JobType, Same
<1> QED BY <1>1, <1>2, JobsMove

LEMMA SessionsSame ==
  ASSUME TypeInv, NEW u \in Uins, Login(u) \/ Activate(u) \/ Logoff(u)
  PROVE  /\ \A p \in PPs : Same(p)
         /\ UNCHANGED <<proto, mail, boxes, inbox, kept, missed, nread, now, nerr>>
         /\ told' \subseteq told
<1>1. JobsInv /\ st' = Moves(u)
  BY DEF Login, Activate, Logoff, TypeInv
<1> QED BY <1>1, MovesSame DEF Login, Activate, Logoff

LEMMA WorkStep ==
  ASSUME IInv, Steps
  PROVE  WorkInv'
<1>0. TypeInv /\ WorkInv /\ MailInv /\ DeleteInv /\ CursorInv
  BY DEF IInv
<1>a. \A p \in PPs : st[p].pc \notin Delivering \cup Casting => st[p].m = 0
  BY <1>0 DEF WorkInv
<1>1. CASE UNCHANGED vars \/ LateStatement \/ Tick
  BY SMTT(30), <1>0, <1>1 DEF WorkInv, vars, LateStatement, Tick
<1>2. ASSUME NEW u \in Uins, Login(u) \/ Activate(u) \/ Logoff(u) PROVE WorkInv'
  <2>1. /\ UNCHANGED <<mail, inbox, kept>>
        /\ \A p \in PPs : /\ st'[p].pc = st[p].pc /\ st'[p].m = st[p].m /\ st'[p].u = st[p].u
                          /\ st'[p].slot = st[p].slot /\ st'[p].tx = st[p].tx
    BY <1>0, <1>2, SessionsSame DEF Same
  <2>2. Len(mail') \in Nat /\ Len(mail) <= Len(mail')
    BY <1>0, <2>1, TypeParts
  <2> QED BY <1>0, <2>1, <2>2, WorkSame
<1>3. ASSUME NEW p \in PPs, StepOf(p) PROVE WorkInv'
  <2>1. ASSUME NEW x \in MailType, NEW job \in JobType, Taken(p, x, job) PROVE WorkInv'
    BY <1>0, <2>1, WorkTaken
  <2>2. ASSUME NEW x \in MailType, Refused(p, x) PROVE WorkInv'
    <3>1. /\ Len(mail') = Len(mail) + 1 /\ \A i \in 1 .. Len(mail) : mail'[i] = mail[i]
          /\ Len(mail) \in Nat
      BY <1>0, <2>2, TypeParts, AppendProperties DEF Refused
    <3>2. \A q \in PPs : st[q].m # 0 => mail'[st[q].m] = mail[st[q].m]
      BY <1>0, <3>1 DEF WorkInv
    <3>3. UNCHANGED <<st, inbox, kept>>
      BY <2>2 DEF Refused
    <3>4. Len(mail') \in Nat /\ Len(mail) <= Len(mail')
      BY <3>1
    <3> QED BY <1>0, <3>2, <3>3, <3>4, WorkSame
  <2>3. CASE Send(p) \/ AddMessage(p) \/ Pointed(p)
    <3>1. Finish(p) /\ UNCHANGED mail /\ st[p].pc \in Delivering
      BY <2>3 DEF Send, AddMessage, Pointed, WriteByPointer, At, Delivering, ByPointer
    <3>2. st[p].m # 0
      BY <1>0, <3>1 DEF WorkInv
    <3>3. \A x \in (inbox' \ inbox) \cup (kept' \ kept) : x[1] = st[p].m
      BY <2>3 DEF Send, AddMessage, Pointed, WriteByPointer
    <3> QED BY <1>0, <3>1, <3>2, <3>3, WorkDone
  <2>4. ASSUME NEW u \in Uins, Declare(p, u) PROVE WorkInv'
    <3>1. UNCHANGED <<mail, inbox, kept>>
      BY <2>4 DEF Declare
    <3>2. ASSUME UNCHANGED st PROVE WorkInv'
      BY <1>0, <3>1, <3>2 DEF WorkInv
    <3>3. ASSUME NEW job \in JobType, Declared(p, u, job) PROVE WorkInv'
      <4>1. job.m = 0 /\ job.pc \notin Delivering \cup Casting /\ st' = [st EXCEPT ![p] = job]
        BY <3>3 DEF Declared, Delivering, Casting
      <4> QED BY <1>0, <3>1, <4>1, WorkKept
    <3> QED BY <1>0, <2>4, <3>2, <3>3, DeclareForms
  <2>5. CASE Fetch(p)
    <3>1. st[p].pc = "fetch" /\ st[p].rest # <<>> /\ st[p] \in JobType /\ UNCHANGED <<mail, kept>>
      BY <1>0, <2>5, JobParts DEF Fetch, At, TypeInv
    <3>2. PICK job \in JobType : job.m = st[p].m /\ job.pc = "fetch" /\ st' = [st EXCEPT ![p] = job]
      BY <1>0, <2>5, FetchForms DEF FetchJob
    <3>3. \A x \in inbox' \ inbox : x \in kept
      <4>1. Head(st[p].rest) \in Elements(st[p].rest)
        BY <1>0, <3>1, JobParts, TailElements DEF TypeInv
      <4>2. Row(Head(st[p].rest)) \in kept
        BY <1>0, <3>1, <4>1 DEF MailInv
      <4> QED BY <2>5, <4>2 DEF Fetch
    <3>4. \A q \in PPs : st'[q].pc \in Delivering => st'[q] = st[q]
      BY <1>0, <3>2, TypeParts DEF Delivering
    <3>5. job.m = 0 /\ job.pc \notin Delivering \cup Casting
      BY <1>a, <3>1, <3>2 DEF Delivering, Casting
    <3>6. \A x \in inbox' \ inbox : \A q \in PPs : st'[q].pc \in Delivering => x[1] # st'[q].m
      BY <1>0, <3>3, <3>4 DEF WorkInv
    <3> QED BY <1>0, <3>1, <3>2, <3>5, <3>6, WorkKept
  <2>6. CASE EndOfMessages(p) \/ DelMessages(p)
    <3>1. st' = [st EXCEPT ![p] = Idle] /\ UNCHANGED <<mail, inbox, kept>>
      BY <2>6 DEF EndOfMessages, DelMessages, Finish
    <3>2. Idle \in JobType /\ Idle.m = 0 /\ Idle.pc \notin Delivering \cup Casting
      BY IdleType DEF Idle, Delivering, Casting
    <3> HIDE DEF Idle
    <3> QED BY <1>0, <3>1, <3>2, WorkKept
  <2>7. ASSUME NEW u \in Uins, NEW e \in told, NEW job \in JobType, DeleteTaken(p, u, e, job)
        PROVE  WorkInv'
    <3>1. job.m = 0 /\ job.pc \notin Delivering \cup Casting /\ st' = [st EXCEPT ![p] = job]
          /\ UNCHANGED <<mail, inbox, kept>>
      BY <2>7 DEF DeleteTaken, Delivering, Casting
    <3> QED BY <1>0, <3>1, WorkKept
  <2>8. CASE V7DeleteUin(p)
    <3>1. PICK job \in JobType : DeleteNamed(p, job)
      BY <1>0, <2>8, DeleteUinForm
    <3>2. UNCHANGED <<mail, inbox, kept>> /\ st[p].pc = "v7del"
      BY <2>8 DEF V7DeleteUin, At
    <3>3. job.m = 0 /\ job.pc \notin Delivering \cup Casting /\ st' = [st EXCEPT ![p] = job]
      BY <1>a, <3>1, <3>2 DEF DeleteNamed, Delivering, Casting
    <3> QED BY <1>0, <3>2, <3>3, WorkKept
  <2>9. ASSUME st[p].pc \in Casting, UNCHANGED <<mail, kept>>,
               NEW pc \in Casting, NEW q, NEW t, NEW d, NEW job \in JobType,
               CastJob(p, pc, q, t, d, job), \A x \in t : x[1] = st[p].m,
               \A x \in inbox' \ inbox : x[1] = st[p].m
        PROVE  WorkInv'
    <3>1. st[p].m # 0 /\ job.m = st[p].m /\ job.pc \in Casting /\ st' = [st EXCEPT ![p] = job] /\ job.tx = t
      BY <1>0, <2>9 DEF WorkInv, CastJob
    <3>2. \A x \in job.tx : x[1] = job.m
      BY <2>9, <3>1
    <3>3. \A a \in PPs : st'[a].pc \in Delivering => a # p /\ st'[a] = st[a]
      BY <1>0, <3>1, TypeParts DEF Delivering, Casting
    <3>4. \A a \in PPs : st'[a].pc \in Delivering => st'[a].m # st[p].m
      BY <1>0, <3>1, <3>3 DEF WorkInv
    <3>5. \A x \in inbox' \ inbox : \A a \in PPs : st'[a].pc \in Delivering => x[1] # st'[a].m
      BY <2>9, <3>4
    <3> QED BY <1>0, <2>9, <3>1, <3>2, <3>5, WorkKept
  <2>10. ASSUME st[p].pc \in Casting, UNCHANGED <<mail, inbox>>, Finish(p),
                \A x \in kept' \ kept : x[1] = st[p].m
         PROVE  WorkInv'
    BY <1>0, <2>10, WorkDone DEF WorkInv
  <2>11. st[p].pc \in Casting => \A x \in st[p].tx : x[1] = st[p].m
    BY <1>0 DEF WorkInv
  <2>b. "bsend" \in Casting /\ "binsert" \in Casting
    BY DEF Casting
  <2>12. CASE SelectOnline(p)
    <3>1. st[p].pc \in Casting /\ UNCHANGED <<mail, kept, inbox>>
      BY <2>12 DEF SelectOnline, At, Casting
    <3>2. CASE Finish(p)
      BY <2>10, <3>1, <3>2
    <3>3. ASSUME NEW job \in JobType, CastJob(p, "bsend", SetToSeq(Actives(p)), st[p].tx, st[p].date, job)
          PROVE  WorkInv'
      BY <2>9, <2>11, <2>b, <3>1, <3>3
    <3> QED BY <1>0, <2>12, <3>2, <3>3, SelectOnlineForm
  <2>13. CASE SendOnline(p)
    <3>1. st[p].pc \in Casting /\ UNCHANGED <<mail, kept>> /\ \A x \in inbox' \ inbox : x[1] = st[p].m
      BY <2>13 DEF SendOnline, At, Casting
    <3>2. PICK job \in JobType : CastJob(p, "bsend", Tail(st[p].rest), st[p].tx, st[p].date, job)
      BY <1>0, <2>13, SendOnlineForm
    <3> QED BY <2>9, <2>11, <2>b, <3>1, <3>2
  <2>14. CASE SelectOffline(p)
    <3>1. st[p].pc \in Casting /\ UNCHANGED <<mail, kept, inbox>>
      BY <2>14 DEF SelectOffline, At, Casting
    <3>2. CASE Finish(p)
      BY <2>10, <3>1, <3>2
    <3>3. ASSUME NEW job \in JobType, CastJob(p, "binsert", SetToSeq(Absent), st[p].tx, now, job)
          PROVE  WorkInv'
      BY <2>9, <2>11, <2>b, <3>1, <3>3
    <3> QED BY <1>0, <2>14, <3>2, <3>3, SelectOfflineForm DEF EndBroadcast
  <2>15. CASE InsertOffline(p)
    <3>1. st[p].pc \in Casting /\ UNCHANGED <<mail, kept, inbox>>
      BY <2>15 DEF InsertOffline, At, Casting
    <3>2. CASE Finish(p)
      BY <2>10, <3>1, <3>2
    <3>3. ASSUME NEW job \in JobType,
                 CastJob(p, "binsert", Tail(st[p].rest),
                         st[p].tx \cup {<<st[p].m, Head(st[p].rest)>>}, st[p].date, job)
          PROVE  WorkInv'
      <4>1. \A x \in st[p].tx \cup {<<st[p].m, Head(st[p].rest)>>} : x[1] = st[p].m
        BY <2>11, <3>1
      <4> QED BY <2>9, <2>b, <3>1, <3>3, <4>1
    <3> QED BY <1>0, <2>15, <3>2, <3>3, InsertOfflineForm
  <2>16. CASE CommitOffline(p)
    <3>1. st[p].pc \in Casting /\ UNCHANGED <<mail, inbox>> /\ kept' = kept \cup st[p].tx /\ Finish(p)
      BY <2>16 DEF CommitOffline, At, Casting, EndBroadcast
    <3> QED BY <2>10, <2>11, <3>1
  <2> QED BY <1>3, <2>1, <2>2, <2>3, <2>4, <2>5, <2>6, <2>7, <2>8, <2>12, <2>13, <2>14, <2>15, <2>16 DEF StepOf
<1> QED BY <1>1, <1>2, <1>3 DEF Steps
----------------------------------------------------------------------------
(* What is new after a step *)

NewInbox ==
  \A x \in inbox' \ inbox :
    \/ x \in kept
    \/ \E p \in PPs : st[p].pc \in Casting /\ x[1] = st[p].m
    \/ \E p \in PPs : /\ st[p].pc \in Delivering /\ x[1] = st[p].m
                      /\ \/ x[2] = st[p].u
                         \/ /\ st[p].pc \in ByPointer /\ kept' = kept
                            /\ Lost(st[p].m, st[p].u, "reused") \in missed'

NewKept ==
  \A x \in kept' \ kept :
    \E p \in PPs : \/ st[p].pc \in Delivering /\ x = <<st[p].m, st[p].u>>
                   \/ st[p].pc \in Casting /\ x \in st[p].tx

NewMissed ==
  \A y \in missed' \ missed :
    /\ y.m \in DOMAIN mail' /\ y.why \in Causes
    /\ y.why = "refused" => y.m \notin DOMAIN mail /\ mail'[y.m].told # "ack"
    /\ y.why \in {"late", "cut"} /\ proto[y.u] = "v3" => y.tie \/ mail'[y.m].way = "broadcast"

LEMMA NewInboxStep ==
  ASSUME IInv, Steps
  PROVE  NewInbox
<1>0. TypeInv /\ WorkInv /\ MailInv
  BY DEF IInv
<1>1. inbox' \subseteq inbox => NewInbox
  BY DEF NewInbox
<1>2. CASE UNCHANGED vars \/ LateStatement \/ Tick
  BY <1>1, <1>2 DEF vars, LateStatement, Tick
<1>3. ASSUME NEW u \in Uins, Login(u) \/ Activate(u) \/ Logoff(u) PROVE NewInbox
  BY <1>0, <1>1, <1>3, SessionsSame
<1>4. ASSUME NEW p \in PPs, StepOf(p) PROVE NewInbox
  <2>1. CASE \E x \in MailType : (\E job \in JobType : Taken(p, x, job)) \/ Refused(p, x)
    BY <1>1, <2>1 DEF Taken, Refused
  <2>2. CASE Send(p)
    <3>1. st[p].pc \in Delivering /\ inbox' \subseteq inbox \cup {<<st[p].m, st[p].u>>}
      BY <2>2 DEF Send, At, Delivering
    <3> QED BY <3>1 DEF NewInbox
  <2>3. CASE Pointed(p)
    <3> DEFINE holder == shm[st[p].slot].uin
    <3>1. /\ st[p].pc \in Delivering /\ st[p].pc \in ByPointer /\ kept' = kept
          /\ inbox' \subseteq inbox \cup {<<st[p].m, holder>>}
          /\ holder = 0 => inbox' = inbox
      BY <2>3 DEF Pointed, WriteByPointer, ByPointer, Delivering
    <3>2. holder # st[p].u /\ holder # 0 => Lost(st[p].m, st[p].u, "reused") \in missed'
      BY <2>3 DEF Pointed, WriteByPointer
    <3> QED BY <3>1, <3>2 DEF NewInbox
  <2>4. CASE AddMessage(p) \/ EndOfMessages(p) \/ V7DeleteUin(p) \/ DelMessages(p)
    BY <1>1, <2>4 DEF AddMessage, EndOfMessages, V7DeleteUin, DelMessages
  <2>5. CASE \E u \in Uins : Declare(p, u)
    BY <1>1, <2>5 DEF Declare
  <2>6. CASE Fetch(p)
    <3>a. /\ st[p].pc = "fetch" /\ st[p].rest \in Seq(RowType) /\ st[p].rest # <<>>
          /\ inbox' \subseteq inbox \cup {Row(Head(st[p].rest))}
      BY <1>0, <2>6, FetchForms
    <3>1. Head(st[p].rest) \in Elements(st[p].rest)
      BY <3>a, TailElements
    <3>2. Row(Head(st[p].rest)) \in kept
      BY <1>0, <3>a, <3>1 DEF MailInv
    <3> QED BY <3>a, <3>2 DEF NewInbox
  <2>7. CASE \E u \in Uins, e \in told, job \in JobType : DeleteTaken(p, u, e, job)
    BY <1>1, <2>7 DEF DeleteTaken
  <2>8. CASE SelectOnline(p) \/ SelectOffline(p) \/ InsertOffline(p) \/ CommitOffline(p)
    BY <1>1, <2>8 DEF SelectOnline, SelectOffline, InsertOffline, CommitOffline
  <2>9. CASE SendOnline(p)
    <3>1. st[p].pc \in Casting /\ \A x \in inbox' \ inbox : x[1] = st[p].m
      BY <2>9 DEF SendOnline, At, Casting
    <3> QED BY <3>1 DEF NewInbox
  <2> QED BY <1>4, <2>1, <2>2, <2>3, <2>4, <2>5, <2>6, <2>7, <2>8, <2>9 DEF StepOf
<1> QED BY <1>2, <1>3, <1>4 DEF Steps

LEMMA NewKeptStep ==
  ASSUME TypeInv, Steps
  PROVE  NewKept
<1>1. kept' \subseteq kept => NewKept
  BY DEF NewKept
<1>2. CASE UNCHANGED vars \/ LateStatement \/ Tick
  BY <1>1, <1>2 DEF vars, LateStatement, Tick
<1>3. ASSUME NEW u \in Uins, Login(u) \/ Activate(u) \/ Logoff(u) PROVE NewKept
  BY <1>1, <1>3, SessionsSame
<1>4. ASSUME NEW p \in PPs, StepOf(p) PROVE NewKept
  <2>1. CASE \E x \in MailType : (\E job \in JobType : Taken(p, x, job)) \/ Refused(p, x)
    BY <1>1, <2>1 DEF Taken, Refused
  <2>2. CASE Send(p) \/ Pointed(p) \/ EndOfMessages(p) \/ V7DeleteUin(p) \/ DelMessages(p)
    BY <1>1, <2>2 DEF Send, Pointed, WriteByPointer, EndOfMessages, V7DeleteUin, DelMessages
  <2>3. CASE AddMessage(p)
    <3>1. st[p].pc \in Delivering /\ kept' \subseteq kept \cup {<<st[p].m, st[p].u>>}
      BY <2>3 DEF AddMessage, At, Delivering
    <3> QED BY <3>1 DEF NewKept
  <2>4. CASE (\E u \in Uins : Declare(p, u)) \/ Fetch(p)
    BY <1>1, <2>4 DEF Declare, Fetch
  <2>5. CASE \E u \in Uins, e \in told, job \in JobType : DeleteTaken(p, u, e, job)
    BY <1>1, <2>5 DEF DeleteTaken
  <2>6. CASE SelectOnline(p) \/ SendOnline(p) \/ SelectOffline(p) \/ InsertOffline(p)
    BY <1>1, <2>6 DEF SelectOnline, SendOnline, SelectOffline, InsertOffline
  <2>7. CASE CommitOffline(p)
    <3>1. st[p].pc \in Casting /\ kept' = kept \cup st[p].tx
      BY <2>7 DEF CommitOffline, At, Casting
    <3> QED BY <3>1 DEF NewKept
  <2> QED BY <1>4, <2>1, <2>2, <2>3, <2>4, <2>5, <2>6, <2>7 DEF StepOf
<1> QED BY <1>2, <1>3, <1>4 DEF Steps

\* Whom a broadcast that ends did not reach moved meanwhile, or is not active.
LEMMA UnreachedWhy ==
  ASSUME CastInv, NEW p \in PPs, st[p].pc \in {"bsend", "binsert"}, st[p].rest = <<>>,
         st[p].pc = "bsend" => st[p].u = 0, NEW u \in Unreached(p)
  PROVE  WhyUnreached(p, u) \in {"moved", "inactive"}
<1>1. CASE u \in st[p].moved
  BY <1>1 DEF WhyUnreached
<1>2. CASE Online(u) /\ ~Active(u)
  BY <1>2 DEF WhyUnreached
<1>3. CASE u \notin st[p].moved /\ ~(Online(u) /\ ~Active(u))
  <2>1. /\ u \in Uins \ (st[p].moved \cup {mail[st[p].m].from})
        /\ <<st[p].m, u>> \notin inbox /\ <<st[p].m, u>> \notin st[p].tx
        /\ st[p].u = 0 => Online(u)
    BY <1>3 DEF Unreached, Addressee
  <2>2. Elements(st[p].rest) = {}
    BY NoElements
  <2>3. ~Active(u)
    BY <2>1, <2>2 DEF CastInv
  <2>4. ~Online(u)
    BY <1>3, <2>3
  <2>5. st[p].pc = "binsert"
    BY <2>1, <2>4
  <2>6. FALSE
    BY <2>1, <2>2, <2>4, <2>5 DEF CastInv
  <2> QED BY <2>6
<1> QED BY <1>1, <1>2, <1>3

\* What a delete removes unseen came later than what was read, or the reading was
\* cut short, or the pointer came to another record.
LEMMA UnreadWhy ==
  ASSUME TypeInv, DeleteInv, NEW p \in PPs, st[p].pc = "del",
         NEW r \in Deleted(p), Row(r) \notin inbox
  PROVE  /\ WhyUnread(p, r) \in {"late", "cut", "stray"}
         /\ WhyUnread(p, r) \in {"late", "cut"} /\ proto[r.u] = "v3" => r.date = st[p].date \/ ~Letter(r)
<1>1. r \in RowType /\ r \in boxes /\ r.u = st[p].target /\ r.date <= st[p].date
  BY TypeParts DEF Deleted
<1>a. st[p].date \in 0 .. All /\ st[p].cut \in BOOLEAN /\ r.date \in 0 .. MaxTime
  BY <1>1, JobParts DEF TypeInv, RowType
<1>2. CASE r.u # st[p].u
  <2>1. st[p].slot # 0
    BY <1>1, <1>2 DEF DeleteInv, Deleting
  <2> QED BY <1>2, <2>1 DEF WhyUnread
<1>3. CASE r.u = st[p].u
  <2>1. r \in Unseen(st[p].u)
    BY <1>1, <1>3 DEF Unseen
  <2>2. CASE Row(r) \in st[p].tx
    <3>1. st[p].cut = TRUE
      BY <1>a, <2>1, <2>2 DEF DeleteInv, Deleting
    <3>2. WhyUnread(p, r) = "cut"
      BY <1>3, <2>2, <3>1 DEF WhyUnread
    <3>3. proto[r.u] = "v3" => r.date >= st[p].date
      BY <1>3, <2>1, <2>2 DEF DeleteInv, Deleting, After
    <3> QED BY <1>1, <1>a, <3>2, <3>3
  <2>3. CASE Row(r) \notin st[p].tx
    <3>1. WhyUnread(p, r) = "late"
      BY <1>3, <2>3 DEF WhyUnread
    <3>2. proto[r.u] = "v3" /\ Letter(r) => r.date >= st[p].date
      BY <1>3, <2>1, <2>3 DEF DeleteInv, Deleting, After
    <3> QED BY <1>1, <1>a, <3>1, <3>2
  <2> QED BY <2>2, <2>3
<1> QED BY <1>2, <1>3

LEMMA NewMissedStep ==
  ASSUME IInv, Steps
  PROVE  NewMissed
<1>0. TypeInv /\ WorkInv /\ MailInv /\ DeleteInv /\ CastInv
  BY DEF IInv
<1>1. missed' \subseteq missed => NewMissed
  BY DEF NewMissed
<1>2. CASE UNCHANGED vars \/ LateStatement \/ Tick
  BY <1>1, <1>2 DEF vars, LateStatement, Tick
<1>3. ASSUME NEW u \in Uins, Login(u) \/ Activate(u) \/ Logoff(u) PROVE NewMissed
  BY <1>0, <1>1, <1>3, SessionsSame
<1>4. ASSUME NEW p \in PPs, StepOf(p) PROVE NewMissed
  <2>a. ASSUME UNCHANGED mail, st[p].pc \in Delivering \cup Casting,
               \A y \in missed' \ missed : y.m = st[p].m /\ y.why \in Causes \ {"refused", "late", "cut"}
        PROVE  NewMissed
    <3>1. st[p].m \in DOMAIN mail
      BY <1>0, <2>a, WorkPairs
    <3> QED BY <2>a, <3>1 DEF NewMissed
  <2>b. \A u : Lost(st[p].m, u, "database").m = st[p].m /\ Lost(st[p].m, u, "database").why = "database"
    BY DEF Lost
  <2>c. "database" \in Causes \ {"refused", "late", "cut"}
    BY DEF Causes
  <2>1. ASSUME NEW x \in MailType, NEW job \in JobType, Taken(p, x, job) PROVE NewMissed
    BY <1>1, <2>1 DEF Taken
  <2>2. ASSUME NEW x \in MailType, Refused(p, x) PROVE NewMissed
    <3>1. missed' \subseteq missed \cup {Lost(Len(mail) + 1, x.to, "refused")} /\ x.told # "ack"
      BY <2>2 DEF Refused
    <3>2. /\ Len(mail) + 1 \in DOMAIN mail' /\ Len(mail) + 1 \notin DOMAIN mail
          /\ mail'[Len(mail) + 1] = x
      <4>1. /\ mail' = Append(mail, x) /\ mail \in Seq(MailType) /\ Len(mail) \in Nat
            /\ DOMAIN mail = 1 .. Len(mail)
        BY <1>0, <2>2, TypeParts DEF Refused
      <4>2. mail' \in Seq(MailType) /\ Len(mail') = Len(mail) + 1 /\ mail'[Len(mail) + 1] = x
        BY <4>1, AppendProperties
      <4>3. DOMAIN mail' = 1 .. Len(mail')
        BY <4>2, LenProperties
      <4> QED BY <4>1, <4>2, <4>3
    <3>3. Lost(Len(mail) + 1, x.to, "refused").m = Len(mail) + 1 /\ Lost(Len(mail) + 1, x.to, "refused").why = "refused"
      BY DEF Lost
    <3> QED BY <3>1, <3>2, <3>3 DEF NewMissed, Causes
  <2>3. CASE Send(p) \/ AddMessage(p) \/ Pointed(p)
    <3>1. UNCHANGED mail /\ st[p].pc \in Delivering \cup Casting
      BY <2>3 DEF Send, AddMessage, Pointed, WriteByPointer, At, Delivering, ByPointer
    <3>2. \E why \in {"gone", "reused", "database"} : missed' \subseteq missed \cup {Lost(st[p].m, st[p].u, why)}
      BY <2>3 DEF Send, AddMessage, Pointed, WriteByPointer
    <3> QED BY <2>a, <3>1, <3>2 DEF Lost, Causes
  <2>4. CASE (\E u \in Uins : Declare(p, u)) \/ Fetch(p) \/ EndOfMessages(p) \/ V7DeleteUin(p) \/ SendOnline(p)
    BY <1>1, <2>4 DEF Declare, Fetch, EndOfMessages, V7DeleteUin, SendOnline
  <2>5. CASE \E u \in Uins, e \in told, job \in JobType : DeleteTaken(p, u, e, job)
    BY <1>1, <2>5 DEF DeleteTaken
  <2>6. CASE DelMessages(p)
    <3>1. UNCHANGED mail /\ st[p].pc = "del"
      BY <2>6 DEF DelMessages, At
    <3>2. ASSUME NEW y \in missed' \ missed
          PROVE  /\ y.m \in DOMAIN mail /\ y.why \in {"late", "cut", "stray"}
                 /\ y.why \in {"late", "cut"} /\ proto[y.u] = "v3" => y.tie \/ mail[y.m].way = "broadcast"
      <4>1. PICK r \in Deleted(p) : /\ Row(r) \notin inbox
              /\ y = [m |-> r.m, u |-> r.u, why |-> WhyUnread(p, r), tie |-> r.date = st[p].date]
        BY <2>6, <3>2 DEF DelMessages
      <4>2. y.m = r.m /\ y.u = r.u /\ y.why = WhyUnread(p, r) /\ y.tie = (r.date = st[p].date)
        BY <4>1
      <4>3. r \in boxes
        BY DEF Deleted
      <4>4. r.m \in DOMAIN mail
        BY <1>0, <4>3 DEF MailInv, Row
      <4> QED BY <1>0, <3>1, <4>1, <4>2, <4>4, UnreadWhy DEF Letter
    <3> QED BY <3>1, <3>2 DEF NewMissed, Causes
  <2>7. CASE SelectOnline(p) \/ InsertOffline(p)
    <3>1. UNCHANGED mail /\ st[p].pc \in Delivering \cup Casting
      BY <2>7 DEF SelectOnline, InsertOffline, At, Casting
    <3>2. missed' \subseteq missed \cup {Lost(st[p].m, u, "database") : u \in Uins}
      BY <2>7 DEF SelectOnline, InsertOffline
    <3> QED BY <2>a, <2>b, <2>c, <3>1, <3>2
  <2>8. ASSUME UNCHANGED mail, EndBroadcast(p), st[p].pc \in {"bsend", "binsert"}, st[p].rest = <<>>,
               st[p].pc = "bsend" => st[p].u = 0
        PROVE  NewMissed
    <3>1. missed' = missed \cup {Lost(st[p].m, u, WhyUnreached(p, u)) : u \in Unreached(p)}
      BY <2>8 DEF EndBroadcast
    <3>2. \A u \in Unreached(p) : WhyUnreached(p, u) \in {"moved", "inactive"}
      BY <1>0, <2>8, UnreachedWhy
    <3>3. ASSUME NEW y \in missed' \ missed
          PROVE  y.m = st[p].m /\ y.why \in {"moved", "inactive"}
      <4>1. PICK u \in Unreached(p) : y = Lost(st[p].m, u, WhyUnreached(p, u))
        BY <3>1, <3>3
      <4> QED BY <3>2, <4>1 DEF Lost
    <3> QED BY <2>8, <2>a, <3>3 DEF Causes, Casting
  <2>9. CASE SelectOffline(p)
    <3>1. UNCHANGED mail /\ st[p].pc = "bsend" /\ st[p].rest = <<>>
      BY <2>9 DEF SelectOffline, At
    <3>2. CASE st[p].u = 0 /\ EndBroadcast(p)
      BY <2>8, <3>1, <3>2
    <3>3. CASE missed' = missed \cup {Lost(st[p].m, u, "database") : u \in Unreached(p)}
      BY <2>a, <2>b, <2>c, <3>1, <3>3 DEF Casting
    <3> QED BY <1>0, <1>1, <2>9, <3>2, <3>3, SelectOfflineForm
  <2>10. CASE CommitOffline(p)
    BY <2>8, <2>10 DEF CommitOffline, At
  <2> QED BY <1>4, <2>1, <2>2, <2>3, <2>4, <2>5, <2>6, <2>7, <2>9, <2>10 DEF StepOf
<1> QED BY <1>2, <1>3, <1>4 DEF Steps

NewBoxes == \A r \in boxes' \ boxes : Row(r) \in kept' /\ r.date <= now

LEMMA NewBoxesStep ==
  ASSUME IInv, Steps
  PROVE  NewBoxes
<1>0. TypeInv /\ CastInv
  BY DEF IInv
<1>1. boxes' \subseteq boxes => NewBoxes
  BY DEF NewBoxes
<1>2. CASE UNCHANGED vars \/ LateStatement \/ Tick
  BY <1>1, <1>2 DEF vars, LateStatement, Tick
<1>3. ASSUME NEW u \in Uins, Login(u) \/ Activate(u) \/ Logoff(u) PROVE NewBoxes
  BY <1>0, <1>1, <1>3, SessionsSame
<1>4. ASSUME NEW p \in PPs, StepOf(p) PROVE NewBoxes
  <2>1. CASE \E x \in MailType : (\E job \in JobType : Taken(p, x, job)) \/ Refused(p, x)
    BY <1>1, <2>1 DEF Taken, Refused
  <2>2. CASE Send(p) \/ Pointed(p) \/ EndOfMessages(p) \/ V7DeleteUin(p)
    BY <1>1, <2>2 DEF Send, Pointed, WriteByPointer, EndOfMessages, V7DeleteUin
  <2>3. CASE AddMessage(p)
    <3>1. CASE boxes' = boxes
      BY <1>1, <3>1
    <3>2. CASE boxes' = boxes \cup Rows({<<st[p].m, st[p].u>>}, now) /\ kept' = kept \cup {<<st[p].m, st[p].u>>}
      <4>1. Rows({<<st[p].m, st[p].u>>}, now) = {[m |-> st[p].m, u |-> st[p].u, date |-> now]}
        BY DEF Rows
      <4>2. now <= now
        BY <1>0, TypeParts
      <4>3. ASSUME NEW r \in boxes' \ boxes PROVE Row(r) \in kept' /\ r.date <= now
        <5>1. r = [m |-> st[p].m, u |-> st[p].u, date |-> now]
          BY <3>2, <4>1, <4>3
        <5>2. r.date = now /\ Row(r) = <<st[p].m, st[p].u>>
          BY <5>1 DEF Row
        <5> QED BY <3>2, <4>2, <5>2
      <4> QED BY <4>3 DEF NewBoxes
    <3> QED BY <2>3, <3>1, <3>2 DEF AddMessage
  <2>4. CASE (\E u \in Uins : Declare(p, u)) \/ Fetch(p)
    BY <1>1, <2>4 DEF Declare, Fetch
  <2>5. CASE \E u \in Uins, e \in told, job \in JobType : DeleteTaken(p, u, e, job)
    BY <1>1, <2>5 DEF DeleteTaken
  <2>6. CASE SelectOnline(p) \/ SendOnline(p) \/ SelectOffline(p) \/ InsertOffline(p)
    BY <1>1, <2>6 DEF SelectOnline, SendOnline, SelectOffline, InsertOffline
  <2>7. CASE CommitOffline(p)
    <3>1. /\ st[p].pc = "binsert" /\ kept' = kept \cup st[p].tx
          /\ boxes' = boxes \cup Rows(st[p].tx, st[p].date)
      BY <2>7 DEF CommitOffline, At
    <3>2. st[p].date <= now /\ st[p].tx \subseteq Pairs
      BY <1>0, <3>1, JobParts DEF CastInv, TypeInv
    <3>3. ASSUME NEW r \in Rows(st[p].tx, st[p].date) PROVE Row(r) \in st[p].tx /\ r.date = st[p].date
      <4>1. PICK x \in st[p].tx : r = [m |-> x[1], u |-> x[2], date |-> st[p].date]
        BY DEF Rows
      <4>2. x = <<x[1], x[2]>>
        BY <3>2 DEF Pairs
      <4> QED BY <4>1, <4>2 DEF Row
    <3> QED BY <3>1, <3>2, <3>3 DEF NewBoxes
  <2>8. CASE DelMessages(p)
    BY <1>1, <2>8 DEF DelMessages
  <2> QED BY <1>4, <2>1, <2>2, <2>3, <2>4, <2>5, <2>6, <2>7, <2>8 DEF StepOf
<1> QED BY <1>2, <1>3, <1>4 DEF Steps

\* How a job gets to read or to delete.
JobChanges ==
  \A q \in PPs :
    \/ Same(q)
    \/ st'[q].pc \notin {"fetch"} \cup Deleting
    \/ \E u \in Uins, job \in JobType : Declare(q, u) /\ Declared(q, u, job)
    \/ Fetch(q)
    \/ \E u \in Uins, e \in told, job \in JobType : DeleteTaken(q, u, e, job)
    \/ V7DeleteUin(q)

LEMMA JobChangesStep ==
  ASSUME TypeInv, WorkInv, Steps
  PROVE  JobChanges
<1>0. st \in [PPs -> JobType]
  BY TypeParts
<1>a. \A q \in PPs : st'[q] = st[q] => Same(q)
  BY DEF Same
<1>b. UNCHANGED st => JobChanges
  BY <1>a DEF JobChanges
<1>2. CASE UNCHANGED vars \/ LateStatement \/ Tick
  BY <1>b, <1>2 DEF vars, LateStatement, Tick
<1>3. ASSUME NEW u \in Uins, Login(u) \/ Activate(u) \/ Logoff(u) PROVE JobChanges
  BY <1>3, SessionsSame DEF JobChanges
<1>4. ASSUME NEW p \in PPs, StepOf(p) PROVE JobChanges
  <2>a. ASSUME NEW job, st' = [st EXCEPT ![p] = job],
               \/ job.pc \notin {"fetch"} \cup Deleting
               \/ \E u \in Uins, j \in JobType : Declare(p, u) /\ Declared(p, u, j)
               \/ Fetch(p)
               \/ \E u \in Uins, e \in told, j \in JobType : DeleteTaken(p, u, e, j)
               \/ V7DeleteUin(p)
        PROVE  JobChanges
    <3>1. st'[p] = job /\ \A q \in PPs \ {p} : Same(q)
      BY <1>0, <1>a, <2>a
    <3> QED BY <2>a, <3>1 DEF JobChanges
  <2>b. Finish(p) => JobChanges
    <3>1. Idle.pc \notin {"fetch"} \cup Deleting
      BY DEF Idle, Deleting
    <3> HIDE DEF Idle
    <3> QED BY <2>a, <3>1 DEF Finish
  <2>c. ASSUME NEW pc \in {"bsend", "binsert"}, NEW q, NEW t, NEW d, NEW job \in JobType,
               CastJob(p, pc, q, t, d, job)
        PROVE  JobChanges
    BY <2>a, <2>c DEF CastJob, Deleting
  <2>1. ASSUME NEW x \in MailType, NEW job \in JobType, Taken(p, x, job) PROVE JobChanges
    BY <2>a, <2>1 DEF Taken, Deleting, Delivering
  <2>2. ASSUME NEW x \in MailType, Refused(p, x) PROVE JobChanges
    BY <1>b, <2>2 DEF Refused
  <2>3. CASE Send(p) \/ AddMessage(p) \/ Pointed(p) \/ EndOfMessages(p) \/ DelMessages(p)
    BY <2>b, <2>3 DEF Send, AddMessage, Pointed, WriteByPointer, EndOfMessages, DelMessages
  <2>4. ASSUME NEW u \in Uins, Declare(p, u) PROVE JobChanges
    <3>1. ASSUME NEW job \in JobType, Declared(p, u, job) PROVE JobChanges
      <4>1. st' = [st EXCEPT ![p] = job]
        BY <3>1 DEF Declared
      <4> QED BY <2>4, <2>a, <3>1, <4>1
    <3> QED BY <1>b, <2>4, <3>1, DeclareForms
  <2>5. CASE Fetch(p)
    <3>1. PICK job \in JobType : st' = [st EXCEPT ![p] = job]
      BY <2>5, FetchForms DEF FetchJob
    <3> QED BY <2>5, <2>a, <3>1
  <2>6. ASSUME NEW u \in Uins, NEW e \in told, NEW job \in JobType, DeleteTaken(p, u, e, job)
        PROVE  JobChanges
    <3>1. st' = [st EXCEPT ![p] = job]
      BY <2>6 DEF DeleteTaken
    <3> QED BY <2>6, <2>a, <3>1
  <2>7. CASE V7DeleteUin(p)
    <3>1. \A q \in PPs \ {p} : Same(q)
      BY <1>0, <1>a, <2>7 DEF V7DeleteUin
    <3> QED BY <2>7, <3>1 DEF JobChanges
  <2>8. CASE SelectOnline(p)
    BY <2>8, <2>b, <2>c, SelectOnlineForm
  <2>9. CASE SendOnline(p)
    BY <2>9, <2>c, SendOnlineForm
  <2>10. CASE SelectOffline(p)
    BY <2>10, <2>b, <2>c, SelectOfflineForm DEF EndBroadcast
  <2>11. CASE InsertOffline(p)
    BY <2>11, <2>b, <2>c, InsertOfflineForm
  <2>12. CASE CommitOffline(p)
    BY <2>12, <2>b DEF CommitOffline, EndBroadcast
  <2> QED BY <1>4, <2>1, <2>2, <2>3, <2>4, <2>5, <2>6, <2>7, <2>8, <2>9, <2>10, <2>11, <2>12 DEF StepOf
<1> QED BY <1>2, <1>3, <1>4 DEF Steps

----------------------------------------------------------------------------
(* The invariants about messages *)

LEMMA MailStep ==
  ASSUME IInv, Steps
  PROVE  MailInv'
<1>0. TypeInv /\ WorkInv /\ MailInv /\ DeleteInv
  BY DEF IInv
<1>1. Grows /\ NewInbox /\ NewKept /\ NewMissed /\ NewBoxes /\ JobChanges
  BY <1>0, GrowStep, NewInboxStep, NewKeptStep, NewMissedStep, NewBoxesStep, JobChangesStep
<1>a. now \in Nat /\ now <= now' /\ kept \subseteq kept'
  BY <1>0, <1>1, TypeParts DEF Grows
<1>2. \A m \in DOMAIN mail : m \in DOMAIN mail' /\ mail'[m] = mail[m]
  BY <1>1 DEF Grows
<1>3. ASSUME NEW p \in PPs, st[p].pc \in Delivering \cup Casting PROVE st[p].m \in DOMAIN mail
  BY <1>0, <1>3, WorkPairs
<1>4. \A p \in PPs : st[p].pc \in Casting => \A x \in st[p].tx : x[1] = st[p].m
  BY <1>0 DEF WorkInv
<1>5. \A x \in kept' : x[1] \in DOMAIN mail'
  <2>1. \A x \in kept : x[1] \in DOMAIN mail'
    BY <1>0, <1>2 DEF MailInv
  <2>2. ASSUME NEW x \in kept' \ kept PROVE x[1] \in DOMAIN mail'
    <3>1. PICK p \in PPs : \/ st[p].pc \in Delivering /\ x = <<st[p].m, st[p].u>>
                           \/ st[p].pc \in Casting /\ x \in st[p].tx
      BY <1>1, <2>2 DEF NewKept
    <3>2. x[1] = st[p].m
      BY <1>4, <3>1
    <3> QED BY <1>2, <1>3, <3>1, <3>2
  <2> QED BY <2>1, <2>2
<1>6. \A x \in inbox' : x[1] \in DOMAIN mail'
  <2>1. \A x \in inbox \cup kept : x[1] \in DOMAIN mail'
    BY <1>0, <1>2 DEF MailInv
  <2>2. ASSUME NEW x \in inbox' \ inbox, x \notin kept PROVE x[1] \in DOMAIN mail'
    <3>1. PICK p \in PPs : st[p].pc \in Delivering \cup Casting /\ x[1] = st[p].m
      BY <1>1, <2>2 DEF NewInbox
    <3> QED BY <1>2, <1>3, <3>1
  <2> QED BY <2>1, <2>2
<1>7. \A x \in missed' : x.m \in DOMAIN mail'
  <2>1. \A x \in missed : x.m \in DOMAIN mail'
    BY <1>0, <1>2 DEF MailInv
  <2>2. \A x \in missed' \ missed : x.m \in DOMAIN mail'
    BY <1>1 DEF NewMissed
  <2> QED BY <2>1, <2>2
<1>8. \A r \in boxes' : Row(r) \in kept' /\ r.date <= now'
  <2>1. ASSUME NEW r \in boxes' PROVE Row(r) \in kept' /\ r.date <= now /\ r.date \in Int
    <3>1. r \in boxes => r.date \in Int
      BY <1>0, TypeParts DEF RowType
    <3>2. TypeInv'
      BY TypeStep
    <3>3. r.date \in Int
      BY <3>2 DEF TypeInv, RowType
    <3> QED BY <1>0, <1>1, <1>a, <3>3 DEF MailInv, NewBoxes
  <2>2. now' \in Int
    BY TypeStep DEF TypeInv
  <2>3. ASSUME NEW r \in boxes' PROVE r.date <= now'
    BY <1>a, <2>1, <2>2
  <2> QED BY <2>1, <2>3
<1>9. \A x \in kept' : mail'[x[1]].way # "broadcast" => mail'[x[1]].to = x[2]
  <2>1. ASSUME NEW x \in kept, mail'[x[1]].way # "broadcast" PROVE mail'[x[1]].to = x[2]
    <3>1. x[1] \in DOMAIN mail
      BY <1>0 DEF MailInv
    <3> QED BY <1>0, <1>2, <2>1, <3>1 DEF MailInv
  <2>2. ASSUME NEW x \in kept' \ kept, mail'[x[1]].way # "broadcast" PROVE mail'[x[1]].to = x[2]
    <3>1. PICK p \in PPs : \/ st[p].pc \in Delivering /\ x = <<st[p].m, st[p].u>>
                           \/ st[p].pc \in Casting /\ x \in st[p].tx
      BY <1>1, <2>2 DEF NewKept
    <3>2. x[1] = st[p].m /\ mail'[st[p].m] = mail[st[p].m]
      BY <1>2, <1>3, <1>4, <3>1
    <3>3. st[p].pc \notin Casting
      BY <1>0, <2>2, <3>2 DEF WorkInv
    <3> QED BY <1>0, <3>1, <3>2, <3>3 DEF WorkInv
  <2> QED BY <2>1, <2>2
<1>10. ASSUME NEW q \in PPs, st'[q].pc = "fetch" PROVE \A r \in Elements(st'[q].rest) : Row(r) \in kept'
  <2>1. CASE Same(q)
    <3>1. st[q].pc = "fetch" /\ st'[q].rest = st[q].rest
      BY <1>10, <2>1 DEF Same
    <3> QED BY <1>0, <1>a, <3>1 DEF MailInv
  <2>2. ASSUME NEW u \in Uins, NEW job \in JobType, Declared(q, u, job)
        PROVE  \A r \in Elements(st'[q].rest) : Row(r) \in kept'
    <3>1. st'[q] = job /\ Elements(job.rest) = Stored(u)
      BY <1>0, <2>2, TypeParts DEF Declared
    <3> QED BY <1>0, <1>a, <3>1 DEF MailInv, Stored
  <2>3. CASE Fetch(q)
    <3>1. st[q].pc = "fetch" /\ st[q].rest \in Seq(RowType) /\ st[q].rest # <<>>
      BY <1>0, <2>3, FetchForms
    <3>2. st'[q].rest = Tail(st[q].rest) \/ st'[q].rest = <<>>
      BY <1>0, <2>3, FetchForms, TypeParts DEF FetchJob
    <3>3. Elements(st'[q].rest) \subseteq Elements(st[q].rest)
      BY <3>1, <3>2, TailElements, NoElements
    <3> QED BY <1>0, <1>a, <3>1, <3>3 DEF MailInv
  <2>4. ASSUME NEW u \in Uins, NEW e \in told, NEW job \in JobType, DeleteTaken(q, u, e, job) PROVE FALSE
    <3>1. st'[q] = job /\ job.pc # "fetch"
      BY <1>0, <2>4, TypeParts DEF DeleteTaken
    <3> QED BY <1>10, <3>1
  <2>5. CASE V7DeleteUin(q)
    <3>1. st'[q].pc = "del"
      BY <1>0, <2>5, DeleteUinForm, TypeParts DEF DeleteNamed
    <3> QED BY <1>10, <3>1
  <2> QED BY <1>1, <1>10, <2>1, <2>2, <2>3, <2>4, <2>5 DEF JobChanges
<1> QED BY <1>5, <1>6, <1>7, <1>8, <1>9, <1>10 DEF MailInv

LEMMA ShownStep ==
  ASSUME IInv, Steps
  PROVE  ShownInv'
<1>0. TypeInv /\ WorkInv /\ MailInv /\ ShownInv
  BY DEF IInv
<1>1. Grows /\ NewInbox /\ NewKept
  BY <1>0, GrowStep, NewInboxStep, NewKeptStep
<1>2. /\ \A m \in DOMAIN mail : m \in DOMAIN mail' /\ mail'[m] = mail[m]
      /\ missed \subseteq missed'
  BY <1>1 DEF Grows
<1>3. ASSUME NEW p \in PPs, st[p].pc \in Delivering \cup Casting PROVE st[p].m \in DOMAIN mail
  BY <1>0, <1>3, WorkPairs
<1>4. ASSUME NEW x \in inbox, mail'[x[1]].way # "broadcast"
      PROVE  \/ mail'[x[1]].to = x[2]
             \/ /\ mail'[x[1]].way = "v7" /\ x \notin kept'
                /\ \E y \in missed' : y.m = x[1] /\ y.why = "reused"
  <2>1. mail'[x[1]] = mail[x[1]]
    BY <1>0, <1>2 DEF MailInv
  <2>2. x \notin kept' \ kept
    <3> SUFFICES ASSUME x \in kept' \ kept PROVE FALSE
      OBVIOUS
    <3>1. PICK p \in PPs : \/ st[p].pc \in Delivering /\ x = <<st[p].m, st[p].u>>
                           \/ st[p].pc \in Casting /\ x \in st[p].tx
      BY <1>1 DEF NewKept
    <3>2. CASE st[p].pc \in Delivering /\ x = <<st[p].m, st[p].u>>
      BY <1>0, <3>2 DEF WorkInv
    <3>3. CASE st[p].pc \in Casting /\ x \in st[p].tx
      BY <1>0, <1>4, <2>1, <3>3 DEF WorkInv
    <3> QED BY <3>1, <3>2, <3>3
  <2> QED BY <1>0, <1>2, <1>4, <2>1, <2>2 DEF ShownInv
<1>5. ASSUME NEW x \in inbox' \ inbox, mail'[x[1]].way # "broadcast"
      PROVE  \/ mail'[x[1]].to = x[2]
             \/ /\ mail'[x[1]].way = "v7" /\ x \notin kept'
                /\ \E y \in missed' : y.m = x[1] /\ y.why = "reused"
  <2>1. CASE x \in kept
    <3>1. mail'[x[1]] = mail[x[1]]
      BY <1>0, <1>2, <2>1 DEF MailInv
    <3> QED BY <1>0, <1>5, <2>1, <3>1 DEF MailInv
  <2>2. ASSUME NEW p \in PPs, st[p].pc \in Casting, x[1] = st[p].m PROVE FALSE
    BY <1>0, <1>2, <1>3, <1>5, <2>2 DEF WorkInv
  <2>3. ASSUME NEW p \in PPs, st[p].pc \in Delivering, x[1] = st[p].m,
               \/ x[2] = st[p].u
               \/ /\ st[p].pc \in ByPointer /\ kept' = kept
                  /\ Lost(st[p].m, st[p].u, "reused") \in missed'
        PROVE  \/ mail'[x[1]].to = x[2]
               \/ /\ mail'[x[1]].way = "v7" /\ x \notin kept'
                  /\ \E y \in missed' : y.m = x[1] /\ y.why = "reused"
    <3>1. mail'[x[1]] = mail[st[p].m]
      BY <1>2, <1>3, <2>3
    <3>2. CASE x[2] = st[p].u
      BY <1>0, <2>3, <3>1, <3>2 DEF WorkInv
    <3>3. CASE /\ st[p].pc \in ByPointer /\ kept' = kept
               /\ Lost(st[p].m, st[p].u, "reused") \in missed'
      <4>1. mail[st[p].m].way = "v7" /\ x \notin kept
        BY <1>0, <2>3, <3>3 DEF WorkInv
      <4>2. Lost(st[p].m, st[p].u, "reused").m = x[1] /\ Lost(st[p].m, st[p].u, "reused").why = "reused"
        BY <2>3 DEF Lost
      <4> QED BY <3>1, <3>3, <4>1, <4>2
    <3> QED BY <2>3, <3>2, <3>3
  <2> QED BY <1>1, <1>5, <2>1, <2>2, <2>3 DEF NewInbox
<1> QED BY <1>4, <1>5 DEF ShownInv

LEMMA SenderStep ==
  ASSUME IInv, Steps
  PROVE  SenderIsToldTheTruth'
<1>0. TypeInv /\ WorkInv /\ MailInv /\ SenderIsToldTheTruth
  BY DEF IInv
<1>1. Grows /\ NewInbox /\ NewKept /\ NewMissed
  BY <1>0, GrowStep, NewInboxStep, NewKeptStep, NewMissedStep
<1>2. \A m \in DOMAIN mail : m \in DOMAIN mail' /\ mail'[m] = mail[m]
  BY <1>1 DEF Grows
<1>3. ASSUME NEW p \in PPs, st[p].pc \in Delivering \cup Casting
      PROVE  st[p].m \in DOMAIN mail /\ mail[st[p].m].told # "error"
  <2>1. st[p].m \in DOMAIN mail
    BY <1>0, <1>3, WorkPairs
  <2>2. mail[st[p].m].told # "error"
    BY <1>0, <1>3 DEF WorkInv
  <2> QED BY <2>1, <2>2
<1>4. ASSUME NEW m \in DOMAIN mail', mail'[m].told = "ack", NEW x \in missed', x.m = m, x.why = "refused"
      PROVE  FALSE
  <2>1. CASE x \in missed
    <3>1. m \in DOMAIN mail
      BY <1>0, <1>4, <2>1 DEF MailInv
    <3> QED BY <1>0, <1>2, <1>4, <2>1, <3>1 DEF SenderIsToldTheTruth
  <2>2. CASE x \notin missed
    BY <1>1, <1>4, <2>2 DEF NewMissed
  <2> QED BY <2>1, <2>2
<1>5. ASSUME NEW m \in DOMAIN mail', mail'[m].told = "error", NEW x \in inbox' \cup kept', x[1] = m
      PROVE  FALSE
  <2>1. CASE x \in inbox \cup kept
    <3>1. m \in DOMAIN mail
      BY <1>0, <1>5, <2>1 DEF MailInv
    <3> QED BY <1>0, <1>2, <1>5, <2>1, <3>1 DEF SenderIsToldTheTruth
  <2>2. ASSUME NEW p \in PPs, st[p].pc \in Delivering \cup Casting, x[1] = st[p].m PROVE FALSE
    BY <1>2, <1>3, <1>5, <2>2
  <2>3. CASE x \in inbox' \ inbox /\ x \notin kept
    BY <1>1, <2>2, <2>3 DEF NewInbox
  <2>4. CASE x \in kept' \ kept
    <3>1. PICK p \in PPs : \/ st[p].pc \in Delivering /\ x = <<st[p].m, st[p].u>>
                           \/ st[p].pc \in Casting /\ x \in st[p].tx
      BY <1>1, <2>4 DEF NewKept
    <3>2. x[1] = st[p].m
      BY <1>0, <3>1 DEF WorkInv
    <3> QED BY <2>2, <3>1, <3>2
  <2> QED BY <1>5, <2>1, <2>3, <2>4
<1> QED BY <1>4, <1>5 DEF SenderIsToldTheTruth

----------------------------------------------------------------------------
(* The invariants about the reading and deleting of stored messages *)

\* A row a step adds is none of those that were read, and no older than its letter's.
LEMMA AfterStays ==
  ASSUME TypeInv, MailInv, Grows, TypeInv', NEW u, NEW tx, NEW date, NEW cut, NEW more,
         tx \subseteq kept, date \in Int, date <= now, After(u, tx, date, cut, more)
  PROVE  \A r \in boxes' : r.u = u /\ Row(r) \notin inbox' =>
           /\ Row(r) \in tx => r \in more \/ (cut /\ r.date >= date)
           /\ Row(r) \notin tx /\ mail'[r.m].way # "broadcast" => r.date >= date
<1> SUFFICES ASSUME NEW r \in boxes', r.u = u, Row(r) \notin inbox'
             PROVE  /\ Row(r) \in tx => r \in more \/ (cut /\ r.date >= date)
                    /\ Row(r) \notin tx /\ mail'[r.m].way # "broadcast" => r.date >= date
  OBVIOUS
<1>1. inbox \subseteq inbox'
  BY DEF Grows
<1>2. CASE r \in boxes
  <2>1. r \in Unseen(u)
    BY <1>1, <1>2 DEF Unseen
  <2>2. r.m \in DOMAIN mail
    BY <1>2 DEF MailInv, Row
  <2>3. mail'[r.m] = mail[r.m]
    BY <2>2 DEF Grows
  <2> QED BY <2>1, <2>3 DEF After, Letter
<1>3. CASE r \notin boxes
  <2>1. Row(r) \notin kept /\ (mail'[r.m].way # "broadcast" => r.date >= now)
    BY <1>3 DEF Grows
  <2>2. r.date \in Int /\ now \in Int
    BY TypeParts DEF TypeInv, RowType
  <2> QED BY <2>1, <2>2
<1> QED BY <1>2, <1>3

LEMMA CursorStep ==
  ASSUME IInv, Steps
  PROVE  CursorInv'
<1>0. TypeInv /\ SessionInv /\ MailInv /\ WorkInv /\ DeleteInv /\ CursorInv
  BY DEF IInv
<1>1. Grows /\ Sessions /\ JobChanges /\ TypeInv'
  BY <1>0, GrowStep, SessionStep, JobChangesStep, TypeStep
<1>a. /\ now \in Int /\ now' \in Int /\ now <= now' /\ kept \subseteq kept' /\ nsess \in Int /\ nsess' \in Int
      /\ nsess <= nsess' /\ inbox \subseteq inbox'
  BY <1>0, <1>1, TypeParts DEF Grows, Sessions, TypeInv
<1> SUFFICES ASSUME NEW q \in PPs, st'[q].pc = "fetch"
             PROVE  LET J == st'[q]  more == Elements(st'[q].rest) IN
      /\ J.u \in Uins /\ J.sid \in 1 .. nsess' /\ J.tx \subseteq kept' /\ J.date <= now'
      /\ J.cut => J.rest = <<>>
      /\ \A i, j \in DOMAIN J.rest : i < j => J.rest[i].date <= J.rest[j].date
      /\ \A x \in more : J.date <= x.date /\ x.date <= now'
      /\ \A r \in boxes', x \in more : r.u = J.u /\ Row(r) \notin inbox' =>
            (Row(r) \notin J.tx /\ mail'[r.m].way # "broadcast" => r.date >= x.date)
      /\ \A s \in Slots : shm'[s].sid = J.sid =>
           /\ shm'[s].uin = J.u
           /\ \A r \in boxes' : r.u = J.u /\ Row(r) \notin inbox' =>
                /\ Row(r) \in J.tx => r \in more \/ (J.cut /\ r.date >= J.date)
                /\ Row(r) \notin J.tx /\ mail'[r.m].way # "broadcast" => r.date >= J.date
  BY DEF CursorInv, After, Unseen, Letter
<1>2. CASE Same(q)
  <2> DEFINE more == Elements(st[q].rest)
  <2>1. /\ st[q].pc = "fetch" /\ st'[q].u = st[q].u /\ st'[q].sid = st[q].sid /\ st'[q].tx = st[q].tx
        /\ st'[q].date = st[q].date /\ st'[q].cut = st[q].cut /\ st'[q].rest = st[q].rest
    BY <1>2 DEF Same
  <2>2. /\ st[q].u \in Uins /\ st[q].sid \in 1 .. nsess /\ st[q].tx \subseteq kept /\ st[q].date <= now
        /\ st[q].cut => st[q].rest = <<>>
        /\ \A i, j \in DOMAIN st[q].rest : i < j => st[q].rest[i].date <= st[q].rest[j].date
        /\ \A x \in more : st[q].date <= x.date /\ x.date <= now
        /\ \A r \in Unseen(st[q].u), x \in more : Row(r) \notin st[q].tx /\ Letter(r) => r.date >= x.date
        /\ \A s \in Slots : shm[s].sid = st[q].sid =>
             shm[s].uin = st[q].u /\ After(st[q].u, st[q].tx, st[q].date, st[q].cut, more)
    BY <1>0, <2>1 DEF CursorInv
  <2>3. st[q].date \in Int /\ st[q].rest \in Seq(RowType)
    BY <1>0, <2>1, JobParts DEF TypeInv
  <2>4. \A x \in more : x.date \in Int
    <3>1. more \subseteq RowType
      BY <2>3, ElementsIn
    <3> HIDE DEF more
    <3> QED BY <3>1 DEF RowType
  <2>5. \A s \in Slots : shm'[s].sid = st[q].sid => shm[s].sid = st[q].sid /\ shm'[s].uin = shm[s].uin
    BY <1>1, <1>a, <2>2 DEF Sessions
  <2> HIDE DEF more
  <2>6. ASSUME NEW r \in boxes', NEW x \in more, r.u = st[q].u, Row(r) \notin inbox',
               Row(r) \notin st[q].tx, mail'[r.m].way # "broadcast"
        PROVE  r.date >= x.date
    <3>1. r.date \in Int
      BY <1>1 DEF TypeInv, RowType
    <3>2. CASE r \in boxes
      <4>1. r \in Unseen(st[q].u)
        BY <1>a, <2>6, <3>2 DEF Unseen
      <4>a. r.m \in DOMAIN mail
        BY <1>0, <3>2 DEF MailInv, Row
      <4>2. mail'[r.m] = mail[r.m]
        BY <1>1, <4>a DEF Grows
      <4> QED BY <2>2, <2>6, <4>1, <4>2 DEF Letter
    <3>3. CASE r \notin boxes
      <4>1. r.date >= now
        BY <1>1, <2>6, <3>3 DEF Grows
      <4> QED BY <1>a, <2>2, <2>4, <3>1, <4>1
    <3> QED BY <3>2, <3>3
  <2>7. ASSUME NEW s \in Slots, shm'[s].sid = st[q].sid
        PROVE  /\ shm'[s].uin = st[q].u
               /\ \A r \in boxes' : r.u = st[q].u /\ Row(r) \notin inbox' =>
                    /\ Row(r) \in st[q].tx => r \in more \/ (st[q].cut /\ r.date >= st[q].date)
                    /\ Row(r) \notin st[q].tx /\ mail'[r.m].way # "broadcast" => r.date >= st[q].date
    BY <1>0, <1>1, <2>2, <2>3, <2>5, <2>7, AfterStays
  <2>8. \A x \in more : st[q].date <= x.date /\ x.date <= now'
    BY <1>a, <2>2, <2>4
  <2>9. st[q].date <= now' /\ st[q].tx \subseteq kept' /\ st[q].sid \in 1 .. nsess'
    BY SMTT(30), <1>a, <2>2, <2>3
  <2>10. Elements(st'[q].rest) = more
    BY <2>1 DEF more
  <2> QED BY <2>1, <2>2, <2>6, <2>7, <2>8, <2>9, <2>10
<1>3. ASSUME NEW u \in Uins, NEW job \in JobType, Declare(q, u), Declared(q, u, job)
      PROVE  LET J == st'[q]  more == Elements(st'[q].rest) IN
      /\ J.u \in Uins /\ J.sid \in 1 .. nsess' /\ J.tx \subseteq kept' /\ J.date <= now'
      /\ J.cut => J.rest = <<>>
      /\ \A i, j \in DOMAIN J.rest : i < j => J.rest[i].date <= J.rest[j].date
      /\ \A x \in more : J.date <= x.date /\ x.date <= now'
      /\ \A r \in boxes', x \in more : r.u = J.u /\ Row(r) \notin inbox' =>
            (Row(r) \notin J.tx /\ mail'[r.m].way # "broadcast" => r.date >= x.date)
      /\ \A s \in Slots : shm'[s].sid = J.sid =>
           /\ shm'[s].uin = J.u
           /\ \A r \in boxes' : r.u = J.u /\ Row(r) \notin inbox' =>
                /\ Row(r) \in J.tx => r \in more \/ (J.cut /\ r.date >= J.date)
                /\ Row(r) \notin J.tx /\ mail'[r.m].way # "broadcast" => r.date >= J.date
  <2>1. st'[q] = job /\ UNCHANGED <<shm, boxes, inbox, kept, nsess, now, mail>>
    BY <1>0, <1>3, TypeParts DEF Declare, Declared
  <2>2. /\ job.u = u /\ Elements(job.rest) = Stored(u) /\ job.date = 0 /\ job.cut = FALSE
        /\ \A i, j \in DOMAIN job.rest : i < j => job.rest[i].date <= job.rest[j].date
        /\ job.sid = shm[SlotOf(u)].sid /\ job.tx = {Row(r) : r \in Stored(u)}
    BY <1>3 DEF Declared
  <2>3. SlotOf(u) \in Slots /\ shm[SlotOf(u)].uin = u /\ u # 0
    BY <1>3, SlotOfFacts DEF Declare
  <2>4. job.sid \in 1 .. nsess
    <3>1. shm[SlotOf(u)].sid \in 0 .. MaxSessions
      BY <1>0, <2>3, TypeParts DEF ShmType
    <3>2. shm[SlotOf(u)].sid <= nsess /\ shm[SlotOf(u)].sid # 0
      BY <1>0, <2>3 DEF SessionInv
    <3> QED BY <1>a, <2>2, <3>1, <3>2
  <2>5. job.tx \subseteq kept
    BY <1>0, <2>2 DEF Stored, MailInv
  <2>6. \A x \in Stored(u) : 0 <= x.date /\ x.date <= now
    BY <1>0, TypeParts DEF Stored, MailInv, RowType
  <2>7. \A r \in boxes : r.u = u => r \in Stored(u) /\ Row(r) \in job.tx
    BY <2>2 DEF Stored
  <2>8. \A s \in Slots : shm[s].sid = job.sid => shm[s].uin = u
    BY <1>0, <2>2, <2>3, <2>4 DEF SessionInv
  <2>9. 0 <= now
    BY <1>0, TypeParts
  <2> QED BY <2>1, <2>2, <2>4, <2>5, <2>6, <2>7, <2>8, <2>9
<1>4. CASE Fetch(q)
  <2> DEFINE r0 == Head(st[q].rest)
             more == Elements(st[q].rest)
  <2>1. /\ st[q].pc = "fetch" /\ st[q].rest \in Seq(RowType) /\ st[q].rest # <<>> /\ r0 \in RowType
        /\ UNCHANGED <<shm, mail, boxes, kept, nsess, now>>
    BY <1>0, <1>4, FetchForms DEF Fetch
  <2>2. /\ st[q].u \in Uins /\ st[q].sid \in 1 .. nsess /\ st[q].tx \subseteq kept /\ st[q].date <= now
        /\ st[q].cut => st[q].rest = <<>>
        /\ \A i, j \in DOMAIN st[q].rest : i < j => st[q].rest[i].date <= st[q].rest[j].date
        /\ \A x \in more : st[q].date <= x.date /\ x.date <= now
        /\ \A r \in Unseen(st[q].u), x \in more : Row(r) \notin st[q].tx /\ Letter(r) => r.date >= x.date
        /\ \A s \in Slots : shm[s].sid = st[q].sid =>
             shm[s].uin = st[q].u /\ After(st[q].u, st[q].tx, st[q].date, st[q].cut, more)
    BY <1>0, <2>1 DEF CursorInv
  <2>3. /\ more = {r0} \cup Elements(Tail(st[q].rest)) /\ Tail(st[q].rest) \in Seq(RowType)
        /\ \A i \in DOMAIN Tail(st[q].rest) : i + 1 \in DOMAIN st[q].rest /\ Tail(st[q].rest)[i] = st[q].rest[i + 1]
    BY <2>1, TailElements
  <2>4. st[q].cut = FALSE
    BY <1>0, <2>1, <2>2, JobParts DEF TypeInv
  <2>5. DOMAIN st[q].rest = 1 .. Len(st[q].rest) /\ Len(st[q].rest) \in Nat \ {0} /\ st[q].rest[1] = r0
    BY <2>1, LenProperties, EmptySeq, HeadTailProperties
  <2>6. \A r \in boxes : r.u = st[q].u /\ Row(r) \notin inbox' => r \in Unseen(st[q].u)
    BY <1>a DEF Unseen
  <2>7. CASE /\ inbox' = IF Live(st[q].sid) THEN inbox \cup {Row(r0)} ELSE inbox
             /\ \E job \in JobType : FetchJob(q, Tail(st[q].rest), r0.date, st[q].cut, job)
    <3> DEFINE less == Elements(Tail(st[q].rest))
    <3>1. /\ st'[q].u = st[q].u /\ st'[q].sid = st[q].sid /\ st'[q].tx = st[q].tx
          /\ st'[q].date = r0.date /\ st'[q].cut = FALSE /\ st'[q].rest = Tail(st[q].rest)
      BY <1>0, <2>4, <2>7, TypeParts DEF FetchJob
    <3>2. \A i, j \in DOMAIN Tail(st[q].rest) : i < j => Tail(st[q].rest)[i].date <= Tail(st[q].rest)[j].date
      <4> SUFFICES ASSUME NEW i \in DOMAIN Tail(st[q].rest), NEW j \in DOMAIN Tail(st[q].rest), i < j
                   PROVE  Tail(st[q].rest)[i].date <= Tail(st[q].rest)[j].date
        OBVIOUS
      <4>1. DOMAIN Tail(st[q].rest) = 1 .. Len(Tail(st[q].rest)) /\ Len(Tail(st[q].rest)) \in Nat
        BY <2>3, LenProperties
      <4>2. i + 1 < j + 1
        BY <4>1
      <4> QED BY <2>2, <2>3, <4>2
    <3>3. \A x \in less : r0.date <= x.date /\ x.date <= now
      <4> SUFFICES ASSUME NEW i \in DOMAIN Tail(st[q].rest)
                   PROVE  r0.date <= Tail(st[q].rest)[i].date /\ Tail(st[q].rest)[i].date <= now
        BY DEF Elements
      <4>1. i \in Nat \ {0}
        BY <2>3, LenProperties
      <4>2. i + 1 \in DOMAIN st[q].rest /\ 1 \in DOMAIN st[q].rest /\ 1 < i + 1
        BY <2>3, <2>5, <4>1
      <4>3. st[q].rest[i + 1] \in more
        BY <4>2 DEF Elements
      <4> QED BY <2>2, <2>3, <2>5, <4>2, <4>3
    <3>4. r0 \in more /\ r0.date <= now
      BY <2>2, <2>3
    <3>5. \A r \in boxes, x \in more : r.u = st[q].u /\ Row(r) \notin inbox' =>
            (Row(r) \notin st[q].tx /\ mail[r.m].way # "broadcast" => r.date >= x.date)
      BY <2>2, <2>6 DEF Letter
    <3>6. ASSUME NEW s \in Slots, shm[s].sid = st[q].sid
          PROVE  /\ shm[s].uin = st[q].u
                 /\ \A r \in boxes : r.u = st[q].u /\ Row(r) \notin inbox' /\ Row(r) \in st[q].tx => r \in less
      <4>1. Row(r0) \in inbox'
        BY <2>7, <3>6 DEF Live
      <4>2. \A r \in Unseen(st[q].u) : Row(r) \in st[q].tx => r \in more
        BY <2>2, <2>4, <3>6 DEF After
      <4> HIDE DEF r0, more
      <4>3. \A r \in boxes : r.u = st[q].u /\ Row(r) \notin inbox' /\ Row(r) \in st[q].tx => r \in less
        BY <2>3, <2>6, <4>1, <4>2
      <4> QED BY <2>2, <3>6, <4>3
    <3> HIDE DEF more, r0
    <3>7. less \subseteq more
      BY <2>3
    <3> HIDE DEF less
    <3>8. Elements(st'[q].rest) = less
      BY <3>1 DEF less
    <3> QED BY <2>1, <2>2, <3>1, <3>2, <3>3, <3>4, <3>5, <3>6, <3>7, <3>8
  <2>8. CASE /\ inbox' = inbox
             /\ \E job \in JobType : FetchJob(q, <<>>, st[q].date, TRUE, job)
    <3>1. /\ st'[q].u = st[q].u /\ st'[q].sid = st[q].sid /\ st'[q].tx = st[q].tx
          /\ st'[q].date = st[q].date /\ st'[q].cut = TRUE /\ st'[q].rest = <<>>
      BY <1>0, <2>8, TypeParts DEF FetchJob
    <3>2. Elements(st'[q].rest) = {} /\ DOMAIN st'[q].rest = {}
      BY <3>1, NoElements, EmptySeq
    <3>3. ASSUME NEW s \in Slots, shm[s].sid = st[q].sid
          PROVE  /\ shm[s].uin = st[q].u
                 /\ \A r \in boxes : r.u = st[q].u /\ Row(r) \notin inbox' =>
                      /\ Row(r) \in st[q].tx => r.date >= st[q].date
                      /\ Row(r) \notin st[q].tx /\ mail[r.m].way # "broadcast" => r.date >= st[q].date
      <4>1. After(st[q].u, st[q].tx, st[q].date, st[q].cut, more) /\ shm[s].uin = st[q].u
        BY <2>2, <3>3
      <4>2. \A r \in Unseen(st[q].u) : Row(r) \in st[q].tx => r \in more
        BY <2>4, <4>1 DEF After
      <4>3. st[q].date \in Int /\ \A r \in boxes : r.date \in Int
        BY <1>0, JobParts, TypeParts DEF RowType, TypeInv
      <4> HIDE DEF more
      <4>4. \A r \in Unseen(st[q].u) : Row(r) \in st[q].tx => r.date >= st[q].date
        BY <2>2, <4>2, <4>3 DEF Unseen
      <4>5. \A r \in Unseen(st[q].u) : Row(r) \notin st[q].tx /\ mail[r.m].way # "broadcast" => r.date >= st[q].date
        BY <4>1 DEF After, Letter
      <4> QED BY <2>6, <4>1, <4>4, <4>5
    <3> HIDE DEF more, r0
    <3> QED BY <2>1, <2>2, <3>1, <3>2, <3>3
  <2> QED BY <1>0, <1>4, <2>7, <2>8, FetchForms
<1>5. ASSUME NEW u \in Uins, NEW e \in told, NEW job \in JobType, DeleteTaken(q, u, e, job) PROVE FALSE
  <2>1. st'[q] = job /\ job.pc # "fetch"
    BY <1>0, <1>5, TypeParts DEF DeleteTaken
  <2> QED BY <2>1
<1>6. CASE V7DeleteUin(q)
  <2>1. st'[q].pc = "del"
    BY <1>0, <1>6, DeleteUinForm, TypeParts DEF DeleteNamed
  <2> QED BY <2>1
<1>7. st'[q].pc \in {"fetch"} \cup Deleting
  OBVIOUS
<1>8. \/ Same(q) \/ (\E u \in Uins, job \in JobType : Declare(q, u) /\ Declared(q, u, job))
      \/ Fetch(q) \/ (\E u \in Uins, e \in told, job \in JobType : DeleteTaken(q, u, e, job))
      \/ V7DeleteUin(q)
  BY <1>1, <1>7 DEF JobChanges
<1> QED BY <1>2, <1>3, <1>4, <1>5, <1>6, <1>8

LEMMA ToldStep ==
  ASSUME IInv, Steps
  PROVE  ToldInv'
<1>0. TypeInv /\ SessionInv /\ MailInv /\ CursorInv /\ ToldInv
  BY DEF IInv
<1>1. Grows /\ Sessions /\ TypeInv'
  BY <1>0, GrowStep, SessionStep, TypeStep
<1>a. /\ now \in Int /\ now' \in Int /\ now <= now' /\ kept \subseteq kept' /\ nsess \in Int /\ nsess' \in Int
      /\ nsess <= nsess' /\ inbox \subseteq inbox'
  BY SMTT(30), <1>0, <1>1, TypeParts DEF Grows, Sessions, TypeInv
<1>2. ASSUME NEW e \in told
      PROVE  /\ e.sid \in 1 .. nsess' /\ e.rows \subseteq kept' /\ e.date <= now'
             /\ \A s \in Slots : shm'[s].sid = e.sid =>
                  \A r \in boxes' : r.u = shm'[s].uin /\ Row(r) \notin inbox' =>
                    /\ Row(r) \in e.rows => r \in {} \/ (e.cut /\ r.date >= e.date)
                    /\ Row(r) \notin e.rows /\ mail'[r.m].way # "broadcast" => r.date >= e.date
  <2>1. e.date \in Int
    BY <1>0, TypeParts DEF EndType
  <2>2. /\ e.sid \in 1 .. nsess /\ e.rows \subseteq kept /\ e.date <= now
        /\ \A s \in Slots : shm[s].sid = e.sid => After(shm[s].uin, e.rows, e.date, e.cut, {})
    BY <1>0 DEF ToldInv
  <2>3. ASSUME NEW s \in Slots, shm'[s].sid = e.sid
        PROVE  \A r \in boxes' : r.u = shm'[s].uin /\ Row(r) \notin inbox' =>
                    /\ Row(r) \in e.rows => r \in {} \/ (e.cut /\ r.date >= e.date)
                    /\ Row(r) \notin e.rows /\ mail'[r.m].way # "broadcast" => r.date >= e.date
    <3>1. shm[s].sid = e.sid /\ shm'[s].uin = shm[s].uin
      BY <1>1, <1>a, <2>2, <2>3 DEF Sessions
    <3>2. After(shm[s].uin, e.rows, e.date, e.cut, {})
      BY <2>2, <3>1
    <3> QED BY <1>0, <1>1, <2>1, <2>2, <3>1, <3>2, AfterStays
  <2> QED BY <1>a, <2>1, <2>2, <2>3
<1>3. ASSUME NEW p \in PPs, EndOfMessages(p), NEW e \in told' \ told
      PROVE  /\ e.sid \in 1 .. nsess' /\ e.rows \subseteq kept' /\ e.date <= now'
             /\ \A s \in Slots : shm'[s].sid = e.sid =>
                  \A r \in boxes' : r.u = shm'[s].uin /\ Row(r) \notin inbox' =>
                    /\ Row(r) \in e.rows => r \in {} \/ (e.cut /\ r.date >= e.date)
                    /\ Row(r) \notin e.rows /\ mail'[r.m].way # "broadcast" => r.date >= e.date
  <2>1. e = [sid |-> st[p].sid, date |-> st[p].date, cut |-> st[p].cut, rows |-> st[p].tx]
    BY <1>3 DEF EndOfMessages
  <2>2. e.sid = st[p].sid /\ e.date = st[p].date /\ e.cut = st[p].cut /\ e.rows = st[p].tx
    BY <2>1
  <2>3. st[p].pc = "fetch" /\ st[p].rest = <<>> /\ UNCHANGED <<shm, mail, boxes, inbox, kept, nsess, now>>
    BY <1>3 DEF EndOfMessages, At
  <2>4. Elements(st[p].rest) = {}
    BY <2>3, NoElements
  <2>5. /\ st[p].sid \in 1 .. nsess /\ st[p].tx \subseteq kept /\ st[p].date <= now
        /\ \A s \in Slots : shm[s].sid = st[p].sid =>
             shm[s].uin = st[p].u /\ After(st[p].u, st[p].tx, st[p].date, st[p].cut, {})
    BY <1>0, <2>3, <2>4 DEF CursorInv
  <2>6. \A s \in Slots : shm[s].sid = st[p].sid =>
             /\ shm[s].uin = st[p].u
             /\ \A r \in boxes : r.u = shm[s].uin /\ Row(r) \notin inbox =>
                  /\ Row(r) \in st[p].tx => r \in {} \/ (st[p].cut /\ r.date >= st[p].date)
                  /\ Row(r) \notin st[p].tx /\ mail[r.m].way # "broadcast" => r.date >= st[p].date
    BY <2>5 DEF After, Unseen, Letter
  <2> QED BY <2>2, <2>3, <2>5, <2>6
<1>4. ASSUME told' \subseteq told PROVE ToldInv'
  BY <1>2, <1>4 DEF ToldInv, After, Unseen, Letter
<1>5. CASE UNCHANGED vars \/ LateStatement \/ Tick
  BY <1>4, <1>5 DEF vars, LateStatement, Tick
<1>6. ASSUME NEW u \in Uins, Login(u) \/ Activate(u) \/ Logoff(u) PROVE ToldInv'
  BY <1>0, <1>4, <1>6, SessionsSame
<1>7. ASSUME NEW p \in PPs, StepOf(p) PROVE ToldInv'
  <2>1. CASE \E x \in MailType : (\E job \in JobType : Taken(p, x, job)) \/ Refused(p, x)
    BY <1>4, <2>1 DEF Taken, Refused
  <2>2. CASE Send(p) \/ AddMessage(p) \/ Pointed(p)
    BY <1>4, <2>2 DEF Send, AddMessage, Pointed, WriteByPointer
  <2>3. CASE (\E u \in Uins : Declare(p, u)) \/ Fetch(p) \/ V7DeleteUin(p) \/ DelMessages(p)
    BY <1>4, <2>3 DEF Declare, Fetch, V7DeleteUin, DelMessages
  <2>4. CASE EndOfMessages(p)
    BY <1>2, <1>3, <2>4 DEF ToldInv, After, Unseen, Letter
  <2>5. CASE \E u \in Uins, e \in told, job \in JobType : DeleteTaken(p, u, e, job)
    BY <1>4, <2>5 DEF DeleteTaken
  <2>6. CASE SelectOnline(p) \/ SendOnline(p) \/ SelectOffline(p) \/ InsertOffline(p) \/ CommitOffline(p)
    BY <1>4, <2>6 DEF SelectOnline, SendOnline, SelectOffline, InsertOffline, CommitOffline
  <2> QED BY <1>7, <2>1, <2>2, <2>3, <2>4, <2>5, <2>6 DEF StepOf
<1> QED BY <1>5, <1>6, <1>7 DEF Steps

LEMMA DeleteStep ==
  ASSUME IInv, Steps
  PROVE  DeleteInv'
<1>0. TypeInv /\ SessionInv /\ MailInv /\ WorkInv /\ ToldInv /\ DeleteInv
  BY DEF IInv
<1>1. Grows /\ JobChanges /\ TypeInv'
  BY <1>0, GrowStep, JobChangesStep, TypeStep
<1>a. /\ now \in Int /\ now' \in Int /\ now <= now' /\ kept \subseteq kept' /\ inbox \subseteq inbox' /\ proto' = proto
  BY <1>0, <1>1, TypeParts DEF Grows, TypeInv
<1> SUFFICES ASSUME NEW q \in PPs, st'[q].pc \in Deleting
             PROVE  LET J == st'[q] IN
      /\ J.u \in Uins /\ J.tx \subseteq kept'
      /\ J.slot = 0 => J.target = J.u
      /\ J.slot # 0 => proto[J.u] = "v7"
      /\ J.pc = "v7del" => J.slot # 0
      /\ \A r \in boxes' : r.u = J.u /\ Row(r) \notin inbox' => (Row(r) \in J.tx => J.cut)
      /\ proto[J.u] = "v3" =>
           /\ J.date <= now'
           /\ \A r \in boxes' : r.u = J.u /\ Row(r) \notin inbox' =>
                /\ Row(r) \in J.tx => r \in {} \/ (J.cut /\ r.date >= J.date)
                /\ Row(r) \notin J.tx /\ mail'[r.m].way # "broadcast" => r.date >= J.date
  BY <1>a DEF DeleteInv, After, Unseen, Letter
<1>2. CASE Same(q)
  <2>1. /\ st[q].pc \in Deleting /\ st'[q].pc = st[q].pc /\ st'[q].u = st[q].u /\ st'[q].tx = st[q].tx
        /\ st'[q].date = st[q].date /\ st'[q].cut = st[q].cut /\ st'[q].slot = st[q].slot
        /\ st'[q].target = st[q].target
    BY <1>2 DEF Same
  <2>2. /\ st[q].u \in Uins /\ st[q].tx \subseteq kept
        /\ st[q].slot = 0 => st[q].target = st[q].u
        /\ st[q].slot # 0 => proto[st[q].u] = "v7"
        /\ st[q].pc = "v7del" => st[q].slot # 0
        /\ \A r \in Unseen(st[q].u) : Row(r) \in st[q].tx => st[q].cut
        /\ proto[st[q].u] = "v3" => st[q].date <= now /\ After(st[q].u, st[q].tx, st[q].date, st[q].cut, {})
    BY <1>0, <2>1 DEF DeleteInv
  <2>3. st[q].date \in Int
    BY <1>0, JobParts DEF TypeInv
  <2>4. ASSUME NEW r \in boxes', r.u = st[q].u, Row(r) \notin inbox', Row(r) \in st[q].tx PROVE st[q].cut
    <3>1. r \in boxes
      BY <1>1, <2>2, <2>4 DEF Grows
    <3>2. r \in Unseen(st[q].u)
      BY <1>a, <2>4, <3>1 DEF Unseen
    <3> QED BY <2>2, <2>4, <3>2
  <2>5. ASSUME proto[st[q].u] = "v3"
        PROVE  /\ st[q].date <= now'
               /\ \A r \in boxes' : r.u = st[q].u /\ Row(r) \notin inbox' =>
                    /\ Row(r) \in st[q].tx => r \in {} \/ (st[q].cut /\ r.date >= st[q].date)
                    /\ Row(r) \notin st[q].tx /\ mail'[r.m].way # "broadcast" => r.date >= st[q].date
    <3>1. st[q].date <= now'
      BY <1>a, <2>2, <2>3, <2>5
    <3> QED BY <1>0, <1>1, <2>2, <2>3, <2>5, <3>1, AfterStays
  <2> QED BY <1>a, <2>1, <2>2, <2>4, <2>5
<1>3. ASSUME NEW u \in Uins, NEW e \in told, NEW job \in JobType, DeleteTaken(q, u, e, job)
      PROVE  LET J == st'[q] IN
      /\ J.u \in Uins /\ J.tx \subseteq kept'
      /\ J.slot = 0 => J.target = J.u
      /\ J.slot # 0 => proto[J.u] = "v7"
      /\ J.pc = "v7del" => J.slot # 0
      /\ \A r \in boxes' : r.u = J.u /\ Row(r) \notin inbox' => (Row(r) \in J.tx => J.cut)
      /\ proto[J.u] = "v3" =>
           /\ J.date <= now'
           /\ \A r \in boxes' : r.u = J.u /\ Row(r) \notin inbox' =>
                /\ Row(r) \in J.tx => r \in {} \/ (J.cut /\ r.date >= J.date)
                /\ Row(r) \notin J.tx /\ mail'[r.m].way # "broadcast" => r.date >= J.date
  <2>1. st'[q] = job /\ UNCHANGED <<boxes, inbox, kept, mail, now>>
    BY <1>0, <1>3, TypeParts DEF DeleteTaken
  <2>2. /\ job.u = u /\ job.cut = e.cut /\ job.tx = e.rows /\ e.sid = shm[SlotOf(u)].sid /\ Online(u)
        /\ \/ job.pc = "del" /\ job.slot = 0 /\ job.target = u /\ (proto[u] = "v3" => job.date = e.date)
           \/ job.pc = "v7del" /\ job.slot \in Slots /\ proto[u] = "v7"
    BY <1>3 DEF DeleteTaken
  <2>3. SlotOf(u) \in Slots /\ shm[SlotOf(u)].uin = u
    BY <2>2, SlotOfFacts
  <2>4. After(u, e.rows, e.date, e.cut, {}) /\ e.rows \subseteq kept /\ e.date <= now
    BY <1>0, <2>2, <2>3 DEF ToldInv
  <2>5. \A r \in boxes : r.u = u /\ Row(r) \notin inbox =>
          /\ Row(r) \in e.rows => e.cut /\ r.date >= e.date
          /\ Row(r) \notin e.rows /\ mail[r.m].way # "broadcast" => r.date >= e.date
    BY <2>4 DEF After, Unseen, Letter
  <2>6. \A s \in Slots : s # 0
    OBVIOUS
  <2>7. proto[u] = "v3" => job.date = e.date
    BY <2>2
  <2>8. /\ job.slot = 0 => job.target = u
        /\ job.slot # 0 => proto[u] = "v7"
        /\ job.pc = "v7del" => job.slot # 0
    BY <2>2, <2>6
  <2> QED BY <2>1, <2>2, <2>4, <2>5, <2>7, <2>8
<1>4. CASE V7DeleteUin(q)
  <2>1. PICK job \in JobType : DeleteNamed(q, job)
    BY <1>0, <1>4, DeleteUinForm
  <2>2. /\ st'[q].pc = "del" /\ st'[q].u = st[q].u /\ st'[q].tx = st[q].tx
        /\ st'[q].cut = st[q].cut /\ st'[q].slot = st[q].slot
    BY <1>0, <2>1, TypeParts DEF DeleteNamed
  <2>3. st[q].pc = "v7del" /\ UNCHANGED <<boxes, inbox, kept>>
    BY <1>4 DEF V7DeleteUin, At
  <2>4. /\ st[q].u \in Uins /\ st[q].tx \subseteq kept /\ st[q].slot # 0 /\ proto[st[q].u] = "v7"
        /\ \A r \in Unseen(st[q].u) : Row(r) \in st[q].tx => st[q].cut
    BY <1>0, <2>3 DEF DeleteInv, Deleting
  <2>5. \A r \in boxes : r.u = st[q].u /\ Row(r) \notin inbox => (Row(r) \in st[q].tx => st[q].cut)
    BY <2>4 DEF Unseen
  <2> QED BY <2>2, <2>3, <2>4, <2>5
<1>5. ASSUME NEW u \in Uins, NEW job \in JobType, Declared(q, u, job) PROVE FALSE
  <2>1. st'[q].pc = "fetch"
    BY <1>0, <1>5, TypeParts DEF Declared
  <2> QED BY <2>1 DEF Deleting
<1>6. CASE Fetch(q)
  <2>1. st'[q].pc = "fetch"
    BY <1>0, <1>6, FetchForms, TypeParts DEF FetchJob
  <2> QED BY <2>1 DEF Deleting
<1>7. st'[q].pc \in {"fetch"} \cup Deleting
  OBVIOUS
<1>8. \/ Same(q) \/ (\E u \in Uins, job \in JobType : Declare(q, u) /\ Declared(q, u, job))
      \/ Fetch(q) \/ (\E u \in Uins, e \in told, job \in JobType : DeleteTaken(q, u, e, job))
      \/ V7DeleteUin(q)
  BY <1>1, <1>7 DEF JobChanges
<1> QED BY <1>2, <1>3, <1>4, <1>5, <1>6, <1>8

----------------------------------------------------------------------------
(* Broadcasts *)

LEMMA OthersStay ==
  ASSUME TypeInv, NEW v \in Uins, Login(v) \/ Activate(v) \/ Logoff(v)
  PROVE  \A u \in Uins \ {v} : (Online(u) <=> Online(u)') /\ (Active(u) <=> Active(u)')
<1>1. shm \in [Slots -> ShmType]
  BY TypeParts
<1>2. \E s \in Slots : /\ shm[s].uin \in {0, v} /\ shm'[s].uin \in {0, v}
                       /\ \A x \in Slots \ {s} : shm'[x] = shm[x]
  <2>1. CASE Login(v)
    <3>1. PICK s \in Slots : /\ shm[s].uin = 0
                             /\ shm' = [shm EXCEPT ![s] = [uin |-> v, sid |-> nsess + 1, active |-> Udp(v)]]
      BY <2>1 DEF Login, RecordOf
    <3>2. shm'[s].uin = v /\ \A x \in Slots \ {s} : shm'[x] = shm[x]
      BY <1>1, <3>1
    <3> QED BY <3>1, <3>2
  <2>2. CASE Activate(v)
    <3>1. /\ SlotOf(v) \in Slots /\ shm[SlotOf(v)].uin = v
          /\ shm' = [shm EXCEPT ![SlotOf(v)].active = TRUE]
      BY <2>2, SlotOfFacts DEF Activate
    <3>2. shm'[SlotOf(v)].uin = v /\ \A x \in Slots \ {SlotOf(v)} : shm'[x] = shm[x]
      BY <1>1, <3>1 DEF ShmType
    <3> QED BY <3>1, <3>2
  <2>3. CASE Logoff(v)
    <3>1. SlotOf(v) \in Slots /\ shm[SlotOf(v)].uin = v /\ shm' = [shm EXCEPT ![SlotOf(v)] = Hole]
      BY <2>3, SlotOfFacts DEF Logoff
    <3>2. shm'[SlotOf(v)].uin = 0 /\ \A x \in Slots \ {SlotOf(v)} : shm'[x] = shm[x]
      BY <1>1, <3>1 DEF Hole
    <3> QED BY <3>1, <3>2
  <2> QED BY <2>1, <2>2, <2>3
<1>3. PICK s \in Slots : /\ shm[s].uin \in {0, v} /\ shm'[s].uin \in {0, v}
                         /\ \A x \in Slots \ {s} : shm'[x] = shm[x]
  BY <1>2
<1>4. ASSUME NEW u \in Uins \ {v}, NEW x \in Slots
      PROVE  /\ shm'[x].uin = u <=> shm[x].uin = u
             /\ shm[x].uin = u => shm'[x] = shm[x]
  <2>1. u # 0 /\ u # v
    OBVIOUS
  <2>2. CASE x = s
    BY <1>3, <2>1, <2>2
  <2>3. CASE x # s
    BY <1>3, <2>3
  <2> QED BY <2>2, <2>3
<1> QED BY <1>4 DEF Online, Active, RecordOf

LEMMA CastStep ==
  ASSUME IInv, Steps
  PROVE  CastInv'
<1>0. TypeInv /\ WorkInv /\ CastInv
  BY DEF IInv
<1>1. Grows
  BY GrowStep
<1>a. /\ now \in Int /\ now' \in Int /\ now <= now' /\ inbox \subseteq inbox'
      /\ \A m \in DOMAIN mail : mail'[m] = mail[m]
  BY <1>0, <1>1, TypeParts, TypeStep DEF Grows, TypeInv
<1> SUFFICES ASSUME NEW q \in PPs, st'[q].pc \in {"bsend", "binsert"}
             PROVE  LET J == st'[q] IN
      /\ J.pc = "binsert" => J.date <= now'
      /\ \A u \in Uins \ (J.moved \cup {mail'[J.m].from}) :
         /\ Active(u)' => <<J.m, u>> \in inbox' \/ (J.pc = "bsend" /\ u \in Elements(J.rest))
         /\ J.pc = "binsert" /\ ~Online(u)' => <<J.m, u>> \in J.tx \/ u \in Elements(J.rest)
  BY DEF CastInv
<1>2. ASSUME st[q].pc \in {"bsend", "binsert"}
      PROVE  /\ st[q].m \in DOMAIN mail /\ mail'[st[q].m] = mail[st[q].m] /\ st[q].date \in Int
             /\ st[q].pc = "binsert" => st[q].date <= now /\ st[q].date <= now'
             /\ \A u \in Uins \ (st[q].moved \cup {mail[st[q].m].from}) :
               /\ Active(u) => <<st[q].m, u>> \in inbox \/ (st[q].pc = "bsend" /\ u \in Elements(st[q].rest))
               /\ st[q].pc = "binsert" /\ ~Online(u) => <<st[q].m, u>> \in st[q].tx \/ u \in Elements(st[q].rest)
  <2>1. st[q].m \in DOMAIN mail
    BY <1>0, <1>2, WorkPairs DEF Casting
  <2>2. st[q].date \in Int
    BY <1>0, JobParts DEF TypeInv
  <2>3. st[q].pc = "binsert" => st[q].date <= now
    BY <1>0 DEF CastInv
  <2> QED BY <1>0, <1>2, <1>a, <2>1, <2>2, <2>3 DEF CastInv
<1>3. ASSUME st'[q] = st[q], UNCHANGED shm
      PROVE  LET J == st'[q] IN
      /\ J.pc = "binsert" => J.date <= now'
      /\ \A u \in Uins \ (J.moved \cup {mail'[J.m].from}) :
         /\ Active(u)' => <<J.m, u>> \in inbox' \/ (J.pc = "bsend" /\ u \in Elements(J.rest))
         /\ J.pc = "binsert" /\ ~Online(u)' => <<J.m, u>> \in J.tx \/ u \in Elements(J.rest)
  <2>1. \A u : (Active(u)' <=> Active(u)) /\ (Online(u)' <=> Online(u))
    BY <1>3 DEF Active, Online, RecordOf
  <2> QED BY <1>2, <1>3, <1>a, <2>1
<1>4. CASE UNCHANGED vars \/ LateStatement \/ Tick
  BY <1>3, <1>4 DEF vars, LateStatement, Tick
<1>5. ASSUME NEW v \in Uins, Login(v) \/ Activate(v) \/ Logoff(v)
      PROVE  LET J == st'[q] IN
      /\ J.pc = "binsert" => J.date <= now'
      /\ \A u \in Uins \ (J.moved \cup {mail'[J.m].from}) :
         /\ Active(u)' => <<J.m, u>> \in inbox' \/ (J.pc = "bsend" /\ u \in Elements(J.rest))
         /\ J.pc = "binsert" /\ ~Online(u)' => <<J.m, u>> \in J.tx \/ u \in Elements(J.rest)
  <2>1. st' = Moves(v) /\ JobsInv /\ st[q] \in JobType
    BY <1>0, <1>5, JobParts DEF Login, Activate, Logoff, TypeInv
  <2>2. Same(q)
    BY <2>1, MovesSame
  <2>3. st[q].pc \in {"bsend", "binsert"}
    BY <2>2 DEF Same
  <2>4. st'[q] = [st[q] EXCEPT !.moved = @ \cup {v}]
    BY <2>1, <2>3, JobsMove DEF Casting
  <2>5. v \in st'[q].moved
    BY <2>1, <2>4 DEF JobType
  <2>6. \A u \in Uins \ {v} : (Online(u) <=> Online(u)') /\ (Active(u) <=> Active(u)')
    BY <1>0, <1>5, OthersStay
  <2>7. /\ st'[q].pc = st[q].pc /\ st'[q].m = st[q].m /\ st'[q].rest = st[q].rest /\ st'[q].date = st[q].date
        /\ st'[q].tx = st[q].tx /\ st[q].moved \subseteq st'[q].moved
    BY <2>2 DEF Same
  <2> QED BY <1>2, <1>a, <2>3, <2>5, <2>6, <2>7
<1>6. ASSUME NEW p \in PPs, StepOf(p)
      PROVE  LET J == st'[q] IN
      /\ J.pc = "binsert" => J.date <= now'
      /\ \A u \in Uins \ (J.moved \cup {mail'[J.m].from}) :
         /\ Active(u)' => <<J.m, u>> \in inbox' \/ (J.pc = "bsend" /\ u \in Elements(J.rest))
         /\ J.pc = "binsert" /\ ~Online(u)' => <<J.m, u>> \in J.tx \/ u \in Elements(J.rest)
  <2> DEFINE G == LET J == st'[q] IN
      /\ J.pc = "binsert" => J.date <= now'
      /\ \A u \in Uins \ (J.moved \cup {mail'[J.m].from}) :
         /\ Active(u)' => <<J.m, u>> \in inbox' \/ (J.pc = "bsend" /\ u \in Elements(J.rest))
         /\ J.pc = "binsert" /\ ~Online(u)' => <<J.m, u>> \in J.tx \/ u \in Elements(J.rest)
  <2>1. UNCHANGED <<shm, now>> /\ \A u : (Active(u)' <=> Active(u)) /\ (Online(u)' <=> Online(u))
    BY <1>6, OtherSteps DEF Active, Online, RecordOf
  <2>2. st'[q] = st[q] => G
    BY <1>3, <2>1
  <2>3. ASSUME NEW job, st' = [st EXCEPT ![p] = job], job.pc \notin {"bsend", "binsert"} PROVE st'[q] = st[q]
    BY <1>0, <2>3, TypeParts
  <2>4. ASSUME NEW job, st' = [st EXCEPT ![p] = job], q # p PROVE st'[q] = st[q]
    BY <1>0, <2>4, TypeParts
  <2>a. Finish(p) => st'[q] = st[q]
    <3>1. Idle.pc \notin {"bsend", "binsert"}
      BY DEF Idle
    <3> HIDE DEF Idle
    <3> QED BY <2>3, <3>1 DEF Finish
  <2>5. CASE \E x \in MailType : (\E job \in JobType : Taken(p, x, job)) \/ Refused(p, x)
    <3>1. ASSUME NEW x \in MailType, NEW job \in JobType, Taken(p, x, job) PROVE st'[q] = st[q]
      BY <2>3, <3>1 DEF Taken, Delivering
    <3>2. ASSUME NEW x \in MailType, Refused(p, x) PROVE st'[q] = st[q]
      BY <3>2 DEF Refused
    <3> QED BY <2>2, <2>5, <3>1, <3>2
  <2>6. CASE Send(p) \/ AddMessage(p) \/ Pointed(p) \/ EndOfMessages(p) \/ DelMessages(p) \/ CommitOffline(p)
    BY <2>2, <2>6, <2>a DEF Send, AddMessage, Pointed, WriteByPointer, EndOfMessages, DelMessages, CommitOffline,
                            EndBroadcast
  <2>7. ASSUME NEW u \in Uins, Declare(p, u) PROVE st'[q] = st[q]
    <3>1. ASSUME NEW job \in JobType, Declared(p, u, job) PROVE st'[q] = st[q]
      BY <2>3, <3>1 DEF Declared
    <3> QED BY <1>0, <2>7, <3>1, DeclareForms
  <2>8. CASE Fetch(p)
    <3>1. ASSUME NEW rest, NEW d, NEW c, NEW job \in JobType, FetchJob(p, rest, d, c, job)
          PROVE  st'[q] = st[q]
      BY <2>3, <3>1 DEF FetchJob
    <3> QED BY <1>0, <2>2, <2>8, <3>1, FetchForms
  <2>9. ASSUME NEW u \in Uins, NEW e \in told, NEW job \in JobType, DeleteTaken(p, u, e, job) PROVE st'[q] = st[q]
    BY <2>3, <2>9 DEF DeleteTaken
  <2>10. CASE V7DeleteUin(p)
    <3>1. \/ q # p
          \/ st'[q].pc = "del"
      BY <1>0, <2>10, TypeParts, JobParts DEF V7DeleteUin, TypeInv, JobType
    <3>2. st'[q] = st[q]
      BY <1>0, <2>10, <3>1, TypeParts DEF V7DeleteUin
    <3> QED BY <2>2, <3>2
  <2>b. ASSUME NEW pc, NEW rest, NEW t, NEW d, NEW job \in JobType, CastJob(p, pc, rest, t, d, job), p = q
        PROVE  /\ st'[q].pc = pc /\ st'[q].rest = rest /\ st'[q].tx = t /\ st'[q].date = d
               /\ st'[q].m = st[q].m /\ st[q].moved \subseteq st'[q].moved
    BY <1>0, <2>b, TypeParts DEF CastJob
  <2>c. ASSUME NEW pc, NEW rest, NEW t, NEW d, NEW job \in JobType, CastJob(p, pc, rest, t, d, job), p # q
        PROVE  G
    BY <2>2, <2>4, <2>c DEF CastJob
  <2>11. CASE SelectOnline(p)
    <3>1. ASSUME NEW job \in JobType, CastJob(p, "bsend", SetToSeq(Actives(p)), st[p].tx, st[p].date, job),
                 Behind \subseteq job.moved, p = q
          PROVE  G
      <4>1. Elements(SetToSeq(Actives(p))) = Actives(p) /\ st[q].m \in DOMAIN mail
        BY <1>0, <2>11, <3>1, CastFacts, WorkPairs DEF SelectOnline, At, Casting
      <4>2. st'[q].pc = "bsend" /\ st'[q].rest = SetToSeq(Actives(p)) /\ st'[q].m = st[q].m
        BY <2>b, <3>1
      <4>3. Behind \subseteq st'[q].moved
        BY <1>0, <3>1, TypeParts DEF CastJob
      <4>4. ASSUME NEW u \in Uins \ (st'[q].moved \cup {mail'[st'[q].m].from}), Active(u)'
            PROVE  u \in Elements(st'[q].rest)
        <5>1. Active(u) /\ u \notin Behind /\ u # mail[st[p].m].from
          BY <1>a, <2>1, <3>1, <4>1, <4>2, <4>3, <4>4
        <5>2. RowActive(u)
          BY <5>1, BehindFacts
        <5> QED BY <4>1, <4>2, <5>1, <5>2 DEF Actives
      <4> QED BY <4>2, <4>4
    <3> QED BY <1>0, <2>11, <2>2, <2>a, <2>c, <3>1, SelectOnlineForm
  <2>12. CASE SendOnline(p)
    <3>1. PICK job \in JobType : CastJob(p, "bsend", Tail(st[p].rest), st[p].tx, st[p].date, job)
      BY <1>0, <2>12, SendOnlineForm
    <3>2. ASSUME p = q PROVE G
      <4>1. st'[q].pc = "bsend" /\ st'[q].rest = Tail(st[q].rest) /\ st'[q].m = st[q].m /\ st[q].moved \subseteq st'[q].moved
        BY <2>b, <3>1, <3>2
      <4>2. st[q].pc = "bsend" /\ st[q].rest # <<>> /\ st[q].rest \in Seq(Uins)
        BY <1>0, <2>12, <3>2, JobParts DEF SendOnline, At, Casting, TypeInv
      <4>3. Elements(st[q].rest) = {Head(st[q].rest)} \cup Elements(Tail(st[q].rest))
        BY <4>2, TailElements
      <4>4. Online(Head(st[q].rest)) => <<st[q].m, Head(st[q].rest)>> \in inbox'
        BY <2>12, <3>2 DEF SendOnline
      <4> QED BY <1>2, <1>a, <2>1, <4>1, <4>2, <4>3, <4>4, ActiveIsOnline
    <3> QED BY <2>c, <3>1, <3>2
  <2>13. CASE SelectOffline(p)
    <3>1. ASSUME NEW job \in JobType, CastJob(p, "binsert", SetToSeq(Absent), st[p].tx, now, job),
                 Behind \subseteq job.moved, p = q
          PROVE  G
      <4>1. st[q].pc = "bsend" /\ st[q].rest = <<>>
        BY <2>13, <3>1 DEF SelectOffline, At
      <4>2. Elements(SetToSeq(Absent)) = Absent /\ Elements(st[q].rest) = {}
        BY <1>0, <4>1, CastFacts, NoElements DEF Casting
      <4>3. /\ st'[q].pc = "binsert" /\ st'[q].rest = SetToSeq(Absent) /\ st'[q].m = st[q].m
            /\ st'[q].date = now /\ st[q].moved \subseteq st'[q].moved
        BY <2>b, <3>1
      <4>4. Behind \subseteq st'[q].moved
        BY <1>0, <3>1, TypeParts DEF CastJob
      <4>5. ASSUME NEW u \in Uins \ (st'[q].moved \cup {mail'[st'[q].m].from})
            PROVE  /\ Active(u)' => <<st'[q].m, u>> \in inbox'
                   /\ ~Online(u)' => u \in Elements(st'[q].rest)
        <5>1. u \in Uins \ (st[q].moved \cup {mail[st[q].m].from}) /\ u \notin Behind
          BY <1>2, <4>1, <4>3, <4>4, <4>5
        <5>2. Active(u) => <<st[q].m, u>> \in inbox
          BY <1>2, <4>1, <4>2, <5>1
        <5>3. ~Online(u) => RowsOf(u) = {}
          BY <5>1, BehindFacts
        <5>4. ~Online(u) => u \in Elements(st'[q].rest)
          BY <4>2, <4>3, <5>1, <5>3 DEF Absent
        <5> QED BY <1>a, <2>1, <4>3, <5>2, <5>4
      <4>6. now' \in Int /\ now <= now'
        BY <1>a
      <4> QED BY <4>3, <4>5, <4>6
    <3> QED BY <1>0, <2>13, <2>2, <2>a, <2>c, <3>1, SelectOfflineForm DEF EndBroadcast
  <2>14. CASE InsertOffline(p)
    <3>1. ASSUME NEW job \in JobType,
                 CastJob(p, "binsert", Tail(st[p].rest),
                         st[p].tx \cup {<<st[p].m, Head(st[p].rest)>>}, st[p].date, job),
                 p = q
          PROVE  G
      <4>1. /\ st'[q].pc = "binsert" /\ st'[q].rest = Tail(st[q].rest) /\ st'[q].m = st[q].m
            /\ st'[q].tx = st[q].tx \cup {<<st[q].m, Head(st[q].rest)>>} /\ st'[q].date = st[q].date
            /\ st[q].moved \subseteq st'[q].moved
        BY <2>b, <3>1
      <4>2. st[q].pc = "binsert" /\ st[q].rest # <<>> /\ st[q].rest \in Seq(Uins)
        BY <1>0, <2>14, <3>1, JobParts DEF InsertOffline, At, Casting, TypeInv
      <4>3. Elements(st[q].rest) = {Head(st[q].rest)} \cup Elements(Tail(st[q].rest))
        BY <4>2, TailElements
      <4> QED BY <1>2, <1>a, <2>1, <4>1, <4>2, <4>3
    <3> QED BY <1>0, <2>14, <2>2, <2>a, <2>c, <3>1, InsertOfflineForm
  <2> QED BY <1>6, <2>2, <2>5, <2>6, <2>7, <2>8, <2>9, <2>10, <2>11, <2>12, <2>13, <2>14 DEF StepOf
<1> QED BY <1>4, <1>5, <1>6 DEF Steps

----------------------------------------------------------------------------
(* No message is lost without a cause *)

\* A handler with a message goes on, or writes it, or stores it.
LEMMA DeliverersGoOn ==
  ASSUME TypeInv, Steps, NEW q \in PPs, st[q].pc \in Delivering
  PROVE  Same(q) \/ Send(q) \/ AddMessage(q) \/ Pointed(q)
<1>0. st \in [PPs -> JobType]
  BY TypeParts
<1>1. st'[q] = st[q] => Same(q)
  BY DEF Same
<1>2. CASE UNCHANGED vars \/ LateStatement \/ Tick
  BY <1>1, <1>2 DEF vars, LateStatement, Tick
<1>3. ASSUME NEW u \in Uins, Login(u) \/ Activate(u) \/ Logoff(u) PROVE Same(q)
  BY <1>3, SessionsSame
<1>4. ASSUME NEW p \in PPs, StepOf(p) PROVE Same(q) \/ Send(q) \/ AddMessage(q) \/ Pointed(q)
  <2>1. ASSUME NEW job, st' = [st EXCEPT ![p] = job], q # p PROVE Same(q)
    BY <1>0, <1>1, <2>1
  <2>2. CASE Send(p) \/ AddMessage(p) \/ Pointed(p)
    <3>1. CASE p = q
      BY <2>2, <3>1
    <3>2. CASE p # q
      BY <2>1, <2>2, <3>2 DEF Send, AddMessage, Pointed, WriteByPointer, Finish
    <3> QED BY <3>1, <3>2
  <2>3. ASSUME NEW x \in MailType, NEW job \in JobType, Taken(p, x, job) PROVE Same(q)
    BY <2>1, <2>3 DEF Taken, Delivering
  <2>4. ASSUME NEW x \in MailType, Refused(p, x) PROVE Same(q)
    BY <1>1, <2>4 DEF Refused
  <2>5. ASSUME NEW u \in Uins, Declare(p, u) PROVE Same(q)
    <3>1. st[p].pc # st[q].pc
      BY <2>5 DEF Declare, At, Delivering
    <3>2. CASE UNCHANGED st
      BY <1>1, <3>2
    <3>3. ASSUME NEW job \in JobType, Declared(p, u, job) PROVE Same(q)
      BY <2>1, <3>1, <3>3 DEF Declared
    <3> QED BY <2>5, <3>2, <3>3, DeclareForms
  <2>6. CASE Fetch(p)
    <3>1. st[p].pc # st[q].pc
      BY <2>6 DEF Fetch, At, Delivering
    <3>2. ASSUME NEW rest, NEW d, NEW c, NEW job \in JobType, FetchJob(p, rest, d, c, job) PROVE Same(q)
      BY <2>1, <3>1, <3>2 DEF FetchJob
    <3> QED BY <2>6, <3>2, FetchForms
  <2>7. CASE EndOfMessages(p) \/ DelMessages(p) \/ CommitOffline(p)
    BY <2>1, <2>7 DEF EndOfMessages, DelMessages, CommitOffline, EndBroadcast, Finish, At, Delivering
  <2>8. ASSUME NEW u \in Uins, NEW e \in told, NEW job \in JobType, DeleteTaken(p, u, e, job) PROVE Same(q)
    BY <2>1, <2>8 DEF DeleteTaken, Delivering
  <2>9. CASE V7DeleteUin(p)
    <3>1. p # q
      BY <2>9 DEF V7DeleteUin, At, Delivering
    <3>2. st'[q] = st[q]
      BY <1>0, <2>9, <3>1 DEF V7DeleteUin
    <3> QED BY <1>1, <3>2
  <2>10. ASSUME NEW pc, NEW rest, NEW t, NEW d, NEW job \in JobType, CastJob(p, pc, rest, t, d, job), p # q
         PROVE  Same(q)
    BY <2>1, <2>10 DEF CastJob
  <2>11. CASE SelectOnline(p)
    <3>1. p # q
      BY <2>11 DEF SelectOnline, At, Delivering
    <3> QED BY <2>1, <2>10, <2>11, <3>1, SelectOnlineForm DEF Finish
  <2>12. CASE SendOnline(p)
    <3>1. p # q
      BY <2>12 DEF SendOnline, At, Delivering
    <3> QED BY <2>10, <2>12, <3>1, SendOnlineForm
  <2>13. CASE SelectOffline(p)
    <3>1. p # q
      BY <2>13 DEF SelectOffline, At, Delivering
    <3> QED BY <2>1, <2>10, <2>13, <3>1, SelectOfflineForm DEF Finish, EndBroadcast
  <2>14. CASE InsertOffline(p)
    <3>1. p # q
      BY <2>14 DEF InsertOffline, At, Delivering
    <3>2. CASE st' = [st EXCEPT ![p] = Idle]
      BY <2>1, <3>1, <3>2
    <3>3. CASE ~(st' = [st EXCEPT ![p] = Idle])
      <4>1. st' = [st EXCEPT ![p].rest = Tail(@), ![p].tx = @ \cup {<<st[p].m, Head(st[p].rest)>>}]
        BY <2>14, <3>3 DEF InsertOffline, Finish
      <4>2. st'[q] = st[q]
        BY <1>0, <3>1, <4>1
      <4> QED BY <1>1, <4>2
    <3> QED BY <3>2, <3>3
  <2> QED BY <1>4, <2>2, <2>3, <2>4, <2>5, <2>6, <2>7, <2>8, <2>9, <2>11, <2>12, <2>13, <2>14 DEF StepOf
<1> QED BY <1>2, <1>3, <1>4 DEF Steps

\* Only a delete removes rows, and it says which were unseen.
LEMMA BoxesGone ==
  ASSUME TypeInv, Steps
  PROVE  \A r \in boxes \ boxes' : Row(r) \in inbox \/ \E x \in missed' : x.m = r.m /\ x.u = r.u
<1>1. CASE UNCHANGED vars \/ LateStatement \/ Tick
  BY <1>1 DEF vars, LateStatement, Tick
<1>2. ASSUME NEW u \in Uins, Login(u) \/ Activate(u) \/ Logoff(u) PROVE boxes \subseteq boxes'
  BY <1>2, SessionsSame
<1>3. ASSUME NEW p \in PPs, StepOf(p)
      PROVE  \A r \in boxes \ boxes' : Row(r) \in inbox \/ \E x \in missed' : x.m = r.m /\ x.u = r.u
  <2>1. CASE \E x \in MailType : (\E job \in JobType : Taken(p, x, job)) \/ Refused(p, x)
    BY <2>1 DEF Taken, Refused
  <2>2. CASE Send(p) \/ AddMessage(p) \/ Pointed(p)
    BY <2>2 DEF Send, AddMessage, Pointed, WriteByPointer
  <2>3. CASE (\E u \in Uins : Declare(p, u)) \/ Fetch(p) \/ V7DeleteUin(p) \/ EndOfMessages(p)
    BY <2>3 DEF Declare, Fetch, V7DeleteUin, EndOfMessages
  <2>4. CASE \E u \in Uins, e \in told, job \in JobType : DeleteTaken(p, u, e, job)
    BY <2>4 DEF DeleteTaken
  <2>5. CASE SelectOnline(p) \/ SendOnline(p) \/ SelectOffline(p) \/ InsertOffline(p) \/ CommitOffline(p)
    BY <2>5 DEF SelectOnline, SendOnline, SelectOffline, InsertOffline, CommitOffline
  <2>6. CASE DelMessages(p)
    <3> SUFFICES ASSUME NEW r \in boxes \ boxes', Row(r) \notin inbox
                 PROVE  \E x \in missed' : x.m = r.m /\ x.u = r.u
      OBVIOUS
    <3> DEFINE x == [m |-> r.m, u |-> r.u, why |-> WhyUnread(p, r), tie |-> r.date = st[p].date]
    <3>1. r \in Deleted(p) /\ x \in missed'
      BY <2>6 DEF DelMessages
    <3> QED BY <3>1
  <2> QED BY <1>3, <2>1, <2>2, <2>3, <2>4, <2>5, <2>6 DEF StepOf
<1> QED BY <1>1, <1>2, <1>3 DEF Steps

\* A new message has a handler, or was refused.
LEMMA NewMail ==
  ASSUME TypeInv, Steps, NEW m \in DOMAIN mail' \ DOMAIN mail
  PROVE  \/ \E p \in PPs : st'[p].pc # "idle" /\ st'[p].m = m
         \/ Lost(m, mail'[m].to, "refused") \in missed'
<1>1. ~UNCHANGED mail
  OBVIOUS
<1>2. ~(UNCHANGED vars \/ LateStatement \/ Tick)
  BY <1>1 DEF vars, LateStatement, Tick
<1>3. ASSUME NEW u \in Uins, Login(u) \/ Activate(u) \/ Logoff(u) PROVE FALSE
  BY <1>1, <1>3 DEF Login, Activate, Logoff
<1>4. PICK p \in PPs : StepOf(p)
  BY <1>2, <1>3 DEF Steps
<1>5. ~(Send(p) \/ AddMessage(p) \/ Pointed(p) \/ (\E u \in Uins : Declare(p, u)))
  BY <1>1 DEF Send, AddMessage, Pointed, WriteByPointer, Declare
<1>6. ~(Fetch(p) \/ V7DeleteUin(p) \/ EndOfMessages(p) \/ DelMessages(p))
  BY <1>1 DEF Fetch, V7DeleteUin, EndOfMessages, DelMessages
<1>7. ~\E u \in Uins, e \in told, job \in JobType : DeleteTaken(p, u, e, job)
  BY <1>1 DEF DeleteTaken
<1>8. ~(SelectOnline(p) \/ SendOnline(p) \/ SelectOffline(p) \/ InsertOffline(p) \/ CommitOffline(p))
  BY <1>1 DEF SelectOnline, SendOnline, SelectOffline, InsertOffline, CommitOffline
<1>9. PICK x \in MailType : (\E job \in JobType : Taken(p, x, job)) \/ Refused(p, x)
  BY <1>4, <1>5, <1>6, <1>7, <1>8 DEF StepOf
<1>10. mail' = Append(mail, x)
  BY <1>9 DEF Taken, Refused
<1>11. m = Len(mail) + 1 /\ mail'[m] = x
  <2>1. mail \in Seq(MailType) /\ Len(mail) \in Nat /\ DOMAIN mail = 1 .. Len(mail)
    BY TypeParts
  <2>2. mail' \in Seq(MailType) /\ Len(mail') = Len(mail) + 1 /\ mail'[Len(mail) + 1] = x
    BY <1>10, <2>1, AppendProperties
  <2>3. DOMAIN mail' = 1 .. Len(mail')
    BY <2>2, LenProperties
  <2>4. m \in 1 .. Len(mail) + 1 /\ m \notin 1 .. Len(mail)
    BY <2>1, <2>2, <2>3
  <2> QED BY <2>1, <2>2, <2>4
<1>12. ASSUME NEW job \in JobType, Taken(p, x, job) PROVE st'[p].pc # "idle" /\ st'[p].m = m
  <2>1. job.m = m /\ job.pc # "idle" /\ st'[p] = job
    BY <1>11, <1>12, TypeParts DEF Taken, Delivering
  <2> QED BY <2>1
<1>13. ASSUME Refused(p, x) PROVE Lost(m, mail'[m].to, "refused") \in missed'
  BY <1>11, <1>13 DEF Refused
<1> QED BY <1>9, <1>12, <1>13

LEMMA LossesStep ==
  ASSUME IInv, Steps
  PROVE  LossesAreKnown'
<1>0. TypeInv /\ WorkInv /\ MailInv /\ LossesAreKnown
  BY DEF IInv
<1>1. Grows /\ NewMissed
  BY GrowStep, NewMissedStep
<1>2. /\ \A m \in DOMAIN mail : m \in DOMAIN mail' /\ mail'[m] = mail[m]
      /\ missed \subseteq missed' /\ inbox \subseteq inbox' /\ proto' = proto
  BY <1>1 DEF Grows
<1>3. DateProtects'
  <2> SUFFICES ASSUME NEW x \in missed', x.why \in {"late", "cut"}, proto[x.u] = "v3"
               PROVE  x.tie \/ mail'[x.m].way = "broadcast"
    BY <1>2 DEF DateProtects
  <2>1. CASE x \in missed
    <3>1. mail'[x.m] = mail[x.m]
      BY <1>0, <1>2, <2>1 DEF MailInv
    <3> QED BY <1>0, <2>1, <3>1 DEF LossesAreKnown, DateProtects
  <2>2. CASE x \notin missed
    BY <1>1, <2>2 DEF NewMissed
  <2> QED BY <2>1, <2>2
<1>4. \A x \in missed' : x.why \in Causes
  BY <1>0, <1>1 DEF LossesAreKnown, NewMissed
<1>5. ASSUME NEW m \in DOMAIN mail', mail'[m].way # "broadcast"
      PROVE  \/ \E p \in PPs : st'[p].pc # "idle" /\ st'[p].m = m
             \/ <<m, mail'[m].to>> \in inbox'
             \/ \E r \in boxes' : Row(r) = <<m, mail'[m].to>>
             \/ \E x \in missed' : x.m = m /\ x.u = mail'[m].to
  <2> DEFINE u == mail'[m].to
  <2>1. CASE m \notin DOMAIN mail
    <3>1. Lost(m, u, "refused").m = m /\ Lost(m, u, "refused").u = u
      BY DEF Lost
    <3> HIDE DEF u
    <3>2. (\E p \in PPs : st'[p].pc # "idle" /\ st'[p].m = m) \/ Lost(m, u, "refused") \in missed'
      BY <1>0, <2>1, NewMail DEF u
    <3> QED BY <3>1, <3>2 DEF u
  <2>2. CASE m \in DOMAIN mail
    <3>1. mail'[m] = mail[m] /\ u = mail[m].to /\ mail[m].way # "broadcast" /\ m # 0
      BY <1>0, <1>2, <1>5, <2>2, TypeParts
    <3> HIDE DEF u
    <3>2. \/ \E p \in PPs : st[p].pc # "idle" /\ st[p].m = m
          \/ <<m, u>> \in inbox
          \/ \E r \in boxes : Row(r) = <<m, u>>
          \/ \E x \in missed : x.m = m /\ x.u = u
      BY <1>0, <2>2, <3>1 DEF LossesAreKnown, Busy
    <3>3. ASSUME NEW r \in boxes, Row(r) = <<m, u>>
          PROVE  \/ <<m, u>> \in inbox' \/ \E rr \in boxes' : Row(rr) = <<m, u>>
                 \/ \E x \in missed' : x.m = m /\ x.u = u
      <4>1. r.m = m /\ r.u = u
        BY <3>3 DEF Row
      <4> QED BY <1>0, <1>2, <3>3, <4>1, BoxesGone
    <3>4. ASSUME NEW p \in PPs, st[p].pc # "idle", st[p].m = m
          PROVE  \/ st'[p].pc # "idle" /\ st'[p].m = m
                 \/ <<m, u>> \in inbox'
                 \/ \E r \in boxes' : Row(r) = <<m, u>>
                 \/ \E x \in missed' : x.m = m /\ x.u = u
      <4>1. st[p].pc \in Delivering /\ st[p].u = u
        BY <1>0, <3>1, <3>4 DEF WorkInv
      <4>2. CASE Same(p)
        BY <3>4, <4>2 DEF Same
      <4>3. \A why : Lost(m, u, why).m = m /\ Lost(m, u, why).u = u
        BY DEF Lost
      <4>4. CASE Send(p)
        <5>1. <<m, u>> \in inbox' \/ Lost(m, u, "gone") \in missed'
          BY <3>4, <4>1, <4>4 DEF Send
        <5> QED BY <4>3, <5>1
      <4>5. CASE AddMessage(p)
        <5>1. Rows({<<m, u>>}, now) = {[m |-> m, u |-> u, date |-> now]}
          BY DEF Rows
        <5>2. Row([m |-> m, u |-> u, date |-> now]) = <<m, u>>
          BY DEF Row
        <5>3. [m |-> m, u |-> u, date |-> now] \in boxes' \/ Lost(m, u, "database") \in missed'
          BY <3>4, <4>1, <4>5, <5>1 DEF AddMessage
        <5> QED BY <4>3, <5>2, <5>3
      <4>6. CASE Pointed(p)
        <5>1. \/ shm[st[p].slot].uin = u /\ u # 0 /\ <<m, u>> \in inbox'
              \/ \E why : Lost(m, u, why) \in missed'
          <6>1. u # 0
            BY <1>0, <4>1 DEF WorkInv
          <6> QED BY <3>4, <4>1, <4>6, <6>1 DEF Pointed, WriteByPointer
        <5> QED BY <4>3, <5>1
      <4> QED BY <1>0, <4>1, <4>2, <4>4, <4>5, <4>6, DeliverersGoOn
    <3> QED BY <1>2, <3>2, <3>3, <3>4 DEF u
  <2> QED BY <2>1, <2>2
<1> QED BY <1>3, <1>4, <1>5 DEF LossesAreKnown, Busy

----------------------------------------------------------------------------
(* The theorems *)

\* Only the statements of sessions change the rows.
LEMMA RowsStep ==
  ASSUME RowsInv, [Next]_vars
  PROVE  RowsInv'
<1>1. ASSUME NEW u \in Uins, NEW a \in Statements PROVE RowsAfter(u, a) \subseteq Uins \X BOOLEAN
  <2>1. Udp(u) \in BOOLEAN
    BY DEF Udp
  <2>2. \A x \in rows : x[1] \in Uins /\ x[2] \in BOOLEAN
    BY DEF RowsInv
  <2>3. CASE a = "insert"
    BY <2>1, <2>3 DEF RowsAfter, RowsInv
  <2>4. CASE a = "update"
    <3>1. RowsAfter(u, a) = {<<x[1], x[2] \/ x[1] = u>> : x \in rows}
      BY <2>4 DEF RowsAfter
    <3>2. ASSUME NEW x \in rows PROVE <<x[1], x[2] \/ x[1] = u>> \in Uins \X BOOLEAN
      <4>1. (x[2] \/ x[1] = u) \in BOOLEAN
        OBVIOUS
      <4> QED BY <2>2, <4>1
    <3> QED BY <3>1, <3>2
  <2>5. CASE a = "delete"
    BY <2>5 DEF RowsAfter, RowsInv
  <2> QED BY <2>3, <2>4, <2>5 DEF Statements
<1>2. UNCHANGED <<rows, due>> => RowsInv'
  BY DEF RowsInv
<1>3. ASSUME NEW u \in Uins, NEW a \in Statements, Follows(u, a) PROVE RowsInv'
  BY <1>1, <1>3 DEF Follows, RowsInv
<1>4. "insert" \in Statements /\ "update" \in Statements /\ "delete" \in Statements
  BY DEF Statements
<1>5. ASSUME NEW u \in Uins, Login(u) \/ Activate(u) \/ Logoff(u) PROVE RowsInv'
  BY <1>3, <1>4, <1>5 DEF Login, Activate, Logoff
<1>6. CASE LateStatement
  <2>1. PICK d \in due : due' = due \ {d} /\ (rows' = RowsAfter(d[1], d[2]) \/ UNCHANGED rows)
    BY <1>6 DEF LateStatement
  <2>2. d[1] \in Uins /\ d[2] \in Statements
    BY DEF RowsInv
  <2> QED BY <1>1, <2>1, <2>2 DEF RowsInv
<1>7. CASE Tick \/ UNCHANGED vars
  BY <1>2, <1>7 DEF Tick, vars
<1>8. ASSUME NEW p \in PPs, TakeOne(p) PROVE RowsInv'
  <2>1. ASSUME NEW f \in Writers, BadLength(p, f) PROVE RowsInv'
    BY <1>5, <2>1 DEF BadLength
  <2>2. ASSUME ~\E f \in Writers : BadLength(p, f) PROVE UNCHANGED <<rows, due>>
    BY <1>8, <2>2 DEF TakeOne, V3Message, V5Message, V7Message, Broadcast, TakeRest
  <2> QED BY <1>2, <2>1, <2>2
<1>9. ASSUME NEW p \in PPs, Deliver(p) PROVE RowsInv'
  BY <1>2, <1>9 DEF Deliver, Send, AddMessage, SendX1, SendX4e, SendX2, Notify, WriteByPointer
<1>10. ASSUME NEW p \in PPs, Read(p) PROVE RowsInv'
  BY <1>2, <1>10 DEF Read, V3Read, V5Read, V7Read, Declare, V3Fetch, V5Fetch, V7Fetch, Fetch, EndOfMessages,
                     V3Delete, V5Delete, V7Delete, V7DeleteUin, DelMessages
<1>11. ASSUME NEW p \in PPs, Spread(p) PROVE RowsInv'
  BY <1>2, <1>11 DEF Spread, SelectOnline, SendOnline, SelectOffline, InsertOffline, CommitOffline
<1> QED BY <1>5, <1>6, <1>7, <1>8, <1>9, <1>10, <1>11 DEF Next

LEMMA Initially ==
  ASSUME Init
  PROVE  IInv
<1>1. /\ proto \in Clients /\ shm = [s \in Slots |-> Hole] /\ mail = <<>> /\ boxes = {} /\ inbox = {}
      /\ told = {} /\ kept = {} /\ missed = {} /\ st = [p \in PPs |-> Idle]
      /\ nsess = 0 /\ nread = 0 /\ now = 1 /\ nerr = 0
  BY DEF Init
<1>2. \A p \in PPs : st[p] = Idle
  BY <1>1
<1>3. Idle.pc = "idle" /\ Idle.m = 0
  BY DEF Idle
<1>4. "idle" \notin {"fetch"} \cup Delivering \cup Casting \cup Deleting \cup ByPointer
  BY DEF Delivering, Casting, Deleting, ByPointer
<1>5. mail \in Seq(MailType) /\ Len(mail) = 0 /\ DOMAIN mail = {}
  BY <1>1, EmptySeq
<1> HIDE DEF Idle
<1>6. TypeInv
  <2>1. Hole \in ShmType
    BY DEF Hole, ShmType
  <2>2. JobsInv
    BY <1>1, <1>2, <1>3, <1>4, IdleType DEF JobsInv
  <2>3. shm \in [Slots -> ShmType]
    BY <1>1, <2>1
  <2>4. 1 \in 1 .. MaxTime /\ MaxMsgs >= 0
    OBVIOUS
  <2> QED BY <1>1, <1>5, <2>2, <2>3, <2>4 DEF TypeInv
<1>7. SessionInv
  <2>1. \A s \in Slots : shm[s].sid = 0 /\ shm[s].uin = 0
    BY <1>1 DEF Hole
  <2> QED BY <1>1, <2>1 DEF SessionInv
<1>8. WorkInv
  <2>1. \A p \in PPs : st[p].m = 0 /\ st[p].pc = "idle"
    BY <1>2, <1>3
  <2> QED BY <1>4, <1>5, <2>1 DEF WorkInv
<1>9. MailInv /\ ShownInv /\ ToldInv
  BY <1>1, <1>2, <1>3 DEF MailInv, ShownInv, ToldInv
<1>10. CursorInv /\ DeleteInv /\ CastInv
  BY <1>2, <1>3, <1>4 DEF CursorInv, DeleteInv, CastInv
<1>11. SenderIsToldTheTruth /\ LossesAreKnown
  BY <1>1, <1>5 DEF SenderIsToldTheTruth, LossesAreKnown, DateProtects
<1>12. RowsInv
  BY DEF RowsInv, Init
<1> QED BY <1>6, <1>7, <1>8, <1>9, <1>10, <1>11, <1>12 DEF IInv

LEMMA Inductive ==
  ASSUME IInv, [Next]_vars
  PROVE  IInv'
<1>1. TypeInv /\ SessionInv
  BY DEF IInv
<1>2. Steps
  BY <1>1, StepForms
<1>3. TypeInv' /\ SessionInv' /\ WorkInv' /\ MailInv'
  BY <1>1, <1>2, TypeStep, SessionStep, WorkStep, MailStep
<1>4. CursorInv' /\ ToldInv' /\ DeleteInv' /\ CastInv'
  BY <1>2, CursorStep, ToldStep, DeleteStep, CastStep
<1>5. ShownInv' /\ SenderIsToldTheTruth' /\ LossesAreKnown'
  BY <1>2, ShownStep, SenderStep, LossesStep
<1>6. RowsInv'
  BY RowsStep DEF IInv
<1> QED BY <1>3, <1>4, <1>5, <1>6 DEF IInv

LEMMA Invariance == Spec => []IInv
<1>1. Init => IInv
  BY Initially
<1>2. IInv /\ [Next]_vars => IInv'
  BY Inductive
<1> QED BY <1>1, <1>2, PTL DEF Spec

LEMMA TypesHold ==
  ASSUME IInv
  PROVE  TypeOK
<1>1. TypeInv /\ RowsInv /\ WorkInv /\ MailInv
  BY DEF IInv
<1>2. Len(mail) \in 0 .. MaxMsgs
  BY <1>1, TypeParts
<1>3. {Row(r) : r \in boxes} \subseteq kept
  BY <1>1 DEF MailInv
<1>4. ASSUME NEW p \in PPs
      PROVE  /\ st[p].m \in 0 .. Len(mail) /\ st[p].sid \in 0 .. MaxSessions
             /\ st[p].slot \in Slots \cup {0} /\ st[p].date \in 0 .. All
             /\ st[p].target \in Uins \cup {0}
             /\ st[p].tx \subseteq Pairs /\ st[p].moved \subseteq Uins
  BY <1>1, JobParts DEF WorkInv, TypeInv
<1> QED BY <1>1, <1>2, <1>3, <1>4, TypeParts DEF TypeOK, RowsInv, ShmType

\* A message is shown to nobody but its recipient, unless a V7 handler's pointer came
\* to another user's record (v7_send_user_message_x1 and its kin, process_msg_ack,
\* process_msg_mtn), and what is in a user's box is for the user.
THEOREM ShownToTheRecipient == Spec => []OnlyForTheRecipient
<1>1. ASSUME IInv PROVE OnlyForTheRecipient
  <2>1. TypeOK /\ MailInv /\ ShownInv
    BY <1>1, TypesHold DEF IInv
  <2>2. ASSUME NEW x \in inbox \cup kept, mail[x[1]].way # "broadcast"
        PROVE  \/ mail[x[1]].to = x[2]
               \/ /\ mail[x[1]].way = "v7" /\ x \notin kept
                  /\ \E y \in missed : y.m = x[1] /\ y.why = "reused"
    BY <2>1, <2>2 DEF MailInv, ShownInv
  <2> QED BY <2>1, <2>2 DEF OnlyForTheRecipient
<1> QED BY <1>1, Invariance, PTL

\* What process_msg_send answers a V7 sender is true, although it answers first and
\* delivers afterwards.
THEOREM AnswersAreTrue == Spec => []SenderIsToldTheTruth
<1>1. IInv => SenderIsToldTheTruth
  BY DEF IInv
<1> QED BY <1>1, Invariance, PTL

\* No message is lost but for the causes listed with LossesAreKnown, however the
\* handlers, the readers, the deletes and the broadcasts interleave.
THEOREM LossesHaveCauses == Spec => []LossesAreKnown
<1>1. IInv => LossesAreKnown
  BY DEF IInv
<1> QED BY <1>1, Invariance, PTL

----------------------------------------------------------------------------
(* The refinement of Mailbox *)

InBox  == {x \in {Row(r) : r \in boxes} : IsLetter(x)}
WasPut == {x \in kept : IsLetter(x)}
Shown  == {x \in inbox : IsLetter(x)}
MailboxStep == Letters!Next \/ UNCHANGED <<InBox, WasPut, Shown>>

\* The message of a handler is a letter that was never put or handed.
LEMMA HandlersLetter ==
  ASSUME TypeInv, WorkInv, NEW p \in PPs, st[p].pc \in Delivering
  PROVE  LET x == <<st[p].m, st[p].u>> IN IsLetter(x) /\ x \in Pairs /\ x \notin kept \cup inbox
<1>1. st[p].m \in DOMAIN mail /\ \A u \in Uins : <<st[p].m, u>> \in Pairs
  BY WorkPairs
<1>2. /\ mail[st[p].m].way # "broadcast" /\ mail[st[p].m].to = st[p].u /\ st[p].u \in Uins
      /\ \A x \in inbox \cup kept : x[1] # st[p].m
  BY DEF WorkInv
<1> DEFINE x == <<st[p].m, st[p].u>>
<1>3. x[1] = st[p].m /\ x[2] = st[p].u
  OBVIOUS
<1>4. x \in Pairs
  BY <1>1, <1>2
<1> HIDE DEF x
<1>5. IsLetter(x) /\ x \notin kept \cup inbox
  BY <1>1, <1>2, <1>3 DEF IsLetter
<1> QED BY <1>4, <1>5 DEF x

LEMMA RefinedStep ==
  ASSUME IInv, Steps
  PROVE  MailboxStep
<1>0. TypeInv /\ WorkInv /\ MailInv
  BY DEF IInv
<1>1. ASSUME NEW x \in inbox \cup kept PROVE IsLetter(x)' <=> IsLetter(x)
  <2>1. x[1] \in DOMAIN mail
    BY <1>0 DEF MailInv
  <2>2. x[1] \in DOMAIN mail' /\ mail'[x[1]] = mail[x[1]]
    BY <2>1, GrowStep DEF Grows
  <2> QED BY <2>1, <2>2 DEF IsLetter
<1>a. \A r \in boxes : Row(r) \in kept
  BY <1>0 DEF MailInv
<1>2. boxes' = boxes => InBox' = InBox
  BY <1>1, <1>a DEF InBox
<1>3. kept' = kept => WasPut' = WasPut
  BY <1>1 DEF WasPut
<1>4. inbox' = inbox => Shown' = Shown
  BY <1>1 DEF Shown
<1>5. UNCHANGED <<boxes, kept, inbox>> => MailboxStep
  BY <1>2, <1>3, <1>4 DEF MailboxStep
\* Something is shown.
<1>6. ASSUME NEW x, inbox' = inbox \cup {x}, UNCHANGED <<mail, boxes, kept>>,
             IsLetter(x) => x \in Pairs
      PROVE  MailboxStep
  <2>1. InBox' = InBox /\ WasPut' = WasPut
    BY <1>2, <1>3, <1>6
  <2>2. IsLetter(x)' <=> IsLetter(x)
    BY <1>6 DEF IsLetter
  <2>3. CASE ~IsLetter(x)
    <3>1. Shown' = Shown
      BY <1>1, <1>6, <2>2, <2>3 DEF Shown
    <3> QED BY <2>1, <3>1 DEF MailboxStep
  <2>4. CASE IsLetter(x)
    <3>1. Shown' = Shown \cup {x}
      BY <1>1, <1>6, <2>2, <2>4 DEF Shown
    <3>2. Letters!Hand(x) \/ Letters!Show(x)
      <4>1. CASE x \in WasPut
        BY <2>1, <3>1, <4>1 DEF Letters!Show, InBox, WasPut, Shown
      <4>2. CASE x \notin WasPut
        BY <2>1, <3>1, <4>2 DEF Letters!Hand, InBox, WasPut, Shown
      <4> QED BY <4>1, <4>2
    <3> QED BY <1>6, <2>4, <3>2 DEF MailboxStep, Letters!Next
  <2> QED BY <2>3, <2>4
<1>7. CASE UNCHANGED vars \/ LateStatement \/ Tick
  BY <1>5, <1>7 DEF vars, LateStatement, Tick
<1>8. ASSUME NEW u \in Uins, Login(u) \/ Activate(u) \/ Logoff(u) PROVE MailboxStep
  BY <1>0, <1>5, <1>8, SessionsSame
<1>9. ASSUME NEW p \in PPs, StepOf(p) PROVE MailboxStep
  <2> DEFINE x == <<st[p].m, st[p].u>>
  <2>1. st[p].pc \in Delivering => IsLetter(x) /\ x \in Pairs /\ x \notin kept \cup inbox
    BY <1>0, HandlersLetter
  <2>2. CASE \E y \in MailType : (\E job \in JobType : Taken(p, y, job)) \/ Refused(p, y)
    BY <1>5, <2>2 DEF Taken, Refused
  <2>3. CASE Send(p)
    <3>1. st[p].pc \in Delivering /\ UNCHANGED <<mail, boxes, kept>> /\ (inbox' = inbox \/ inbox' = inbox \cup {x})
      BY <2>3 DEF Send, At, Delivering
    <3> HIDE DEF x
    <3> QED BY <1>5, <1>6, <2>1, <3>1
  <2>4. CASE Pointed(p)
    <3> DEFINE y == <<st[p].m, shm[st[p].slot].uin>>
    <3>1. /\ st[p].pc \in Delivering /\ UNCHANGED <<mail, boxes, kept>>
          /\ (inbox' = inbox \/ inbox' = inbox \cup {y})
      BY <2>4 DEF Pointed, WriteByPointer, ByPointer, Delivering
    <3>2. IsLetter(y) => y \in Pairs
      <4>1. IsLetter(y) => shm[st[p].slot].uin = st[p].u
        BY <1>0, <3>1 DEF IsLetter, WorkInv
      <4> QED BY <2>1, <3>1, <4>1
    <3> HIDE DEF y
    <3> QED BY <1>5, <1>6, <3>1, <3>2
  <2>5. CASE AddMessage(p)
    <3>1. CASE UNCHANGED <<boxes, kept>>
      BY <1>5, <2>5, <3>1 DEF AddMessage
    <3>2. CASE boxes' = boxes \cup Rows({x}, now) /\ kept' = kept \cup {x}
      <4>1. UNCHANGED <<mail, inbox>> /\ st[p].pc \in Delivering
        BY <2>5 DEF AddMessage, At, Delivering
      <4>a. PICK c : c = x
        OBVIOUS
      <4>b. IsLetter(c) /\ c \in Pairs /\ c \notin kept \cup inbox
        BY <2>1, <4>1, <4>a
      <4>2. IsLetter(c)' /\ IsLetter(c)
        BY <4>1, <4>b DEF IsLetter
      <4>c. kept' = kept \cup {c}
        BY <3>2, <4>a
      <4>3. Rows({x}, now) = {[m |-> st[p].m, u |-> st[p].u, date |-> now]}
        BY DEF Rows
      <4>4. Row([m |-> st[p].m, u |-> st[p].u, date |-> now]) = c
        BY <4>a DEF Row
      <4>5. {Row(r) : r \in boxes'} = {Row(r) : r \in boxes} \cup {c}
        <5> HIDE DEF x
        <5> QED BY <3>2, <4>3, <4>4
      <4>6. InBox' = InBox \cup {c}
        BY <1>1, <1>a, <4>2, <4>5 DEF InBox
      <4>7. WasPut' = WasPut \cup {c}
        BY <1>1, <4>2, <4>c DEF WasPut
      <4>8. Shown' = Shown /\ c \notin WasPut \cup Shown
        BY <1>4, <4>1, <4>b DEF WasPut, Shown
      <4>9. Letters!Put(c)
        BY <4>6, <4>7, <4>8 DEF Letters!Put, InBox, WasPut, Shown
      <4> QED BY <4>b, <4>9 DEF MailboxStep, Letters!Next
    <3> QED BY <2>5, <3>1, <3>2 DEF AddMessage
  <2>6. CASE (\E u \in Uins : Declare(p, u)) \/ V7DeleteUin(p) \/ EndOfMessages(p)
    BY <1>5, <2>6 DEF Declare, V7DeleteUin, EndOfMessages
  <2>7. CASE Fetch(p)
    <3> DEFINE y == Row(Head(st[p].rest))
    <3>1. /\ UNCHANGED <<mail, boxes, kept>> /\ (inbox' = inbox \/ inbox' = inbox \cup {y})
      BY <2>7 DEF Fetch
    <3>2. y \in Pairs
      BY <1>0, <2>7, FetchForms DEF Row, RowType, Pairs
    <3> HIDE DEF y
    <3> QED BY <1>5, <1>6, <3>1, <3>2
  <2>8. CASE \E u \in Uins, e \in told, job \in JobType : DeleteTaken(p, u, e, job)
    BY <1>5, <2>8 DEF DeleteTaken
  <2>9. CASE DelMessages(p)
    <3>1. UNCHANGED <<mail, inbox, kept>>
      BY <2>9 DEF DelMessages
    <3>2. CASE boxes' = boxes
      BY <1>5, <3>1, <3>2
    <3>3. CASE boxes' = boxes \ Deleted(p)
      <4> DEFINE S == InBox \ InBox'
      <4>1. \A y : IsLetter(y)' <=> IsLetter(y)
        BY <3>1 DEF IsLetter
      <4>2. InBox' \subseteq InBox
        BY <3>3, <4>1 DEF InBox
      <4>3. ASSUME NEW y \in S PROVE y[2] = st[p].target
        <5>1. PICK r \in boxes : y = Row(r) /\ IsLetter(y)
          BY <4>3 DEF InBox
        <5>2. r \in Deleted(p)
          BY <3>3, <4>1, <4>3, <5>1 DEF InBox
        <5> QED BY <5>1, <5>2 DEF Deleted, Row
      <4>4. InBox' = InBox \ S
        BY <4>2
      <4>5. WasPut' = WasPut /\ Shown' = Shown
        BY <1>3, <1>4, <3>1
      <4> HIDE DEF S
      <4>6. CASE S = {}
        <5>1. InBox' = InBox
          BY <4>4, <4>6
        <5> QED BY <4>5, <5>1 DEF MailboxStep
      <4>7. CASE S # {}
        <5>1. PICK y : y \in S
          BY <4>7
        <5>2. y \in Pairs /\ y[2] = st[p].target
          <6>1. y \in InBox
            BY <5>1 DEF S
          <6>2. y \in kept
            BY <1>a, <6>1 DEF InBox
          <6> QED BY <1>0, <4>3, <5>1, <6>2, TypeParts
        <5>3. S \subseteq {z \in InBox : z[2] = st[p].target}
          BY <4>3 DEF S
        <5>4. Letters!Remove(st[p].target)
          BY <4>4, <4>5, <5>3 DEF Letters!Remove, InBox, WasPut, Shown
        <5>5. st[p].target \in {z[2] : z \in Pairs}
          BY <5>2
        <5> QED BY <5>4, <5>5 DEF MailboxStep, Letters!Next
      <4> QED BY <4>6, <4>7
    <3> QED BY <2>9, <3>2, <3>3 DEF DelMessages
  <2>10. CASE SelectOnline(p) \/ SelectOffline(p) \/ InsertOffline(p)
    BY <1>5, <2>10 DEF SelectOnline, SelectOffline, InsertOffline
  <2>11. CASE SendOnline(p)
    <3> DEFINE y == <<st[p].m, Head(st[p].rest)>>
    <3>1. UNCHANGED <<mail, boxes, kept>> /\ (inbox' = inbox \/ inbox' = inbox \cup {y}) /\ st[p].pc \in Casting
      BY <2>11 DEF SendOnline, At, Casting
    <3>2. ~IsLetter(y)
      BY <1>0, <3>1 DEF IsLetter, WorkInv
    <3> HIDE DEF y
    <3> QED BY <1>5, <1>6, <3>1, <3>2
  <2>12. CASE CommitOffline(p)
    <3>1. /\ UNCHANGED <<mail, inbox>> /\ st[p].pc \in Casting
          /\ kept' = kept \cup st[p].tx /\ boxes' = boxes \cup Rows(st[p].tx, st[p].date)
      BY <2>12 DEF CommitOffline, At, Casting, EndBroadcast
    <3>2. \A y : IsLetter(y)' <=> IsLetter(y)
      BY <3>1 DEF IsLetter
    <3>3. ASSUME NEW y \in st[p].tx PROVE ~IsLetter(y)
      BY <1>0, <3>1 DEF IsLetter, WorkInv
    <3>4. ASSUME NEW r \in Rows(st[p].tx, st[p].date) PROVE Row(r) \in st[p].tx
      <4>1. PICK y \in st[p].tx : r = [m |-> y[1], u |-> y[2], date |-> st[p].date]
        BY DEF Rows
      <4>2. y = <<y[1], y[2]>>
        BY <1>0, JobParts DEF Pairs, TypeInv
      <4> QED BY <4>1, <4>2 DEF Row
    <3>5. InBox' = InBox
      BY <3>1, <3>2, <3>3, <3>4 DEF InBox
    <3>6. WasPut' = WasPut /\ Shown' = Shown
      BY <1>4, <3>1, <3>2, <3>3 DEF WasPut
    <3> QED BY <3>5, <3>6 DEF MailboxStep
  <2> QED BY <1>9, <2>2, <2>3, <2>4, <2>5, <2>6, <2>7, <2>8, <2>9, <2>10, <2>11, <2>12 DEF StepOf
<1> QED BY <1>7, <1>8, <1>9 DEF Steps

\* The handlers, readers and deletes implement the mailbox: a letter is stored or handed
\* over once, it is shown again only from the mailbox, and does not come back.
THEOREM LettersAreKept == Spec => MailboxPromise
<1>1. Init => Letters!Init
  BY DEF Init, Letters!Init
<1>2. IInv /\ [Next]_vars => [Letters!Next]_<<{x \in {Row(r) : r \in boxes} : IsLetter(x)},
                                               {x \in kept : IsLetter(x)}, {x \in inbox : IsLetter(x)}>>
  <2> SUFFICES ASSUME IInv, [Next]_vars PROVE MailboxStep
    BY DEF MailboxStep, InBox, WasPut, Shown
  <2>1. TypeInv
    BY DEF IInv
  <2> QED BY <2>1, StepForms, RefinedStep
<1> QED BY <1>1, <1>2, Invariance, PTL DEF Spec, MailboxPromise, Letters!Spec

=============================================================================
