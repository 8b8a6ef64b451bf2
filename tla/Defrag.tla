------------------------------- MODULE Defrag -------------------------------
(***************************************************************************)
(* Packets that V3 clients send in fragments: the packet processors store  *)
(* each fragment in the table Fragment_Storage and in a large object       *)
(* (isdcore/v3_proto/fragment.cpp, database/defrag_db.cpp), the            *)
(* defragmentation process assembles them (isdcore/fprocess.cpp), the      *)
(* scheduler in the user event process asks for the expired ones to be     *)
(* removed (event/scheduler.cpp), and so do a login and a logoff for those *)
(* of their user.                                                          *)
(*                                                                         *)
(* One user, whose sessions are numbered.  Left out: other users (every    *)
(* query names the user, or the age), the address test (a client that      *)
(* comes back has its old address), and the numbers of the parts, which    *)
(* are those of a correct client.                                          *)
(***************************************************************************)
EXTENDS Integers, Sequences, FiniteSets

CONSTANTS PPs,         \* packet processors that take fragments
          Movers,      \* those that take logins and logoffs, and the user event process
          DP,          \* the defragmentation process
          Packets,     \* bound: [sid, seq], the packets sent in fragments, by session
          Parts,       \* number of fragments of a packet
          Big,         \* the numbers whose packets are longer than MAX_PACKET_SIZE
          Schedules,   \* <<period, counter>>: "defrag db check period" and where the scheduler is
          Expiry,      \* age a fragment may reach, in seconds
          PipeSize,    \* messages the defragmentation pipe holds
          MaxLogins,   \* bound: sessions of the user
          MaxEvents    \* bound: fragments taken, logins, logoffs, seconds, statements that fail

ASSUME SetsAssumption   == /\ DP \notin PPs \cup Movers
                           /\ Packets \subseteq [sid : 1 .. MaxLogins, seq : Nat \ {0}]
ASSUME BoundsAssumption == /\ Parts \in Nat \ {0} /\ Expiry \in Nat /\ PipeSize \in Nat \ {0}
                           /\ MaxLogins \in Nat \ {0} /\ MaxEvents \in Nat
\* With a period of one second the check runs once: the counter is set to 1,
\* incremented, and never equal to the period again.
ASSUME PeriodAssumption == \A s \in Schedules : s[1] \in Nat /\ s[1] > 1 /\ s[2] \in 0 .. s[1]

VARIABLES sid,       \* the user's session, 0 when he is offline
          nlogin,    \* history: sessions so far
          rows,      \* Fragment_Storage: fragments with their large object and age
          objects,   \* the large objects
          dpipe,     \* messages to the defragmentation process
          st,        \* what each process is doing
          period, counter,  \* of the scheduler
          injected,  \* history: the contents of the packets that were assembled
          taken,     \* history: how often each fragment was received and acknowledged
          lost,      \* history: <<packet, why>>, what happened to its fragments
          nevent

vars  == <<sid, nlogin, rows, objects, dpipe, st, period, counter, injected, taken, lost, nevent>>
clock == <<period, counter>>
past  == <<nlogin, injected, taken, lost>>

Part      == 0 .. Parts - 1
Fragments == {[sid |-> k.sid, seq |-> k.seq, part |-> i] : k \in Packets, i \in Part}
Seqs      == {k.seq : k \in Packets}
Objects   == [frag : Fragments, copy : 1 .. MaxEvents]
Procs     == PPs \cup Movers \cup {DP}
Void      == [sid |-> 0, seq |-> 0, part |-> 0]   \* what a failed lo_read leaves in the packet
Idle      == [op |-> "idle", seq |-> 0, frag |-> Void, copy |-> 0, got |-> {}, data |-> <<>>, after |-> "idle"]
Check     == 0   \* MESS_FRGCHECK; MESS_DEFRAG carries the number of the packet

\* The user is online, in his first session.
Init ==
  /\ sid = 1 /\ nlogin = 1
  /\ rows = {} /\ objects = {} /\ dpipe = <<>>
  /\ st = [a \in Procs |-> Idle]
  /\ \E s \in Schedules : period = s[1] /\ counter = s[2]
  /\ injected = <<>> /\ taken = [f \in Fragments |-> 0] /\ lost = {} /\ nevent = 0

At(a, op)      == st[a].op = op
Goto(a, job)   == st' = [st EXCEPT ![a] = job]
Becomes(a, op) == Goto(a, [st[a] EXCEPT !.op = op])
Event          == nevent < MaxEvents /\ nevent' = nevent + 1
PacketOf(f)    == [sid |-> f.sid, seq |-> f.seq]
Contents(k)    == [n \in 1 .. Parts |-> [sid |-> k.sid, seq |-> k.seq, part |-> n - 1]]
Assembled(k)   == \E i \in DOMAIN injected : injected[i] = Contents(k)
Why(R, why)    == {<<k, why>> : k \in {x \in Packets : ~Assembled(x) /\ \E r \in R : PacketOf(r.object.frag) = x}}

----------------------------------------------------------------------------
(* Packet processors *)

\* The fragment is acknowledged before it is stored.
TakeFragment(p, f) ==
  /\ At(p, "idle") /\ sid # 0 /\ f.sid <= nlogin
  /\ Event
  /\ taken' = [taken EXCEPT ![f] = @ + 1]
  /\ Goto(p, [Idle EXCEPT !.op = "add", !.frag = f, !.copy = taken[f] + 1])
  /\ UNCHANGED <<sid, nlogin, rows, objects, dpipe, clock, injected, lost>>

\* One transaction: the object and the row.
AddPart(p) ==
  /\ At(p, "add")
  /\ LET o == [frag |-> st[p].frag, copy |-> st[p].copy]
     IN objects' = objects \cup {o} /\ rows' = rows \cup {[object |-> o, age |-> 0]}
  /\ Becomes(p, "notify")
  /\ UNCHANGED <<sid, dpipe, clock, past, nevent>>

NotifyOfLast(p) ==  \* mutant
  /\ At(p, "notify") /\ Len(dpipe) < PipeSize
  /\ dpipe' = IF st[p].frag.part = Parts - 1 THEN Append(dpipe, st[p].frag.seq) ELSE dpipe
  /\ Goto(p, Idle)
  /\ UNCHANGED <<sid, rows, objects, clock, past, nevent>>
Notify(p) ==
  /\ At(p, "notify") /\ Len(dpipe) < PipeSize
  /\ dpipe' = Append(dpipe, st[p].frag.seq)
  /\ Goto(p, Idle)
  /\ UNCHANGED <<sid, rows, objects, clock, past, nevent>>

\* The row of the session is there before the fragments are removed.
Login(p) ==
  /\ At(p, "idle") /\ sid = 0 /\ nlogin < MaxLogins
  /\ Event
  /\ nlogin' = nlogin + 1 /\ sid' = nlogin + 1
  /\ Goto(p, [Idle EXCEPT !.op = "wipe"])
  /\ UNCHANGED <<rows, objects, dpipe, clock, injected, taken, lost>>

\* Fragments first, then the session.
MoveOffline(p) ==
  /\ At(p, "idle") /\ sid # 0
  /\ Event
  /\ Goto(p, [Idle EXCEPT !.op = "wipe", !.after = "gone"])
  /\ UNCHANGED <<sid, rows, objects, dpipe, clock, past>>
Gone(p) ==
  /\ At(p, "gone")
  /\ sid' = 0
  /\ Goto(p, Idle)
  /\ UNCHANGED <<rows, objects, dpipe, clock, past, nevent>>

----------------------------------------------------------------------------
(* The three db_defrag_delete: of a user ("wipe"), of a packet ("remove"), *)
(* of the expired fragments ("expire").  They select, unlink the objects   *)
(* and delete the rows in one transaction: unlinking an object that is     *)
(* gone already fails and rolls it back.                                   *)

Deletes == {"wipe", "remove", "expire"}
Expired(R) == {r \in R : r.age > Expiry}
Chosen(a) == CASE At(a, "wipe")   -> rows
               [] At(a, "remove") -> {r \in rows : r.object.frag.seq = st[a].seq}
               [] OTHER           -> Expired(rows)
DeleteSelect(a) ==
  /\ st[a].op \in Deletes /\ st[a].got = {}
  /\ Goto(a, IF Chosen(a) = {} THEN [Idle EXCEPT !.op = st[a].after]
                               ELSE [st[a] EXCEPT !.got = Chosen(a)])
  /\ UNCHANGED <<sid, rows, objects, dpipe, clock, past, nevent>>

Removed(a) == IF At(a, "expire") THEN Expired(rows) ELSE rows
DeleteCommit(a) ==
  /\ st[a].op \in Deletes /\ st[a].got # {}
  /\ LET gone == {r.object : r \in st[a].got}
     IN IF gone \subseteq objects
          THEN /\ objects' = objects \ gone /\ rows' = rows \ Removed(a)
               /\ lost' = lost \cup Why(IF At(a, "remove") THEN Removed(a) \ st[a].got ELSE Removed(a),
                    CASE At(a, "wipe") -> "moved" [] At(a, "remove") -> "sibling" [] OTHER -> "expired")
                    \cup (IF a # DP /\ st[DP].op \in {"lookup", "read"} THEN {<<Void, "cut">>} ELSE {})
          ELSE UNCHANGED <<objects, rows, lost>>
  /\ Goto(a, [Idle EXCEPT !.op = st[a].after])
  /\ UNCHANGED <<sid, nlogin, dpipe, clock, injected, taken, nevent>>

----------------------------------------------------------------------------
(* The defragmentation process *)

Receive ==
  /\ At(DP, "idle") /\ dpipe # <<>>
  /\ dpipe' = Tail(dpipe)
  /\ Goto(DP, IF Head(dpipe) = Check THEN [Idle EXCEPT !.op = "expire"]
              ELSE [Idle EXCEPT !.op = "select", !.seq = Head(dpipe)])
  /\ UNCHANGED <<sid, rows, objects, clock, past, nevent>>

\* As many rows as parts, and each of the parts: a part that came twice is
\* one row too many.
CompleteByCount(R) == Cardinality(R) = Parts  \* mutant
Complete(R) == Cardinality(R) = Parts /\ {r.object.frag.part : r \in R} = Part
SelectParts ==
  /\ At(DP, "select")
  /\ LET R == {r \in rows : r.object.frag.seq = st[DP].seq}
     IN Goto(DP, IF ~Complete(R) THEN Idle
                 ELSE IF st[DP].seq \in Big THEN [st[DP] EXCEPT !.op = "remove"]
                 ELSE [st[DP] EXCEPT !.op = "lookup", !.got = R])
  /\ UNCHANGED <<sid, rows, objects, dpipe, clock, past, nevent>>

\* The parts of a user who is gone are removed, the packet with them.
Lookup ==
  /\ At(DP, "lookup")
  /\ IF sid # 0 THEN Becomes(DP, "read") /\ UNCHANGED lost
     ELSE /\ Goto(DP, [st[DP] EXCEPT !.op = "remove", !.got = {}])
          /\ lost' = lost \cup Why(st[DP].got, "moved")
  /\ UNCHANGED <<sid, nlogin, rows, objects, dpipe, clock, injected, taken, nevent>>

\* In the order of the parts.  An object that is gone aborts the transaction:
\* nothing is read after it.
Piece(r) == IF r.object \in objects /\ \A i \in DOMAIN st[DP].data : st[DP].data[i] # Void
              THEN r.object.frag ELSE Void
ReadPart(r) ==
  /\ At(DP, "read")
  /\ \A x \in st[DP].got : r.object.frag.part <= x.object.frag.part
  /\ Goto(DP, [st[DP] EXCEPT !.got = @ \ {r}, !.data = Append(@, Piece(r))])
  /\ UNCHANGED <<sid, rows, objects, dpipe, clock, past, nevent>>

\* pipe_send_packet: back to the packet processors.
InjectAndKeep ==  \* mutant
  /\ At(DP, "read") /\ st[DP].got = {}
  /\ injected' = Append(injected, st[DP].data)
  /\ Goto(DP, Idle)
  /\ UNCHANGED <<sid, nlogin, rows, objects, dpipe, clock, taken, lost, nevent>>
Inject ==
  /\ At(DP, "read") /\ st[DP].got = {}
  /\ injected' = Append(injected, st[DP].data)
  /\ Goto(DP, [Idle EXCEPT !.op = "remove", !.seq = st[DP].seq])
  /\ UNCHANGED <<sid, nlogin, rows, objects, dpipe, clock, taken, lost, nevent>>

----------------------------------------------------------------------------
(* A statement fails.  An INSERT takes its transaction with it; the result *)
(* is cleared twice then, and the process may not survive (its restart is  *)
(* the business of Supervisor).                                            *)
FailAdd(p) ==
  /\ At(p, "add") /\ Event
  /\ lost' = lost \cup {<<PacketOf(st[p].frag), "failed">>}
  /\ \/ Becomes(p, "notify")
     \/ Goto(p, Idle)
  /\ UNCHANGED <<sid, nlogin, rows, objects, dpipe, clock, injected, taken>>
FailDelete(a) ==
  /\ st[a].op \in Deletes
  /\ Event
  /\ lost' = lost \cup {<<Void, "kept">>}
  /\ Goto(a, [Idle EXCEPT !.op = st[a].after])
  /\ UNCHANGED <<sid, nlogin, rows, objects, dpipe, clock, injected, taken>>
FailCheck ==
  /\ At(DP, "select") \/ At(DP, "lookup")
  /\ Event
  /\ lost' = lost \cup {<<k, "failed">> : k \in {x \in Packets : x.seq = st[DP].seq}}
  /\ Goto(DP, IF At(DP, "select") THEN Idle ELSE [Idle EXCEPT !.op = "remove", !.seq = st[DP].seq])
  /\ UNCHANGED <<sid, nlogin, rows, objects, dpipe, clock, injected, taken>>

----------------------------------------------------------------------------
(* A second passes: MESS_TIMEOUT to the user event process, which blocks   *)
(* when the pipe is full.  scheduler_init is never called; a counter that  *)
(* has passed its period only grows.                                       *)
ScheduledOnce(c) == c  \* mutant
Scheduled(c) == IF c = period THEN 1 ELSE c
Quiet == (\A a \in Procs : At(a, "idle")) /\ dpipe = <<>>
\* Bound: when the events are used up, time passes at rest only.
Second ==
  /\ Len(dpipe) < PipeSize
  /\ Event \/ (nevent = MaxEvents /\ Quiet /\ UNCHANGED nevent)
  /\ counter' = IF counter > period THEN counter ELSE Scheduled(counter) + 1
  /\ dpipe' = IF counter = period THEN Append(dpipe, Check) ELSE dpipe
  /\ rows' = {[r EXCEPT !.age = IF @ > Expiry THEN @ ELSE @ + 1] : r \in rows}
  /\ UNCHANGED <<sid, objects, st, period, past>>

DPStep      == \/ Receive \/ SelectParts \/ Lookup \/ Inject \/ FailCheck
               \/ \E r \in st[DP].got : ReadPart(r)
Deleting(a) == DeleteSelect(a) \/ DeleteCommit(a) \/ FailDelete(a)

PPStep(p) == AddPart(p) \/ Notify(p)
Moving(m) == Gone(m) \/ Deleting(m)
Next ==
  \/ \E p \in PPs : (\E f \in Fragments : TakeFragment(p, f)) \/ PPStep(p) \/ FailAdd(p)
  \/ \E m \in Movers : Login(m) \/ MoveOffline(m) \/ Moving(m)
  \/ DPStep \/ Deleting(DP)
  \/ Second
Spec == Init /\ [][Next]_vars

\* Processes that are ready run, and time passes.
FairSpec == /\ Spec
            /\ \A p \in PPs : WF_vars(PPStep(p))
            /\ \A m \in Movers : WF_vars(Moving(m))
            /\ WF_vars(DPStep \/ Deleting(DP)) /\ WF_vars(Second)
----------------------------------------------------------------------------
\* Every row has its large object, and no other row has it.
TypeOK ==
  /\ sid \in 0 .. nlogin /\ nlogin \in 0 .. MaxLogins
  /\ objects \subseteq Objects /\ rows \subseteq [object : objects, age : 0 .. Expiry + 1]
  /\ \A r, x \in rows : r.object = x.object => r = x
  /\ \A i \in DOMAIN dpipe : dpipe[i] \in Seqs \cup {Check}
  /\ counter \in 0 .. period + 1

Holds(k, d) == \E i \in DOMAIN d : d[i] # Void /\ PacketOf(d[i]) = k
Repeated(k) == \E f \in Fragments : PacketOf(f) = k /\ taken[f] > 1
Reused(k)   == \E f \in Fragments : f.seq = k.seq /\ f.sid # k.sid /\ taken[f] > 0

\* Types; and an assembled packet is one that a client sent, in order, and not too long;
\* parts of two sessions only meet under the same number, and parts are missing
\* only if the user moved meanwhile.
InjectedWhole ==
  /\ TypeOK
  /\ \A i \in DOMAIN injected : LET d == injected[i] IN
    \/ (\E k \in Packets : Contents(k) = d) /\ \A j \in DOMAIN d : d[j].seq \notin Big
    \/ \E k \in Packets : Holds(k, d) /\ Reused(k)
    \/ \E j \in DOMAIN d : d[j] = Void /\ <<Void, "cut">> \in lost

\* No fragment is used more often than it was received, unless it could not be
\* deleted.
UsedOnce ==
  \A f \in Fragments :
    \/ Cardinality({i \in DOMAIN injected : \E j \in DOMAIN injected[i] : injected[i][j] = f}) <= taken[f]
    \/ <<Void, "kept">> \in lost

\* A packet whose fragments were all acknowledged is assembled, but for a known
\* cause: a fragment came twice, fragments of another packet of the user were
\* assembled in between, the user came or went, a statement failed, it expired.
AckedIsInjected ==
  Quiet =>
    \A k \in Packets :
      (k.seq \notin Big /\ \A f \in Fragments : PacketOf(f) = k => taken[f] > 0) =>
        \/ Assembled(k) \/ Repeated(k) \/ Reused(k)
        \/ \E why \in {"moved", "sibling", "failed", "expired"} : <<k, why>> \in lost

\* Fragments that were never assembled do not stay for ever.
FragmentsGo == []<>(rows = {})
=============================================================================
