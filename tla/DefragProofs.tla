---------------------------- MODULE DefragProofs ----------------------------
(***************************************************************************)
(* What becomes of fragments, for any number of packet processors, movers,  *)
(* packets, parts, sessions and failures: what is assembled is whole, no     *)
(* fragment is used more often than it came, and a packet whose fragments    *)
(* were all acknowledged is assembled but for known causes.                  *)
(*                                                                         *)
(* Types and CopiesInv say that each copy of a fragment is stored at most    *)
(* once.  HandInv follows the packet that is being assembled, part by part:  *)
(* an object of it can only be gone if a deletion cut in.  SpentInv counts:  *)
(* each use of a fragment spent one of its copies, and a spent copy is only   *)
(* in the table while its packet is assembled and removed; that a deletion   *)
(* is all or nothing (DeletingInv) is what makes the removal sure.  CleanInv *)
(* is about the packets nothing came in the way of: their fragments are all  *)
(* there, and when they are complete a message or the process itself is on   *)
(* its way to them.                                                          *)
(***************************************************************************)
EXTENDS Defrag, TLAPS, FiniteSetTheorems

----------------------------------------------------------------------------
(* The inductive invariant *)

Hosts   == PPs \cup Movers
HostOps == {"idle", "add", "notify", "wipe", "gone"}
DPOps   == {"idle", "expire", "select", "lookup", "read", "remove"}
Pieces  == Fragments \cup {Void}
RowType == [object : Objects, age : 0 .. Expiry + 1]
JobType == [op : HostOps \cup DPOps, seq : Seqs \cup {0}, frag : Pieces, copy : Nat,
            got : SUBSET RowType, data : Seq(Pieces), after : {"idle", "gone"}]

Kept == <<Void, "kept">> \in lost
Cut  == <<Void, "cut">> \in lost
Assembling == st[DP].op \in {"lookup", "read"}

JobsInv ==
  /\ st \in [Procs -> JobType]
  /\ \A a \in Hosts : st[a].op \in HostOps
  /\ \A p \in Hosts : st[p].op \in {"add", "notify"} => st[p].frag \in Fragments
  /\ st[DP].op \in DPOps /\ st[DP].after = "idle"
  /\ st[DP].op \in {"select", "lookup", "read", "remove"} => st[DP].seq \in Seqs
  /\ At(DP, "select") => st[DP].got = {} /\ st[DP].data = <<>>
TypeInv ==
  /\ nlogin \in 0 .. MaxLogins /\ sid \in 0 .. nlogin
  /\ nevent \in 0 .. MaxEvents
  /\ period \in Nat /\ period > 1 /\ counter \in 0 .. period + 1
  /\ dpipe \in Seq(Seqs \cup {Check})
  /\ injected \in Seq(Seq(Pieces))
  /\ taken \in [Fragments -> 0 .. nevent]
  /\ JobsInv

\* Rows and objects are written and removed together.
StoreInv ==
  /\ objects \subseteq Objects /\ rows \subseteq RowType /\ IsFiniteSet(rows)
  /\ \A r \in rows : r.object \in objects
  /\ \A r, x \in rows : r.object = x.object => r = x

\* A copy of a fragment has been taken; it is stored once.
Pending(p) == [frag |-> st[p].frag, copy |-> st[p].copy]
IsTaken(o) == o.copy \in 1 .. taken[o.frag]
CopiesInv ==
  /\ \A p \in Hosts : At(p, "add") =>
       /\ IsTaken(Pending(p))
       /\ \A r \in rows \cup st[DP].got : r.object # Pending(p)
       /\ \A q \in Hosts : At(q, "add") /\ Pending(q) = Pending(p) => p = q
  /\ \A r \in rows \cup st[DP].got : IsTaken(r.object)

\* What DP has in its hand while it assembles a packet.
HandInv == Assembling =>
  LET J == st[DP] IN
  /\ J.seq \notin Big
  /\ At(DP, "lookup") => J.data = <<>>
  /\ \A j \in DOMAIN J.data : J.data[j] # Void =>
        J.data[j].part = j - 1 /\ J.data[j].seq = J.seq /\ taken[J.data[j]] > 0
  /\ (\E j \in DOMAIN J.data : J.data[j] = Void) => Cut
  /\ \A r \in J.got : r.object.frag.seq = J.seq /\ (r.object \in objects \/ Cut)
  /\ \A r, x \in J.got : r.object.frag.part = x.object.frag.part => r = x
  /\ {r.object.frag.part : r \in J.got} = Len(J.data) .. Parts - 1
  /\ Len(J.data) <= Parts

\* Of a removal that DP has begun either all is still there, or nothing; and what has
\* expired stays so.
DeletingInv ==
  /\ At(DP, "remove") =>
       /\ \A x \in st[DP].got : x.object.frag.seq = st[DP].seq
       /\ \/ \A x \in st[DP].got : x.object \in objects
          \/ \A x \in st[DP].got, r \in rows : r.object # x.object
  /\ At(DP, "expire") => \A x \in st[DP].got, r \in rows : r.object = x.object => r.age > Expiry

\* The copies of f that were used.
Used(f)   == {i \in DOMAIN injected : \E j \in DOMAIN injected[i] : injected[i][j] = f}
InHand(f) == Assembling /\ (\/ \E j \in DOMAIN st[DP].data : st[DP].data[j] = f
                            \/ \E r \in st[DP].got : r.object.frag = f)
Uses(f)   == Cardinality(Used(f)) + (IF InHand(f) THEN 1 ELSE 0)
SpentBy(f, S) ==
  /\ \A p \in Hosts : At(p, "add") /\ st[p].frag = f => st[p].copy \notin S
  /\ \A r \in rows : r.object.frag = f /\ r.object.copy \in S =>
       /\ Assembling \/ At(DP, "remove")
       /\ st[DP].seq = f.seq
       /\ At(DP, "remove") /\ st[DP].got # {} => \E x \in st[DP].got : x.object = r.object
Spent(f, S) == Uses(f) <= Cardinality(S) /\ SpentBy(f, S)
SpentInv == Kept \/ \A f \in Fragments : \E S \in SUBSET (1 .. taken[f]) : Spent(f, S)

\* Packets that nothing came in the way of.
Causes   == {"moved", "sibling", "failed", "expired"}
Clean(k) == /\ k.seq \notin Big /\ ~Assembled(k) /\ ~Repeated(k) /\ ~Reused(k)
            /\ \A why \in Causes : <<k, why>> \notin lost
Of(k)      == {f \in Fragments : PacketOf(f) = k}
Stored(f)  == \E r \in rows : r.object.frag = f
Adding(f)  == \E p \in Hosts : At(p, "add") /\ st[p].frag = f
Announced(k) ==
  \/ \E p \in Hosts : At(p, "notify") /\ PacketOf(st[p].frag) = k
  \/ \E i \in DOMAIN dpipe : dpipe[i] = k.seq
  \/ st[DP].op \in {"select", "lookup", "read"} /\ st[DP].seq = k.seq
InGoodHands(k) ==
  /\ \A j \in DOMAIN st[DP].data : st[DP].data[j] # Void
  /\ \A x \in st[DP].got : x.object \in objects
  /\ \A f \in Of(k) : taken[f] > 0
Safe(k) ==
  /\ \A f \in Of(k) : taken[f] > 0 => Stored(f) \/ Adding(f)
  /\ (\A f \in Of(k) : Stored(f)) => Announced(k)
  /\ At(DP, "remove") => st[DP].seq # k.seq
  /\ Assembling /\ st[DP].seq = k.seq => InGoodHands(k)
CleanInv == \A k \in Packets : Clean(k) => Safe(k)

TInv == TypeInv /\ StoreInv
IInv == TInv /\ CopiesInv /\ HandInv /\ DeletingInv /\ SpentInv /\ CleanInv

----------------------------------------------------------------------------
(* Types *)

\* The constants of the models, typed.
LEMMA Constants ==
  /\ DP \in Procs /\ DP \notin Hosts /\ Procs = Hosts \cup {DP}
  /\ Parts \in Nat \ {0} /\ Expiry \in Nat /\ MaxLogins \in Nat /\ MaxEvents \in Nat
  /\ \A f \in Fragments : /\ PacketOf(f) \in Packets /\ f.seq \in Seqs /\ f.part \in Part
                          /\ f = [sid |-> f.sid, seq |-> f.seq, part |-> f.part]
                          /\ f.sid \in 1 .. MaxLogins /\ f.seq \in Nat \ {0}
  /\ \A k \in Packets : k = [sid |-> k.sid, seq |-> k.seq] /\ k.seq \in Seqs
  /\ Seqs \subseteq Nat \ {0}
<1>1. DP \in Procs /\ DP \notin Hosts /\ Procs = Hosts \cup {DP}
  BY SetsAssumption DEF Hosts, Procs
<1>2. Parts \in Nat \ {0} /\ Expiry \in Nat /\ MaxLogins \in Nat /\ MaxEvents \in Nat
  BY BoundsAssumption
<1>3. \A k \in Packets : /\ k = [sid |-> k.sid, seq |-> k.seq] /\ k.seq \in Seqs
                         /\ k.seq \in Nat \ {0} /\ k.sid \in 1 .. MaxLogins
  BY SetsAssumption DEF Seqs
<1>4. Seqs \subseteq Nat \ {0}
  BY <1>3 DEF Seqs
<1>5. ASSUME NEW f \in Fragments
      PROVE  /\ PacketOf(f) \in Packets /\ f.seq \in Seqs /\ f.part \in Part
             /\ f = [sid |-> f.sid, seq |-> f.seq, part |-> f.part]
             /\ f.sid \in 1 .. MaxLogins /\ f.seq \in Nat \ {0}
  <2>1. PICK k \in Packets, i \in Part : f = [sid |-> k.sid, seq |-> k.seq, part |-> i]
    BY DEF Fragments
  <2>2. f.sid = k.sid /\ f.seq = k.seq /\ f.part = i
    BY <2>1
  <2> QED BY <2>1, <2>2, <1>3 DEF PacketOf
<1> QED BY <1>1, <1>2, <1>3, <1>4, <1>5

\* A fragment is known by its packet and its part, and Void is none.
LEMMA FragmentsDiffer ==
  /\ Void \notin Fragments
  /\ \A f, g \in Fragments : f.sid = g.sid /\ f.seq = g.seq /\ f.part = g.part => f = g
  /\ \A k \in Packets, i \in Part : \E f \in Fragments : PacketOf(f) = k /\ f.part = i
  /\ \A k \in Packets, f \in Fragments : PacketOf(f) = k <=> f.sid = k.sid /\ f.seq = k.seq
<1>1. Void \notin Fragments
  BY Constants DEF Void
<1>2. \A f, g \in Fragments : f.sid = g.sid /\ f.seq = g.seq /\ f.part = g.part => f = g
  BY Constants
<1>3. ASSUME NEW k \in Packets, NEW i \in Part
      PROVE  \E f \in Fragments : PacketOf(f) = k /\ f.part = i
  <2> DEFINE f == [sid |-> k.sid, seq |-> k.seq, part |-> i]
  <2>1. f \in Fragments
    BY DEF Fragments
  <2>2. PacketOf(f) = k /\ f.part = i
    BY Constants DEF PacketOf
  <2> QED BY <2>1, <2>2
<1>4. ASSUME NEW k \in Packets, NEW f \in Fragments
      PROVE  PacketOf(f) = k <=> f.sid = k.sid /\ f.seq = k.seq
  BY Constants DEF PacketOf
<1> QED BY <1>1, <1>2, <1>3, <1>4

\* A process that goes on leaves the others alone.
LEMMA GotoIs ==
  ASSUME JobsInv, NEW a \in Procs, NEW job, Goto(a, job)
  PROVE  st'[a] = job /\ \A b \in Procs : b # a => st'[b] = st[b]
BY DEF Goto, JobsInv

LEMMA JobParts ==
  ASSUME JobsInv, NEW a \in Procs
  PROVE  /\ st[a] \in JobType /\ st[a].seq \in Seqs \cup {0} /\ st[a].frag \in Pieces
         /\ st[a].copy \in Nat /\ st[a].got \subseteq RowType /\ st[a].data \in Seq(Pieces)
         /\ st[a].after \in {"idle", "gone"} /\ st[a].op \in HostOps \cup DPOps
BY DEF JobsInv, JobType

\* The jobs that the steps give.
LEMMA IdleJob ==
  /\ Idle \in JobType
  /\ Idle.op = "idle" /\ Idle.seq = 0 /\ Idle.frag = Void /\ Idle.copy = 0
  /\ Idle.got = {} /\ Idle.data = <<>> /\ Idle.after = "idle"
BY DEF Idle, JobType, HostOps, Pieces

----------------------------------------------------------------------------
(* What the steps do to the jobs *)

\* What a process may come to do.
Fits(a, job) ==
  /\ job \in JobType
  /\ a \in Hosts => /\ job.op \in HostOps
                    /\ job.op \in {"add", "notify"} => job.frag \in Fragments
  /\ a = DP => /\ job.op \in DPOps /\ job.after = "idle"
               /\ job.op \in {"select", "lookup", "read", "remove"} => job.seq \in Seqs
               /\ job.op = "select" => job.got = {} /\ job.data = <<>>
Fitting(a) == Fits(a, st'[a]) /\ \A b \in Procs : b # a => st'[b] = st[b]

\* A job that is Idle but for some fields.
Fresh(job, op, seq) ==
  job.op = op /\ job.seq = seq /\ job.got = {} /\ job.data = <<>>

LEMMA JobsStay ==
  ASSUME JobsInv, NEW a \in Procs, NEW job, Goto(a, job), Fits(a, job)
  PROVE  JobsInv' /\ Fitting(a)
<1>1. st'[a] = job /\ \A b \in Procs : b # a => st'[b] = st[b]
  BY GotoIs
<1>2. job \in JobType
  BY DEF Fits
<1>3. st' \in [Procs -> JobType]
  BY <1>2 DEF Goto, JobsInv
<1>4. \A b \in Hosts : b \in Procs /\ b # DP
  BY Constants
<1>5. /\ \A b \in Hosts : st'[b].op \in HostOps
      /\ \A b \in Hosts : st'[b].op \in {"add", "notify"} => st'[b].frag \in Fragments
  BY <1>1, <1>4 DEF JobsInv, Fits
<1>6. /\ st'[DP].op \in DPOps /\ st'[DP].after = "idle"
      /\ st'[DP].op \in {"select", "lookup", "read", "remove"} => st'[DP].seq \in Seqs
      /\ st'[DP].op = "select" => st'[DP].got = {} /\ st'[DP].data = <<>>
  BY <1>1, Constants DEF JobsInv, Fits, At
<1> QED BY <1>1, <1>3, <1>5, <1>6 DEF JobsInv, Fitting, At

LEMMA TakeJob ==
  ASSUME TypeInv, NEW p \in PPs, NEW f \in Fragments, TakeFragment(p, f)
  PROVE  /\ JobsInv' /\ Fitting(p) /\ p # DP /\ At(p, "idle") /\ st'[p].op = "add"
         /\ st'[p].frag = f /\ st'[p].copy = taken[f] + 1
<1> DEFINE job == [Idle EXCEPT !.op = "add", !.frag = f, !.copy = taken[f] + 1]
<1>1. taken[f] + 1 \in Nat
  BY DEF TypeInv
<1>2. job \in JobType
  BY <1>1, IdleJob DEF JobType, HostOps, Pieces
<1>3. job.op = "add" /\ job.frag = f /\ job.copy = taken[f] + 1
  BY IdleJob DEF JobType
<1>4. p \in Hosts /\ p \in Procs /\ p # DP
  BY Constants DEF Hosts
<1>5. Goto(p, job) /\ At(p, "idle")
  BY DEF TakeFragment
<1> HIDE DEF job
<1>6. Fits(p, job)
  BY <1>2, <1>3, <1>4 DEF Fits, HostOps
<1>7. JobsInv' /\ Fitting(p) /\ st'[p] = job
  BY <1>4, <1>5, <1>6, JobsStay, GotoIs DEF TypeInv
<1> QED BY <1>3, <1>4, <1>5, <1>7

LEMMA AddJob ==
  ASSUME TypeInv, NEW p \in PPs, AddPart(p)
  PROVE  /\ JobsInv' /\ Fitting(p) /\ p # DP /\ At(p, "add") /\ st'[p].op = "notify"
         /\ st'[p].frag = st[p].frag
<1> DEFINE job == [st[p] EXCEPT !.op = "notify"]
<1>1. p \in Hosts /\ p \in Procs /\ p # DP
  BY Constants DEF Hosts
<1>2. st[p] \in JobType
  BY <1>1, JobParts DEF TypeInv
<1>3. job \in JobType
  BY <1>2 DEF JobType, HostOps
<1>4. job.op = "notify" /\ job.frag = st[p].frag
  BY <1>2 DEF JobType
<1>5. Goto(p, job) /\ At(p, "add")
  BY DEF AddPart, Becomes
<1> HIDE DEF job
<1>6. Fits(p, job)
  BY <1>1, <1>3, <1>4, <1>5 DEF Fits, HostOps, TypeInv, JobsInv, At
<1>7. JobsInv' /\ Fitting(p) /\ st'[p] = job
  BY <1>1, <1>5, <1>6, JobsStay, GotoIs DEF TypeInv
<1> QED BY <1>1, <1>4, <1>5, <1>7

\* A process that starts on something of which only the operation matters.
LEMMA FreshJob ==
  ASSUME TypeInv, NEW a \in Procs, NEW op \in HostOps \cup DPOps,
         Goto(a, [Idle EXCEPT !.op = op]),
         a \in Hosts => op \in {"idle", "wipe", "gone"},
         a = DP => op \in {"idle", "expire"}
  PROVE  JobsInv' /\ Fitting(a) /\ Fresh(st'[a], op, 0)
<1> DEFINE job == [Idle EXCEPT !.op = op]
<1>1. job \in JobType
  BY IdleJob DEF JobType, HostOps
<1>2. Fresh(job, op, 0) /\ job.after = "idle"
  BY IdleJob DEF JobType, Fresh
<1>3. Goto(a, job)
  OBVIOUS
<1> HIDE DEF job
<1>4. Fits(a, job)
  BY <1>1, <1>2 DEF Fits, Fresh, HostOps, DPOps
<1>5. JobsInv' /\ Fitting(a) /\ st'[a] = job
  BY <1>3, <1>4, JobsStay, GotoIs DEF TypeInv
<1> QED BY <1>2, <1>5

LEMMA IdleAgain ==
  ASSUME TypeInv, NEW a \in Procs, Goto(a, Idle)
  PROVE  JobsInv' /\ Fitting(a) /\ Fresh(st'[a], "idle", 0)
<1>1. Idle = [Idle EXCEPT !.op = "idle"]
  BY IdleJob DEF JobType
<1>2. Goto(a, [Idle EXCEPT !.op = "idle"])
  BY <1>1 DEF Goto
<1> QED BY <1>2, FreshJob DEF HostOps, DPOps

LEMMA MoveJob ==
  ASSUME TypeInv, NEW m \in Movers, MoveOffline(m)
  PROVE  JobsInv' /\ Fitting(m) /\ m # DP /\ Fresh(st'[m], "wipe", 0)
<1> DEFINE job == [Idle EXCEPT !.op = "wipe", !.after = "gone"]
<1>1. job \in JobType
  BY IdleJob DEF JobType, HostOps
<1>2. Fresh(job, "wipe", 0)
  BY IdleJob DEF JobType, Fresh
<1>3. Goto(m, job)
  BY DEF MoveOffline
<1>4. m \in Hosts /\ m \in Procs /\ m # DP
  BY Constants DEF Hosts
<1> HIDE DEF job
<1>5. Fits(m, job)
  BY <1>1, <1>2, <1>4 DEF Fits, Fresh, HostOps
<1>6. JobsInv' /\ Fitting(m) /\ st'[m] = job
  BY <1>3, <1>4, <1>5, JobsStay, GotoIs DEF TypeInv
<1> QED BY <1>2, <1>4, <1>6

\* DP starts on the packet with number s, or on the removal of it.
PacketStart(job, op, s) == job \in JobType /\ Fresh(job, op, s) /\ job.after = "idle"
LEMMA PacketJob ==
  ASSUME TypeInv, NEW job, Goto(DP, job), NEW s \in Seqs, NEW op \in {"select", "remove"},
         PacketStart(job, op, s)
  PROVE  JobsInv' /\ Fitting(DP) /\ Fresh(st'[DP], op, s)
<1>1. Fits(DP, job)
  BY Constants DEF Fits, Fresh, DPOps, PacketStart
<1>2. JobsInv' /\ Fitting(DP) /\ st'[DP] = job
  BY <1>1, JobsStay, GotoIs, Constants DEF TypeInv
<1> QED BY <1>2 DEF PacketStart

\* A deletion ends where its process goes on.
LEMMA DeletedJob ==
  ASSUME TypeInv, NEW a \in Procs, Goto(a, [Idle EXCEPT !.op = st[a].after])
  PROVE  JobsInv' /\ Fitting(a) /\ Fresh(st'[a], st[a].after, 0) /\ (a = DP => st'[a].op = "idle")
<1>1. st[a].after \in {"idle", "gone"} /\ (a = DP => st[a].after = "idle")
  BY JobParts DEF TypeInv, JobsInv
<1>2. JobsInv' /\ Fitting(a) /\ Fresh(st'[a], st[a].after, 0)
  BY <1>1, FreshJob DEF TypeInv, HostOps, DPOps
<1> QED BY <1>1, <1>2 DEF Fresh

LEMMA DeleteJob ==
  ASSUME TInv, NEW a \in Procs, DeleteSelect(a)
  PROVE  /\ JobsInv' /\ Fitting(a) /\ st[a].op \in Deletes /\ st[a].got = {}
         /\ \/ Chosen(a) = {} /\ Fresh(st'[a], st[a].after, 0) /\ (a = DP => st'[a].op = "idle")
            \/ /\ Chosen(a) # {} /\ st'[a].op = st[a].op /\ st'[a].seq = st[a].seq
               /\ st'[a].got = Chosen(a)
<1>1. st[a].op \in Deletes /\ st[a].got = {}
  BY DEF DeleteSelect
<1>2. CASE Chosen(a) = {}
  <2>1. Goto(a, [Idle EXCEPT !.op = st[a].after])
    BY <1>2 DEF DeleteSelect
  <2> QED BY <1>1, <1>2, <2>1, DeletedJob DEF TInv
<1>3. CASE Chosen(a) # {}
  <2> DEFINE job == [st[a] EXCEPT !.got = Chosen(a)]
  <2>1. Goto(a, job)
    BY <1>3 DEF DeleteSelect
  <2>2. Chosen(a) \subseteq rows
    BY DEF Chosen, Expired
  <2>3. Chosen(a) \in SUBSET RowType /\ st[a] \in JobType
    BY <2>2, JobParts DEF TInv, TypeInv, StoreInv
  <2>4. job \in JobType /\ job.op = st[a].op /\ job.seq = st[a].seq /\ job.got = Chosen(a)
        /\ job.after = st[a].after
    BY <2>3 DEF JobType
  <2> HIDE DEF job
  <2>5. Fits(a, job)
    BY <1>1, <2>4, Constants DEF Fits, TInv, TypeInv, JobsInv, Deletes
  <2>6. JobsInv' /\ Fitting(a) /\ st'[a] = job
    BY <2>1, <2>5, JobsStay, GotoIs DEF TInv, TypeInv
  <2> QED BY <1>1, <1>3, <2>4, <2>6
<1> QED BY <1>2, <1>3

LEMMA ReceiveJob ==
  ASSUME TypeInv, Receive
  PROVE  /\ JobsInv' /\ Fitting(DP) /\ At(DP, "idle") /\ dpipe # <<>> /\ dpipe' = Tail(dpipe)
         /\ \/ Head(dpipe) = Check /\ Fresh(st'[DP], "expire", 0)
            \/ Head(dpipe) \in Seqs /\ Fresh(st'[DP], "select", Head(dpipe))
<1>1. At(DP, "idle") /\ dpipe # <<>> /\ dpipe' = Tail(dpipe)
  BY DEF Receive
<1>2. Head(dpipe) \in Seqs \cup {Check}
  BY <1>1 DEF TypeInv
<1>3. CASE Head(dpipe) = Check
  <2>1. Goto(DP, [Idle EXCEPT !.op = "expire"])
    BY <1>3 DEF Receive
  <2> QED BY <1>1, <1>3, <2>1, FreshJob, Constants DEF DPOps
<1>4. CASE Head(dpipe) \in Seqs
  <2>1. Head(dpipe) # Check
    BY <1>4, Constants DEF Check
  <2> DEFINE job == [Idle EXCEPT !.op = "select", !.seq = Head(dpipe)]
  <2>2. Goto(DP, job)
    BY <2>1 DEF Receive
  <2>3. PacketStart(job, "select", Head(dpipe))
    BY <1>4, IdleJob DEF JobType, DPOps, PacketStart, Fresh
  <2> HIDE DEF job
  <2>4. JobsInv' /\ Fitting(DP) /\ Fresh(st'[DP], "select", Head(dpipe))
    BY <1>4, <2>2, <2>3, PacketJob
  <2> QED BY <1>1, <1>4, <2>4
<1> QED BY <1>2, <1>3, <1>4

Parted == {r \in rows : r.object.frag.seq = st[DP].seq}
LEMMA SelectJob ==
  ASSUME TInv, SelectParts
  PROVE  /\ JobsInv' /\ Fitting(DP) /\ At(DP, "select") /\ st[DP].seq \in Seqs
         /\ \/ ~Complete(Parted) /\ Fresh(st'[DP], "idle", 0)
            \/ Complete(Parted) /\ st[DP].seq \in Big /\ Fresh(st'[DP], "remove", st[DP].seq)
            \/ /\ Complete(Parted) /\ st[DP].seq \notin Big /\ st'[DP].op = "lookup"
               /\ st'[DP].seq = st[DP].seq /\ st'[DP].got = Parted /\ st'[DP].data = <<>>
<1>1. /\ At(DP, "select") /\ st[DP].seq \in Seqs /\ st[DP].got = {} /\ st[DP].data = <<>>
      /\ st[DP] \in JobType /\ st[DP].after = "idle"
  BY Constants, JobParts DEF SelectParts, TInv, TypeInv, JobsInv, At
<1>2. CASE ~Complete(Parted)
  <2>1. Goto(DP, Idle)
    BY <1>2 DEF SelectParts, Parted
  <2> QED BY <1>1, <1>2, <2>1, IdleAgain, Constants DEF TInv
<1>3. CASE Complete(Parted) /\ st[DP].seq \in Big
  <2> DEFINE job == [st[DP] EXCEPT !.op = "remove"]
  <2>1. Goto(DP, job)
    BY <1>3 DEF SelectParts, Parted
  <2>2. job \in JobType /\ Fresh(job, "remove", st[DP].seq) /\ job.after = "idle"
    BY <1>1 DEF JobType, Fresh, DPOps
  <2> HIDE DEF job
  <2>3. Fits(DP, job)
    BY <1>1, <2>2, Constants DEF Fits, Fresh, DPOps
  <2>4. JobsInv' /\ Fitting(DP) /\ st'[DP] = job
    BY <2>1, <2>3, JobsStay, GotoIs, Constants DEF TInv, TypeInv
  <2> QED BY <1>1, <1>3, <2>2, <2>4
<1>4. CASE Complete(Parted) /\ st[DP].seq \notin Big
  <2> DEFINE job == [st[DP] EXCEPT !.op = "lookup", !.got = Parted]
  <2>1. Goto(DP, job)
    BY <1>4 DEF SelectParts, Parted
  <2>2. Parted \in SUBSET RowType
    BY DEF Parted, TInv, StoreInv
  <2>3. /\ job \in JobType /\ job.op = "lookup" /\ job.seq = st[DP].seq /\ job.got = Parted
        /\ job.data = <<>> /\ job.after = "idle"
    BY <1>1, <2>2 DEF JobType, DPOps
  <2> HIDE DEF job
  <2>4. Fits(DP, job)
    BY <1>1, <2>3, Constants DEF Fits, DPOps
  <2>5. JobsInv' /\ Fitting(DP) /\ st'[DP] = job
    BY <2>1, <2>4, JobsStay, GotoIs, Constants DEF TInv, TypeInv
  <2> QED BY <1>1, <1>4, <2>3, <2>5
<1> QED BY <1>2, <1>3, <1>4

LEMMA LookupJob ==
  ASSUME TInv, Lookup
  PROVE  /\ JobsInv' /\ Fitting(DP) /\ At(DP, "lookup") /\ st'[DP].seq = st[DP].seq
         /\ st'[DP].data = st[DP].data /\ lost \subseteq lost'
         /\ \/ st'[DP].op = "read" /\ st'[DP].got = st[DP].got
            \/ /\ st'[DP].op = "remove" /\ st'[DP].got = {}
               /\ lost' = lost \cup Why(st[DP].got, "moved")
<1>1. /\ At(DP, "lookup") /\ st[DP].seq \in Seqs /\ st[DP] \in JobType /\ st[DP].after = "idle"
  BY Constants, JobParts DEF Lookup, TInv, TypeInv, JobsInv, At
<1>2. CASE sid # 0
  <2> DEFINE job == [st[DP] EXCEPT !.op = "read"]
  <2>1. Goto(DP, job) /\ lost' = lost
    BY <1>2 DEF Lookup, Becomes
  <2>2. /\ job \in JobType /\ job.op = "read" /\ job.seq = st[DP].seq /\ job.got = st[DP].got
        /\ job.data = st[DP].data /\ job.after = "idle"
    BY <1>1 DEF JobType, DPOps
  <2> HIDE DEF job
  <2>3. Fits(DP, job)
    BY <1>1, <2>2, Constants DEF Fits, DPOps
  <2>4. JobsInv' /\ Fitting(DP) /\ st'[DP] = job
    BY <2>1, <2>3, JobsStay, GotoIs, Constants DEF TInv, TypeInv
  <2> QED BY <1>1, <2>1, <2>2, <2>4
<1>3. CASE sid = 0
  <2> DEFINE job == [st[DP] EXCEPT !.op = "remove", !.got = {}]
  <2>1. Goto(DP, job) /\ lost' = lost \cup Why(st[DP].got, "moved")
    BY <1>3 DEF Lookup
  <2>2. /\ job \in JobType /\ job.op = "remove" /\ job.seq = st[DP].seq /\ job.got = {}
        /\ job.data = st[DP].data /\ job.after = "idle"
    BY <1>1 DEF JobType, DPOps
  <2> HIDE DEF job
  <2>3. Fits(DP, job)
    BY <1>1, <2>2, Constants DEF Fits, DPOps
  <2>4. JobsInv' /\ Fitting(DP) /\ st'[DP] = job
    BY <2>1, <2>3, JobsStay, GotoIs, Constants DEF TInv, TypeInv
  <2> QED BY <1>1, <2>1, <2>2, <2>4
<1> QED BY <1>2, <1>3

LEMMA ReadJob ==
  ASSUME TInv, NEW r \in st[DP].got, ReadPart(r)
  PROVE  /\ JobsInv' /\ Fitting(DP) /\ At(DP, "read") /\ st'[DP].op = "read"
         /\ st'[DP].seq = st[DP].seq /\ r.object.frag \in Fragments
         /\ st'[DP].got = st[DP].got \ {r} /\ st'[DP].data = Append(st[DP].data, Piece(r))
<1> DEFINE job == [st[DP] EXCEPT !.got = @ \ {r}, !.data = Append(@, Piece(r))]
<1>1. /\ At(DP, "read") /\ st[DP].seq \in Seqs /\ st[DP] \in JobType /\ st[DP].after = "idle"
      /\ st[DP].got \subseteq RowType /\ st[DP].data \in Seq(Pieces)
  BY Constants, JobParts DEF ReadPart, TInv, TypeInv, JobsInv, At
<1>2. Goto(DP, job)
  BY DEF ReadPart
<1>3. r.object.frag \in Fragments
  BY <1>1 DEF RowType, Objects
<1>4. Piece(r) \in Pieces
  BY <1>3 DEF Piece, Pieces
<1>5. Append(st[DP].data, Piece(r)) \in Seq(Pieces) /\ st[DP].got \ {r} \in SUBSET RowType
  BY <1>1, <1>4
<1>6. /\ job \in JobType /\ job.op = "read" /\ job.seq = st[DP].seq /\ job.after = "idle"
      /\ job.got = st[DP].got \ {r} /\ job.data = Append(st[DP].data, Piece(r))
  <2>1. st[DP].op = "read"
    BY <1>1 DEF At
  <2> QED BY <1>1, <1>5, <2>1 DEF JobType
<1> HIDE DEF job
<1>7. Fits(DP, job)
  BY <1>1, <1>6, Constants DEF Fits, DPOps
<1>8. JobsInv' /\ Fitting(DP) /\ st'[DP] = job
  BY <1>2, <1>7, JobsStay, GotoIs, Constants DEF TInv, TypeInv
<1> QED BY <1>1, <1>3, <1>6, <1>8

LEMMA InjectJob ==
  ASSUME TInv, Inject
  PROVE  /\ JobsInv' /\ Fitting(DP) /\ At(DP, "read") /\ st[DP].got = {}
         /\ Fresh(st'[DP], "remove", st[DP].seq) /\ st[DP].data \in Seq(Pieces)
         /\ injected' = Append(injected, st[DP].data)
<1> DEFINE job == [Idle EXCEPT !.op = "remove", !.seq = st[DP].seq]
<1>1. /\ At(DP, "read") /\ st[DP].got = {} /\ Goto(DP, job)
      /\ injected' = Append(injected, st[DP].data)
  BY DEF Inject
<1>2. st[DP].seq \in Seqs /\ st[DP].data \in Seq(Pieces)
  BY <1>1, Constants, JobParts DEF TInv, TypeInv, JobsInv, At
<1>3. PacketStart(job, "remove", st[DP].seq)
  BY <1>2, IdleJob DEF JobType, DPOps, PacketStart, Fresh
<1> HIDE DEF job
<1>4. JobsInv' /\ Fitting(DP) /\ Fresh(st'[DP], "remove", st[DP].seq)
  BY <1>1, <1>2, <1>3, PacketJob DEF TInv
<1> QED BY <1>1, <1>2, <1>4

LEMMA CheckJob ==
  ASSUME TInv, FailCheck
  PROVE  /\ JobsInv' /\ Fitting(DP)
         /\ \/ At(DP, "select") /\ Fresh(st'[DP], "idle", 0)
            \/ At(DP, "lookup") /\ Fresh(st'[DP], "remove", st[DP].seq)
<1>1. CASE At(DP, "select")
  <2>1. Goto(DP, Idle)
    BY <1>1 DEF FailCheck
  <2> QED BY <1>1, <2>1, IdleAgain, Constants DEF TInv
<1>2. CASE At(DP, "lookup")
  <2> DEFINE job == [Idle EXCEPT !.op = "remove", !.seq = st[DP].seq]
  <2>1. Goto(DP, job)
    BY <1>2 DEF FailCheck, At
  <2>2. st[DP].seq \in Seqs
    BY <1>2, Constants, JobParts DEF TInv, TypeInv, JobsInv, At
  <2>3. PacketStart(job, "remove", st[DP].seq)
    BY <2>2, IdleJob DEF JobType, DPOps, PacketStart, Fresh
  <2> HIDE DEF job
  <2>4. JobsInv' /\ Fitting(DP) /\ Fresh(st'[DP], "remove", st[DP].seq)
    BY <2>1, <2>2, <2>3, PacketJob DEF TInv
  <2> QED BY <1>2, <2>4
<1> QED BY <1>1, <1>2 DEF FailCheck

LEMMA FailAddJob ==
  ASSUME TypeInv, NEW p \in PPs, FailAdd(p)
  PROVE  /\ JobsInv' /\ Fitting(p) /\ p # DP /\ At(p, "add")
         /\ \/ st'[p].op = "notify" /\ st'[p].frag = st[p].frag
            \/ Fresh(st'[p], "idle", 0)
<1>1. p \in Hosts /\ p \in Procs /\ p # DP /\ At(p, "add")
  BY Constants DEF Hosts, FailAdd
<1>2. CASE Goto(p, Idle)
  BY <1>1, <1>2, IdleAgain
<1>3. CASE Becomes(p, "notify")
  <2> DEFINE job == [st[p] EXCEPT !.op = "notify"]
  <2>1. st[p] \in JobType
    BY <1>1, JobParts DEF TypeInv
  <2>2. job \in JobType /\ job.op = "notify" /\ job.frag = st[p].frag
    BY <2>1 DEF JobType, HostOps
  <2>3. Goto(p, job)
    BY <1>3 DEF Becomes
  <2> HIDE DEF job
  <2>4. Fits(p, job)
    BY <1>1, <2>2 DEF Fits, HostOps, TypeInv, JobsInv, At
  <2>5. JobsInv' /\ Fitting(p) /\ st'[p] = job
    BY <1>1, <2>3, <2>4, JobsStay, GotoIs DEF TypeInv
  <2> QED BY <1>1, <2>2, <2>5
<1> QED BY <1>2, <1>3 DEF FailAdd

----------------------------------------------------------------------------
(* Types are kept *)

\* The steps on deletions are taken by movers and by DP.
Deleters == Movers \cup {DP}
LEMMA DeletersAre ==
  ASSUME TypeInv, NEW a \in Deleters
  PROVE  /\ a \in Procs /\ (a # DP => a \in Hosts)
         /\ a # DP /\ st[a].op \in Deletes => At(a, "wipe")
         /\ a = DP /\ st[a].op \in Deletes => At(a, "remove") \/ At(a, "expire")
BY Constants DEF Deleters, Hosts, TypeInv, JobsInv, Deletes, HostOps, DPOps, At

LEMMA TypesStart == Init => TypeInv
<1> SUFFICES ASSUME Init PROVE TypeInv
  OBVIOUS
<1>1. JobsInv
  <2>1. st = [a \in Procs |-> Idle]
    BY DEF Init
  <2>2. \A a \in Procs : st[a] = Idle
    BY <2>1
  <2> QED BY <2>1, <2>2, IdleJob, Constants DEF JobsInv, HostOps, DPOps, At
<1>2. period \in Nat /\ period > 1 /\ counter \in 0 .. period + 1
  BY PeriodAssumption DEF Init
<1>3. nlogin \in 0 .. MaxLogins /\ sid \in 0 .. nlogin
  BY BoundsAssumption DEF Init
<1> QED BY <1>1, <1>2, <1>3, Constants DEF Init, TypeInv

LEMMA TypesStep == TInv /\ [Next]_vars => TypeInv'
<1> SUFFICES ASSUME TInv, [Next]_vars PROVE TypeInv'
  OBVIOUS
<1> USE DEF TInv
<1>1. ASSUME NEW p \in PPs, NEW f \in Fragments, TakeFragment(p, f)
      PROVE  TypeInv'
  <2>1. JobsInv'
    BY <1>1, TakeJob
  <2>2. taken' \in [Fragments -> 0 .. nevent']
    BY <1>1 DEF TakeFragment, Event, TypeInv
  <2>3. nevent' \in 0 .. MaxEvents
    BY SMTT(30), <1>1, Constants DEF TakeFragment, Event, TypeInv
  <2> QED BY <1>1, <2>1, <2>2, <2>3 DEF TakeFragment, TypeInv, clock
<1>2. ASSUME NEW p \in PPs, AddPart(p) PROVE TypeInv'
  <2>1. JobsInv'
    BY <1>2, AddJob
  <2> QED BY <1>2, <2>1 DEF AddPart, TypeInv, clock, past
<1>3. ASSUME NEW p \in PPs, Notify(p) PROVE TypeInv'
  <2>1. JobsInv' /\ p \in Procs
    BY <1>3, IdleAgain DEF Notify, Procs
  <2>2. dpipe' = Append(dpipe, st[p].frag.seq) /\ st[p].op = "notify" /\ p \in Hosts
    BY <1>3 DEF Notify, At, Hosts
  <2>3. st[p].frag.seq \in Seqs
    BY <2>2, Constants DEF TypeInv, JobsInv
  <2>4. dpipe' \in Seq(Seqs \cup {Check})
    BY <2>2, <2>3 DEF TypeInv
  <2> QED BY <1>3, <2>1, <2>4 DEF Notify, TypeInv, clock, past
<1>4. ASSUME NEW p \in PPs, FailAdd(p) PROVE TypeInv'
  <2>1. JobsInv'
    BY <1>4, FailAddJob
  <2>2. nevent' \in 0 .. MaxEvents /\ taken' \in [Fragments -> 0 .. nevent']
    BY <1>4, Constants DEF FailAdd, Event, TypeInv
  <2> QED BY <1>4, <2>1, <2>2 DEF FailAdd, TypeInv, clock
<1>5. ASSUME NEW m \in Movers, Login(m) PROVE TypeInv'
  <2>1. JobsInv'
    <3>1. Goto(m, [Idle EXCEPT !.op = "wipe"]) /\ m \in Procs /\ m # DP
      BY <1>5, Constants DEF Login, Procs, Hosts
    <3> QED BY <3>1, FreshJob DEF HostOps
  <2>2. nevent' \in 0 .. MaxEvents /\ taken' \in [Fragments -> 0 .. nevent']
    BY <1>5, Constants DEF Login, Event, TypeInv
  <2>3. nlogin' \in 0 .. MaxLogins /\ sid' \in 0 .. nlogin'
    BY <1>5, Constants DEF Login, TypeInv
  <2> QED BY <1>5, <2>1, <2>2, <2>3 DEF Login, TypeInv, clock
<1>6. ASSUME NEW m \in Movers, MoveOffline(m) PROVE TypeInv'
  <2>1. JobsInv'
    BY <1>6, MoveJob
  <2>2. nevent' \in 0 .. MaxEvents /\ taken' \in [Fragments -> 0 .. nevent']
    BY <1>6, Constants DEF MoveOffline, past, Event, TypeInv
  <2> QED BY <1>6, <2>1, <2>2 DEF MoveOffline, TypeInv, clock, past
<1>7. ASSUME NEW m \in Movers, Gone(m) PROVE TypeInv'
  <2>1. JobsInv'
    BY <1>7, IdleAgain DEF Gone, Procs
  <2>2. nlogin' = nlogin /\ sid' = 0
    BY <1>7 DEF Gone, past
  <2>3. sid' \in 0 .. nlogin'
    BY <2>2 DEF TypeInv
  <2> QED BY <1>7, <2>1, <2>3 DEF Gone, TypeInv, clock, past
<1>8. ASSUME NEW a \in Deleters, DeleteSelect(a) PROVE TypeInv'
  <2>1. JobsInv'
    BY <1>8, DeleteJob, DeletersAre
  <2> QED BY <1>8, <2>1 DEF DeleteSelect, TypeInv, clock, past
<1>9. ASSUME NEW a \in Deleters, DeleteCommit(a) PROVE TypeInv'
  <2>1. JobsInv'
    BY <1>9, DeletedJob, DeletersAre DEF DeleteCommit
  <2> QED BY <1>9, <2>1 DEF DeleteCommit, TypeInv, clock
<1>10. ASSUME NEW a \in Deleters, FailDelete(a) PROVE TypeInv'
  <2>1. JobsInv'
    BY <1>10, DeletedJob, DeletersAre DEF FailDelete
  <2>2. nevent' \in 0 .. MaxEvents /\ taken' \in [Fragments -> 0 .. nevent']
    BY <1>10, Constants DEF FailDelete, Event, TypeInv
  <2> QED BY <1>10, <2>1, <2>2 DEF FailDelete, TypeInv, clock
<1>11. CASE Receive
  <2>1. JobsInv' /\ dpipe # <<>> /\ dpipe' = Tail(dpipe)
    BY <1>11, ReceiveJob
  <2>2. dpipe' \in Seq(Seqs \cup {Check})
    BY <2>1 DEF TypeInv
  <2> QED BY <1>11, <2>1, <2>2 DEF Receive, TypeInv, clock, past
<1>12. CASE SelectParts
  BY <1>12, SelectJob DEF SelectParts, TypeInv, clock, past
<1>13. CASE Lookup
  BY <1>13, LookupJob DEF Lookup, TypeInv, clock
<1>14. ASSUME NEW r \in st[DP].got, ReadPart(r) PROVE TypeInv'
  <2>1. JobsInv'
    BY <1>14, ReadJob
  <2> QED BY <1>14, <2>1 DEF ReadPart, TypeInv, clock, past
<1>15. CASE Inject
  <2>1. JobsInv' /\ injected' = Append(injected, st[DP].data) /\ st[DP].data \in Seq(Pieces)
    BY <1>15, InjectJob
  <2>2. injected' \in Seq(Seq(Pieces))
    BY <2>1 DEF TypeInv
  <2> QED BY <1>15, <2>1, <2>2 DEF Inject, TypeInv, clock
<1>16. CASE FailCheck
  <2>1. JobsInv'
    BY <1>16, CheckJob
  <2>2. nevent' \in 0 .. MaxEvents /\ taken' \in [Fragments -> 0 .. nevent']
    BY <1>16, Constants DEF FailCheck, Event, TypeInv
  <2> QED BY <1>16, <2>1, <2>2 DEF FailCheck, TypeInv, clock
<1>17. CASE Second
  <2>1. JobsInv'
    BY <1>17 DEF Second, JobsInv, TypeInv, At
  <2>2. nevent' \in 0 .. MaxEvents /\ taken' \in [Fragments -> 0 .. nevent']
    BY SMTT(30), <1>17, Constants DEF Second, past, Event, TypeInv
  <2>3. counter' \in 0 .. period' + 1
    BY <1>17 DEF Second, Scheduled, TypeInv
  <2>4. dpipe' \in Seq(Seqs \cup {Check})
    BY <1>17 DEF Second, TypeInv
  <2> QED BY <1>17, <2>1, <2>2, <2>3, <2>4 DEF Second, TypeInv, past
<1>18. CASE UNCHANGED vars
  BY <1>18 DEF vars, TypeInv, JobsInv, At
<1> QED
  BY <1>1, <1>2, <1>3, <1>4, <1>5, <1>6, <1>7, <1>8, <1>9, <1>10, <1>11, <1>12, <1>13, <1>14,
     <1>15, <1>16, <1>17, <1>18 DEF Next, PPStep, Moving, Deleting, DPStep, Deleters

----------------------------------------------------------------------------
(* What the steps do to the table *)

\* A part of the table is lost to its packets for a cause.
LEMMA WhyIs ==
  ASSUME NEW R \in SUBSET RowType, NEW why, NEW r \in R, ~Assembled(PacketOf(r.object.frag))
  PROVE  <<PacketOf(r.object.frag), why>> \in Why(R, why)
<1>1. r.object.frag \in Fragments
  BY DEF RowType, Objects
<1>2. PacketOf(r.object.frag) \in Packets
  BY <1>1, Constants
<1> QED BY <1>2 DEF Why

\* A deletion removes all it selected, and the rows with it, or nothing.
Explained(r) == Assembled(PacketOf(r.object.frag))
                  \/ \E why \in Causes : <<PacketOf(r.object.frag), why>> \in lost'
LEMMA CommitIs ==
  ASSUME TInv, NEW a \in Deleters, DeleteCommit(a)
  PROVE  /\ JobsInv' /\ Fitting(a) /\ Fresh(st'[a], st[a].after, 0)
         /\ (a = DP => st'[a].op = "idle") /\ st[a].got # {}
         /\ a # DP => At(a, "wipe")
         /\ a = DP => At(a, "remove") \/ At(a, "expire")
         /\ lost \subseteq lost'
         /\ \/ /\ UNCHANGED <<rows, objects, lost>>
               /\ \E x \in st[a].got : x.object \notin objects
            \/ /\ \A x \in st[a].got : x.object \in objects
               /\ objects' = objects \ {x.object : x \in st[a].got}
               /\ rows' = IF At(a, "expire") THEN rows \ Expired(rows) ELSE {}
               /\ \A r \in rows \ rows' : Explained(r) \/ (At(a, "remove") /\ r \in st[a].got)
               /\ a # DP /\ Assembling => Cut'
<1> DEFINE gone == {x.object : x \in st[a].got}
<1>1. a \in Procs /\ (a # DP => a \in Hosts) /\ st[a].op \in Deletes /\ st[a].got # {}
  BY DeletersAre DEF TInv, DeleteCommit
<1>2. /\ a # DP => At(a, "wipe")
      /\ a = DP => At(a, "remove") \/ At(a, "expire")
  BY <1>1, DeletersAre DEF TInv
<1>3. /\ JobsInv' /\ Fitting(a) /\ Fresh(st'[a], st[a].after, 0)
      /\ (a = DP => st'[a].op = "idle")
  BY <1>1, DeletedJob DEF DeleteCommit, TInv
<1>4. CASE ~(gone \subseteq objects)
  <2>1. UNCHANGED <<rows, objects, lost>>
    BY <1>4 DEF DeleteCommit
  <2>2. \E x \in st[a].got : x.object \notin objects
    BY <1>4
  <2> QED BY <1>1, <1>2, <1>3, <2>1, <2>2
<1>5. CASE gone \subseteq objects
  <2> DEFINE why == CASE At(a, "wipe") -> "moved" [] At(a, "remove") -> "sibling" [] OTHER -> "expired"
             Gone1 == IF At(a, "remove") THEN Removed(a) \ st[a].got ELSE Removed(a)
             Cuts == IF a # DP /\ st[DP].op \in {"lookup", "read"} THEN {<<Void, "cut">>} ELSE {}
  <2>1. /\ objects' = objects \ gone /\ rows' = rows \ Removed(a)
        /\ lost' = lost \cup Why(Gone1, why) \cup Cuts
    BY <1>5 DEF DeleteCommit
  <2>2. why \in Causes
    BY DEF Causes, At
  <2> HIDE DEF why
  <2>3. Removed(a) \subseteq rows /\ rows \subseteq RowType
    BY DEF Removed, Expired, TInv, StoreInv
  <2>4. Gone1 \in SUBSET RowType
    BY <2>3
  <2>5. ASSUME NEW r \in rows \ rows', ~(At(a, "remove") /\ r \in st[a].got), ~Assembled(PacketOf(r.object.frag))
        PROVE  <<PacketOf(r.object.frag), why>> \in lost'
    <3>1. r \in Gone1
      BY <2>1, <2>5
    <3>2. <<PacketOf(r.object.frag), why>> \in Why(Gone1, why)
      BY <2>4, <2>5, <3>1, WhyIs
    <3> QED BY <2>1, <3>2
  <2>6. \A r \in rows \ rows' : Explained(r) \/ (At(a, "remove") /\ r \in st[a].got)
    BY <2>2, <2>5 DEF Explained
  <2>7. a # DP /\ Assembling => Cut'
    BY <2>1 DEF Assembling, Cut
  <2>8. rows' = IF At(a, "expire") THEN rows \ Expired(rows) ELSE {}
    BY <2>1, <2>3 DEF Removed
  <2> QED BY <1>1, <1>2, <1>3, <1>5, <2>1, <2>6, <2>7, <2>8
<1> QED BY <1>4, <1>5

\* Rows grow older.
LEMMA SecondRows ==
  ASSUME StoreInv, Second
  PROVE  /\ rows' \subseteq RowType /\ IsFiniteSet(rows')
         /\ \A x \in rows' : \E r \in rows : x.object = r.object /\ (r.age > Expiry => x.age > Expiry)
         /\ \A r \in rows : \E x \in rows' : x.object = r.object
         /\ \A r, x \in rows' : r.object = x.object => r = x
<1> DEFINE Older(r) == [r EXCEPT !.age = IF @ > Expiry THEN @ ELSE @ + 1]
<1>1. rows' = {Older(r) : r \in rows}
  BY DEF Second
<1>2. ASSUME NEW r \in rows
      PROVE  Older(r) \in RowType /\ Older(r).object = r.object
             /\ (r.age > Expiry => Older(r).age > Expiry)
  <2>1. r \in RowType /\ Expiry \in Nat
    BY Constants DEF StoreInv
  <2> QED BY <2>1 DEF RowType
<1> HIDE DEF Older
<1>3. IsFiniteSet(rows')
  <2> DEFINE F == [r \in rows |-> Older(r)]
  <2>1. F \in Surjection(rows, rows')
    BY <1>1 DEF Surjection
  <2> QED BY <2>1, FS_Surjection DEF StoreInv
<1>4. \A r, x \in rows' : r.object = x.object => r = x
  BY <1>1, <1>2 DEF StoreInv
<1> QED BY <1>1, <1>2, <1>3, <1>4

\* A fragment is added under a number of its own.
LEMMA AddedRow ==
  ASSUME TInv, CopiesInv, NEW p \in PPs, AddPart(p)
  PROVE  /\ Pending(p) \in Objects /\ IsTaken(Pending(p))
         /\ objects' = objects \cup {Pending(p)}
         /\ rows' = rows \cup {[object |-> Pending(p), age |-> 0]}
         /\ [object |-> Pending(p), age |-> 0] \in RowType
         /\ \A r \in rows \cup st[DP].got : r.object # Pending(p)
<1>1. p \in Hosts /\ At(p, "add")
  BY DEF Hosts, AddPart
<1>2. st[p].frag \in Fragments
  BY <1>1 DEF TInv, TypeInv, JobsInv, At
<1>3. /\ IsTaken(Pending(p)) /\ \A r \in rows \cup st[DP].got : r.object # Pending(p)
  BY <1>1 DEF CopiesInv
<1>4. st[p].copy \in 1 .. MaxEvents
  <2>1. taken[st[p].frag] \in 0 .. nevent /\ nevent \in 0 .. MaxEvents /\ MaxEvents \in Nat
    BY <1>2, Constants DEF TInv, TypeInv
  <2>2. st[p].copy \in 1 .. taken[st[p].frag]
    BY <1>3 DEF IsTaken, Pending
  <2> QED BY <2>1, <2>2
<1>5. Pending(p) \in Objects
  BY <1>2, <1>4 DEF Pending, Objects
<1>6. /\ objects' = objects \cup {Pending(p)}
      /\ rows' = rows \cup {[object |-> Pending(p), age |-> 0]}
  BY DEF AddPart, Pending
<1> QED BY <1>3, <1>5, <1>6, Constants DEF RowType

\* The steps that change the table.
TableMoves == \/ UNCHANGED <<rows, objects>> \/ Second
              \/ \E p \in PPs : AddPart(p)
              \/ \E a \in Deleters : DeleteCommit(a)
LEMMA TableStep == [Next]_vars => TableMoves
<1> SUFFICES ASSUME [Next]_vars PROVE TableMoves
  OBVIOUS
<1>1. CASE UNCHANGED <<rows, objects>>
  BY <1>1 DEF TableMoves
<1>2. CASE Second \/ (\E p \in PPs : AddPart(p)) \/ \E a \in Deleters : DeleteCommit(a)
  BY <1>2 DEF TableMoves
<1>3. ASSUME NEW p \in PPs, NEW f \in Fragments, TakeFragment(p, f) PROVE TableMoves
  BY <1>3, <1>1 DEF TakeFragment
<1>4. ASSUME NEW p \in PPs, Notify(p) PROVE TableMoves
  BY <1>4, <1>1 DEF Notify
<1>5. ASSUME NEW p \in PPs, FailAdd(p) PROVE TableMoves
  BY <1>5, <1>1 DEF FailAdd
<1>6. ASSUME NEW m \in Movers, Login(m) PROVE TableMoves
  BY <1>6, <1>1 DEF Login
<1>7. ASSUME NEW m \in Movers, MoveOffline(m) PROVE TableMoves
  BY <1>7, <1>1 DEF MoveOffline
<1>8. ASSUME NEW m \in Movers, Gone(m) PROVE TableMoves
  BY <1>8, <1>1 DEF Gone
<1>9. ASSUME NEW a \in Deleters, DeleteSelect(a) PROVE TableMoves
  BY <1>9, <1>1 DEF DeleteSelect
<1>10. ASSUME NEW a \in Deleters, FailDelete(a) PROVE TableMoves
  BY <1>10, <1>1 DEF FailDelete
<1>11. CASE Receive
  BY <1>11, <1>1 DEF Receive
<1>12. CASE SelectParts
  BY <1>12, <1>1 DEF SelectParts
<1>13. CASE Lookup
  BY <1>13, <1>1 DEF Lookup
<1>14. ASSUME NEW r \in st[DP].got, ReadPart(r) PROVE TableMoves
  BY <1>14, <1>1 DEF ReadPart
<1>15. CASE Inject
  BY <1>15, <1>1 DEF Inject
<1>16. CASE FailCheck
  BY <1>16, <1>1 DEF FailCheck
<1>17. CASE UNCHANGED vars
  BY <1>17, <1>1 DEF vars
<1> QED
  BY <1>2, <1>3, <1>4, <1>5, <1>6, <1>7, <1>8, <1>9, <1>10, <1>11, <1>12, <1>13, <1>14, <1>15, <1>16, <1>17
     DEF Next, PPStep, Moving, Deleting, DPStep, Deleters

LEMMA StoreStep == TInv /\ CopiesInv /\ DeletingInv /\ [Next]_vars => StoreInv'
<1> SUFFICES ASSUME TInv, CopiesInv, DeletingInv, [Next]_vars PROVE StoreInv'
  OBVIOUS
<1>1. CASE UNCHANGED <<rows, objects>>
  BY <1>1 DEF TInv, StoreInv
<1>2. ASSUME NEW p \in PPs, AddPart(p) PROVE StoreInv'
  <2> DEFINE row == [object |-> Pending(p), age |-> 0]
  <2>1. row.object = Pending(p)
    OBVIOUS
  <2>2. /\ Pending(p) \in Objects /\ objects' = objects \cup {Pending(p)}
        /\ rows' = rows \cup {row} /\ row \in RowType
        /\ \A r \in rows : r.object # Pending(p)
    BY <1>2, AddedRow
  <2> HIDE DEF row
  <2>3. IsFiniteSet(rows')
    BY <2>2, FS_AddElement DEF TInv, StoreInv
  <2> QED BY <2>1, <2>2, <2>3 DEF TInv, StoreInv
<1>3. ASSUME NEW a \in Deleters, DeleteCommit(a) PROVE StoreInv'
  <2>1. CASE UNCHANGED <<rows, objects>>
    BY <2>1, <1>1
  <2>2. CASE /\ objects' = objects \ {x.object : x \in st[a].got}
             /\ rows' = IF At(a, "expire") THEN rows \ Expired(rows) ELSE {}
    <3>1. rows' \subseteq rows /\ objects' \subseteq objects
      BY <2>2
    <3>2. IsFiniteSet(rows')
      BY <3>1, FS_Subset DEF TInv, StoreInv
    <3>3. ASSUME NEW r \in rows' PROVE r.object \in objects'
      <4>1. At(a, "expire")
        BY <2>2, <3>3
      <4>2. a = DP /\ At(DP, "expire")
        BY <1>3, <4>1, CommitIs DEF At
      <4>3. r \in rows /\ ~(r.age > Expiry)
        BY <2>2, <3>3, <4>1 DEF Expired
      <4>4. \A x \in st[DP].got : x.object # r.object
        BY <4>2, <4>3 DEF DeletingInv
      <4> QED BY <2>2, <4>2, <4>3, <4>4 DEF TInv, StoreInv
    <3> QED BY <3>1, <3>2, <3>3 DEF TInv, StoreInv
  <2> QED BY <1>3, <2>1, <2>2, CommitIs
<1>4. CASE Second
  <2>1. objects' = objects
    BY <1>4 DEF Second
  <2> QED BY <1>4, <2>1, SecondRows DEF TInv, StoreInv
<1> QED BY <1>1, <1>2, <1>3, <1>4, TableStep DEF TableMoves

----------------------------------------------------------------------------
(* Copies *)

\* What is stored, in DP's hand, or about to be stored is made of fragments.
LEMMA FragsAre ==
  ASSUME TInv
  PROVE  /\ \A r \in rows \cup st[DP].got : r \in RowType /\ r.object.frag \in Fragments
                                             /\ r.object \in Objects
         /\ \A p \in Hosts : st[p].op \in {"add", "notify"} => st[p].frag \in Fragments
         /\ \A f \in Fragments : taken[f] \in Nat
<1>1. st[DP].got \subseteq RowType /\ rows \subseteq RowType
  BY Constants, JobParts DEF TInv, TypeInv, StoreInv
<1>2. \A r \in rows \cup st[DP].got : r \in RowType /\ r.object.frag \in Fragments
                                             /\ r.object \in Objects
  BY <1>1 DEF RowType, Objects
<1> QED BY <1>2 DEF TInv, TypeInv, JobsInv

\* Objects are known by their fragment and their copy.
LEMMA ObjectsDiffer ==
  ASSUME NEW o \in Objects
  PROVE  /\ \A f, n : o.frag = f /\ o.copy = n <=> o = [frag |-> f, copy |-> n]
         /\ \A x \in Objects : o.frag = x.frag /\ o.copy = x.copy => o = x
BY DEF Objects

LEMMA CopiesFrame ==
  ASSUME TInv, CopiesInv, taken' = taken,
         \A p \in Hosts : st'[p].op = "add" => st'[p] = st[p],
         \A r \in rows' \cup st'[DP].got : \E x \in rows \cup st[DP].got : x.object = r.object
  PROVE  CopiesInv'
<1>1. ASSUME NEW r \in rows' \cup st'[DP].got PROVE IsTaken(r.object)'
  <2>1. PICK x \in rows \cup st[DP].got : x.object = r.object
    OBVIOUS
  <2>2. IsTaken(x.object)
    BY DEF CopiesInv
  <2> QED BY <2>1, <2>2 DEF IsTaken
<1>2. ASSUME NEW p \in Hosts, st'[p].op = "add"
      PROVE  At(p, "add") /\ Pending(p)' = Pending(p)
  BY <1>2 DEF Pending, At
<1>3. ASSUME NEW p \in Hosts, st'[p].op = "add"
      PROVE  /\ IsTaken(Pending(p))'
             /\ \A r \in rows' \cup st'[DP].got : r.object # Pending(p)'
             /\ \A q \in Hosts : st'[q].op = "add" /\ Pending(q)' = Pending(p)' => p = q
  <2>1. At(p, "add") /\ Pending(p)' = Pending(p)
    BY <1>2, <1>3
  <2>2. /\ IsTaken(Pending(p)) /\ \A r \in rows \cup st[DP].got : r.object # Pending(p)
        /\ \A q \in Hosts : At(q, "add") /\ Pending(q) = Pending(p) => p = q
    BY <2>1 DEF CopiesInv
  <2>3. IsTaken(Pending(p))'
    BY <2>1, <2>2 DEF IsTaken
  <2>4. \A r \in rows' \cup st'[DP].got : r.object # Pending(p)'
    BY <2>1, <2>2
  <2>5. \A q \in Hosts : st'[q].op = "add" /\ Pending(q)' = Pending(p)' => p = q
    BY <1>2, <2>1, <2>2
  <2> QED BY <2>3, <2>4, <2>5
<1> QED BY <1>1, <1>3 DEF CopiesInv, At

LEMMA CopiesTake ==
  ASSUME TInv, CopiesInv, NEW p \in PPs, NEW f \in Fragments, TakeFragment(p, f)
  PROVE  CopiesInv'
<1>1. /\ p \in Hosts /\ p # DP /\ At(p, "idle") /\ st'[p].op = "add"
      /\ Pending(p)' = [frag |-> f, copy |-> taken[f] + 1]
      /\ \A b \in Procs : b # p => st'[b] = st[b]
  BY TakeJob DEF Hosts, Fitting, Pending, TInv
<1>2. /\ taken' = [taken EXCEPT ![f] = @ + 1] /\ rows' = rows /\ st'[DP] = st[DP]
  BY <1>1, Constants DEF TakeFragment
<1>3. \A g \in Fragments : taken'[g] = IF g = f THEN taken[f] + 1 ELSE taken[g]
  BY <1>2 DEF TInv, TypeInv
<1>4. ASSUME NEW o, o.frag \in Fragments, IsTaken(o)
      PROVE  IsTaken(o)' /\ o # Pending(p)'
  <2>1. o.copy \in 1 .. taken[o.frag] /\ taken[o.frag] \in Nat
    BY <1>4, FragsAre DEF IsTaken
  <2>2. o.copy \in 1 .. taken'[o.frag]
    BY <1>3, <1>4, <2>1
  <2>3. o.frag = f => o.copy # taken[f] + 1
    BY <2>1
  <2> QED BY <1>1, <2>2, <2>3 DEF IsTaken
<1>5. \A r \in rows' \cup st'[DP].got : IsTaken(r.object)' /\ r.object # Pending(p)'
  <2> SUFFICES ASSUME NEW r \in rows \cup st[DP].got
               PROVE  IsTaken(r.object)' /\ r.object # Pending(p)'
    BY <1>2
  <2>1. IsTaken(r.object) /\ r.object.frag \in Fragments
    BY FragsAre DEF CopiesInv
  <2> QED BY <2>1, <1>4
<1>6. ASSUME NEW q \in Hosts, q # p, st'[q].op = "add"
      PROVE  At(q, "add") /\ Pending(q)' = Pending(q) /\ Pending(q).frag \in Fragments
             /\ IsTaken(Pending(q)) /\ IsTaken(Pending(q))' /\ Pending(q) # Pending(p)'
  <2>1. st'[q] = st[q]
    BY <1>1, <1>6, Constants
  <2>2. At(q, "add") /\ Pending(q)' = Pending(q) /\ Pending(q).frag \in Fragments
    BY <1>6, <2>1, FragsAre DEF At, Pending
  <2>3. IsTaken(Pending(q))
    BY <2>2 DEF CopiesInv
  <2>4. IsTaken(Pending(q))' /\ Pending(q) # Pending(p)'
    <3>1. taken[Pending(q).frag] \in Nat /\ Pending(q).copy \in 1 .. taken[Pending(q).frag]
      BY <2>2, <2>3, FragsAre DEF IsTaken
    <3>2. Pending(q).copy \in 1 .. taken'[Pending(q).frag]
      BY <1>3, <2>2, <3>1
    <3>3. Pending(q).frag = f => Pending(q).copy # taken[f] + 1
      BY <3>1
    <3>4. IsTaken(Pending(q))'
      BY <2>2, <3>2 DEF IsTaken
    <3> QED BY <1>1, <3>3, <3>4
  <2> QED BY <2>2, <2>3, <2>4
<1>7. IsTaken(Pending(p))'
  <2>1. Pending(p)'.frag = f /\ Pending(p)'.copy = taken[f] + 1 /\ taken'[f] = taken[f] + 1
        /\ taken[f] \in Nat
    BY <1>1, <1>3, FragsAre
  <2> QED BY <2>1 DEF IsTaken
<1>8. ASSUME NEW q \in Hosts, st'[q].op = "add"
      PROVE  /\ IsTaken(Pending(q))'
             /\ \A r \in rows' \cup st'[DP].got : r.object # Pending(q)'
             /\ \A x \in Hosts : st'[x].op = "add" /\ Pending(x)' = Pending(q)' => q = x
  <2>1. CASE q = p
    BY <2>1, <1>5, <1>6, <1>7
  <2>2. CASE q # p
    <3>1. \A r \in rows \cup st[DP].got : r.object # Pending(q)
      BY <1>6, <1>8, <2>2 DEF CopiesInv
    <3>2. \A x \in Hosts : st'[x].op = "add" /\ Pending(x)' = Pending(q)' => q = x
      BY <1>6, <1>8, <2>2 DEF CopiesInv
    <3> QED BY <1>2, <1>6, <1>8, <2>2, <3>1, <3>2
  <2> QED BY <2>1, <2>2
<1> QED BY <1>5, <1>8 DEF CopiesInv, At

LEMMA CopiesAdd ==
  ASSUME TInv, CopiesInv, NEW p \in PPs, AddPart(p)
  PROVE  CopiesInv'
<1>1. /\ p \in Hosts /\ p # DP /\ At(p, "add") /\ st'[p].op = "notify"
      /\ \A b \in Procs : b # p => st'[b] = st[b]
  BY AddJob DEF Hosts, Fitting, TInv
<1>2. /\ IsTaken(Pending(p)) /\ rows' = rows \cup {[object |-> Pending(p), age |-> 0]}
  BY AddedRow
<1>3. taken' = taken /\ st'[DP] = st[DP]
  BY <1>1, Constants DEF AddPart, past
<1>4. \A r \in rows' \cup st'[DP].got : IsTaken(r.object)'
  BY <1>2, <1>3 DEF CopiesInv, IsTaken
<1>5. ASSUME NEW q \in Hosts, st'[q].op = "add"
      PROVE  /\ q # p /\ At(q, "add") /\ Pending(q)' = Pending(q)
             /\ IsTaken(Pending(q)) /\ Pending(q) # Pending(p)
  <2>1. q # p /\ st'[q] = st[q]
    BY <1>1, <1>5, Constants
  <2> QED BY <1>1, <1>5, <2>1 DEF CopiesInv, At, Pending
<1>6. ASSUME NEW q \in Hosts, st'[q].op = "add"
      PROVE  /\ IsTaken(Pending(q))'
             /\ \A r \in rows' \cup st'[DP].got : r.object # Pending(q)'
             /\ \A x \in Hosts : st'[x].op = "add" /\ Pending(x)' = Pending(q)' => q = x
  <2>1. IsTaken(Pending(q))'
    BY <1>3, <1>5, <1>6 DEF IsTaken
  <2>2. \A r \in rows' \cup st'[DP].got : r.object # Pending(q)'
    BY <1>2, <1>3, <1>5, <1>6 DEF CopiesInv
  <2>3. \A x \in Hosts : st'[x].op = "add" /\ Pending(x)' = Pending(q)' => q = x
    BY <1>5, <1>6 DEF CopiesInv
  <2> QED BY <2>1, <2>2, <2>3
<1> QED BY <1>4, <1>6 DEF CopiesInv, At

\* A step of another kind adds no copy.
LEMMA CopiesOther ==
  ASSUME TInv, CopiesInv, taken' = taken, rows' \subseteq rows,
         NEW a \in Procs, Fitting(a), st'[a].op # "add",
         a = DP => st'[DP].got \subseteq rows \cup st[DP].got
  PROVE  CopiesInv'
<1>1. \A p \in Hosts : st'[p].op = "add" => st'[p] = st[p]
  BY Constants DEF Fitting
<1>2. st'[DP].got \subseteq rows \cup st[DP].got
  BY Constants DEF Fitting
<1>3. \A r \in rows' \cup st'[DP].got : \E x \in rows \cup st[DP].got : x.object = r.object
  BY <1>2
<1> QED BY <1>1, <1>3, CopiesFrame

LEMMA CopiesStep == TInv /\ CopiesInv /\ [Next]_vars => CopiesInv'
<1> SUFFICES ASSUME TInv, CopiesInv, [Next]_vars PROVE CopiesInv'
  OBVIOUS
<1> USE DEF TInv
<1>1. ASSUME NEW p \in PPs, NEW f \in Fragments, TakeFragment(p, f) PROVE CopiesInv'
  BY <1>1, CopiesTake
<1>2. ASSUME NEW p \in PPs, AddPart(p) PROVE CopiesInv'
  BY <1>2, CopiesAdd
<1>3. ASSUME NEW p \in PPs, Notify(p) PROVE CopiesInv'
  <2>1. p \in Procs /\ p # DP /\ Fitting(p) /\ Fresh(st'[p], "idle", 0)
    BY <1>3, IdleAgain, Constants DEF Notify, Hosts
  <2>2. taken' = taken /\ rows' = rows
    BY <1>3 DEF Notify, past
  <2> QED BY <2>1, <2>2, CopiesOther DEF Fresh
<1>4. ASSUME NEW p \in PPs, FailAdd(p) PROVE CopiesInv'
  <2>1. p \in Procs /\ p # DP /\ Fitting(p) /\ st'[p].op # "add"
    BY <1>4, FailAddJob, Constants DEF Hosts, Fresh
  <2>2. taken' = taken /\ rows' = rows
    BY <1>4 DEF FailAdd
  <2> QED BY <2>1, <2>2, CopiesOther
<1>5. ASSUME NEW m \in Movers, Login(m) PROVE CopiesInv'
  <2>1. Goto(m, [Idle EXCEPT !.op = "wipe"]) /\ m \in Procs /\ m # DP
    BY <1>5, Constants DEF Login, Hosts
  <2>2. Fitting(m) /\ st'[m].op # "add"
    BY <2>1, FreshJob DEF HostOps, Fresh
  <2>3. taken' = taken /\ rows' = rows
    BY <1>5 DEF Login
  <2> QED BY <2>1, <2>2, <2>3, CopiesOther
<1>6. ASSUME NEW m \in Movers, MoveOffline(m) PROVE CopiesInv'
  <2>1. m \in Procs /\ m # DP /\ Fitting(m) /\ st'[m].op # "add"
    BY <1>6, MoveJob, Constants DEF Fresh, Hosts
  <2>2. taken' = taken /\ rows' = rows
    BY <1>6 DEF MoveOffline, past
  <2> QED BY <2>1, <2>2, CopiesOther
<1>7. ASSUME NEW m \in Movers, Gone(m) PROVE CopiesInv'
  <2>1. m \in Procs /\ m # DP /\ Fitting(m) /\ Fresh(st'[m], "idle", 0)
    BY <1>7, IdleAgain, Constants DEF Gone, Hosts
  <2>2. taken' = taken /\ rows' = rows
    BY <1>7 DEF Gone, past
  <2> QED BY <2>1, <2>2, CopiesOther DEF Fresh
<1>8. ASSUME NEW a \in Deleters, DeleteSelect(a) PROVE CopiesInv'
  <2>1. a \in Procs
    BY DeletersAre
  <2>2. /\ Fitting(a) /\ st[a].op \in Deletes
        /\ \/ Chosen(a) = {} /\ Fresh(st'[a], st[a].after, 0)
           \/ st'[a].op = st[a].op /\ st'[a].got = Chosen(a)
    BY <1>8, <2>1, DeleteJob
  <2>3. st[a].after \in {"idle", "gone"} /\ st[a].op # "add"
    BY <2>1, <2>2, JobParts DEF TypeInv, Deletes
  <2>4. st'[a].op # "add" /\ (st'[a].got = {} \/ st'[a].got = Chosen(a))
    BY <2>2, <2>3 DEF Fresh
  <2>5. Chosen(a) \subseteq rows
    BY DEF Chosen, Expired
  <2>6. taken' = taken /\ rows' = rows
    BY <1>8 DEF DeleteSelect, past
  <2> QED BY <2>1, <2>2, <2>4, <2>5, <2>6, CopiesOther
<1>9. ASSUME NEW a \in Deleters, DeleteCommit(a) PROVE CopiesInv'
  <2>1. a \in Procs /\ st[a].after \in {"idle", "gone"}
    BY DeletersAre, JobParts DEF TypeInv
  <2>2. Fitting(a) /\ Fresh(st'[a], st[a].after, 0)
    BY <1>9, CommitIs
  <2>3. rows' \subseteq rows
    BY <1>9, CommitIs
  <2>4. taken' = taken
    BY <1>9 DEF DeleteCommit
  <2> QED BY <2>1, <2>2, <2>3, <2>4, CopiesOther DEF Fresh
<1>10. ASSUME NEW a \in Deleters, FailDelete(a) PROVE CopiesInv'
  <2>1. a \in Procs /\ st[a].after \in {"idle", "gone"}
    BY DeletersAre, JobParts DEF TypeInv
  <2>2. Fitting(a) /\ Fresh(st'[a], st[a].after, 0)
    BY <1>10, <2>1, DeletedJob DEF FailDelete
  <2>3. taken' = taken /\ rows' = rows
    BY <1>10 DEF FailDelete
  <2> QED BY <2>1, <2>2, <2>3, CopiesOther DEF Fresh
<1>11. CASE Receive
  <2>1. Fitting(DP) /\ st'[DP].op # "add" /\ st'[DP].got = {}
    BY <1>11, ReceiveJob DEF Fresh
  <2>2. taken' = taken /\ rows' = rows
    BY <1>11 DEF Receive, past
  <2> QED BY <2>1, <2>2, CopiesOther, Constants
<1>12. CASE SelectParts
  <2>1. Fitting(DP) /\ st'[DP].op # "add" /\ (st'[DP].got = {} \/ st'[DP].got = Parted)
    BY <1>12, SelectJob DEF Fresh
  <2>2. taken' = taken /\ rows' = rows /\ Parted \subseteq rows
    BY <1>12 DEF SelectParts, past, Parted
  <2> QED BY <2>1, <2>2, CopiesOther, Constants
<1>13. CASE Lookup
  <2>1. Fitting(DP) /\ st'[DP].op # "add" /\ (st'[DP].got = {} \/ st'[DP].got = st[DP].got)
    BY <1>13, LookupJob
  <2>2. taken' = taken /\ rows' = rows
    BY <1>13 DEF Lookup
  <2> QED BY <2>1, <2>2, CopiesOther, Constants
<1>14. ASSUME NEW r \in st[DP].got, ReadPart(r) PROVE CopiesInv'
  <2>1. Fitting(DP) /\ st'[DP].op # "add" /\ st'[DP].got = st[DP].got \ {r}
    BY <1>14, ReadJob
  <2>2. taken' = taken /\ rows' = rows
    BY <1>14 DEF ReadPart, past
  <2> QED BY <2>1, <2>2, CopiesOther, Constants
<1>15. CASE Inject
  <2>1. Fitting(DP) /\ st'[DP].op # "add" /\ st'[DP].got = {}
    BY <1>15, InjectJob DEF Fresh
  <2>2. taken' = taken /\ rows' = rows
    BY <1>15 DEF Inject
  <2> QED BY <2>1, <2>2, CopiesOther, Constants
<1>16. CASE FailCheck
  <2>1. Fitting(DP) /\ st'[DP].op # "add" /\ st'[DP].got = {}
    BY <1>16, CheckJob DEF Fresh
  <2>2. taken' = taken /\ rows' = rows
    BY <1>16 DEF FailCheck
  <2> QED BY <2>1, <2>2, CopiesOther, Constants
<1>17. CASE Second
  <2>1. taken' = taken /\ st' = st
    BY <1>17 DEF Second, past
  <2>2. \A r \in rows' : \E x \in rows : x.object = r.object
    BY <1>17, SecondRows
  <2>3. \A r \in rows' \cup st'[DP].got : \E x \in rows \cup st[DP].got : x.object = r.object
    BY <2>1, <2>2
  <2> QED BY <2>1, <2>3, CopiesFrame
<1>18. CASE UNCHANGED vars
  BY <1>18, CopiesFrame DEF vars
<1> QED
  BY <1>1, <1>2, <1>3, <1>4, <1>5, <1>6, <1>7, <1>8, <1>9, <1>10, <1>11, <1>12, <1>13, <1>14,
     <1>15, <1>16, <1>17, <1>18 DEF Next, PPStep, Moving, Deleting, DPStep, Deleters

----------------------------------------------------------------------------
(* What only grows, and what only DP changes *)

Growing ==
  /\ lost \subseteq lost'
  /\ \A f \in Fragments : taken'[f] \in Nat /\ taken[f] <= taken'[f]
  /\ \/ injected' = injected
     \/ At(DP, "read") /\ st[DP].got = {} /\ injected' = Append(injected, st[DP].data)
LEMMA Grows == TInv /\ [Next]_vars => Growing
<1> SUFFICES ASSUME TInv, [Next]_vars PROVE Growing
  OBVIOUS
<1>0. \A f \in Fragments : taken[f] \in Nat
  BY FragsAre
<1>1. ASSUME NEW p \in PPs, NEW f \in Fragments, TakeFragment(p, f) PROVE Growing
  <2>1. taken' = [taken EXCEPT ![f] = @ + 1] /\ lost' = lost /\ injected' = injected
    BY <1>1 DEF TakeFragment
  <2> QED BY <1>0, <2>1 DEF TInv, TypeInv, Growing
<1>2. ASSUME NEW p \in PPs, AddPart(p) PROVE Growing
  BY <1>2, <1>0 DEF AddPart, past, Growing
<1>3. ASSUME NEW p \in PPs, Notify(p) PROVE Growing
  BY <1>3, <1>0 DEF Notify, past, Growing
<1>4. ASSUME NEW p \in PPs, FailAdd(p) PROVE Growing
  BY <1>4, <1>0 DEF FailAdd, past, Growing
<1>5. ASSUME NEW m \in Movers, Login(m) PROVE Growing
  BY <1>5, <1>0 DEF Login, past, Growing
<1>6. ASSUME NEW m \in Movers, MoveOffline(m) PROVE Growing
  BY <1>6, <1>0 DEF MoveOffline, past, Growing
<1>7. ASSUME NEW m \in Movers, Gone(m) PROVE Growing
  BY <1>7, <1>0 DEF Gone, past, Growing
<1>8. ASSUME NEW a \in Deleters, DeleteSelect(a) PROVE Growing
  BY <1>8, <1>0 DEF DeleteSelect, past, Growing
<1>9. ASSUME NEW a \in Deleters, DeleteCommit(a) PROVE Growing
  BY <1>9, <1>0 DEF DeleteCommit, past, Growing
<1>10. ASSUME NEW a \in Deleters, FailDelete(a) PROVE Growing
  BY <1>10, <1>0 DEF FailDelete, past, Growing
<1>11. CASE Receive
  BY <1>11, <1>0 DEF Receive, past, Growing
<1>12. CASE SelectParts
  BY <1>12, <1>0 DEF SelectParts, past, Growing
<1>13. CASE Lookup
  BY <1>13, <1>0 DEF Lookup, past, Growing
<1>14. ASSUME NEW r \in st[DP].got, ReadPart(r) PROVE Growing
  BY <1>14, <1>0 DEF ReadPart, past, Growing
<1>15. CASE Inject
  BY <1>15, <1>0 DEF Inject, past, Growing
<1>16. CASE FailCheck
  BY <1>16, <1>0 DEF FailCheck, past, Growing
<1>17. CASE Second
  BY <1>17, <1>0 DEF Second, past, Growing
<1>18. CASE UNCHANGED vars
  BY <1>18, <1>0 DEF vars, Growing
<1> QED
  BY <1>1, <1>2, <1>3, <1>4, <1>5, <1>6, <1>7, <1>8, <1>9, <1>10, <1>11, <1>12, <1>13, <1>14, <1>15, <1>16, <1>17, <1>18
     DEF Next, PPStep, Moving, Deleting, DPStep, Deleters

\* What the others do leaves DP what it has in hand, but for the objects that a
\* deletion takes away.
Elsewhere ==
  /\ st'[DP] = st[DP] /\ injected' = injected
  /\ \A o \in objects : o \in objects' \/ (Assembling => Cut')
LEMMA OthersStep == TInv /\ CopiesInv /\ [Next]_vars => Elsewhere \/ DPStep \/ Deleting(DP)
<1> SUFFICES ASSUME TInv, CopiesInv, [Next]_vars PROVE Elsewhere \/ DPStep \/ Deleting(DP)
  OBVIOUS
<1> USE DEF TInv
<1>1. \A m \in PPs \cup Movers : m \in Procs /\ m # DP
  BY Constants DEF Hosts
<1>2. ASSUME NEW p \in PPs, NEW f \in Fragments, TakeFragment(p, f) PROVE Elsewhere
  <2>1. st'[DP] = st[DP]
    BY <1>2, TakeJob, Constants DEF Fitting
  <2> QED BY <1>2, <2>1 DEF TakeFragment, Elsewhere
<1>3. ASSUME NEW p \in PPs, AddPart(p) PROVE Elsewhere
  BY <1>3, AddJob, AddedRow, Constants DEF AddPart, past, Fitting, Elsewhere
<1>4. ASSUME NEW p \in PPs, Notify(p) PROVE Elsewhere
  BY <1>4, <1>1, IdleAgain, Constants DEF Notify, past, Fitting, Elsewhere
<1>5. ASSUME NEW p \in PPs, FailAdd(p) PROVE Elsewhere
  BY <1>5, FailAddJob, Constants DEF FailAdd, Fitting, Elsewhere
<1>6. ASSUME NEW m \in Movers, Login(m) PROVE Elsewhere
  <2>1. Goto(m, [Idle EXCEPT !.op = "wipe"])
    BY <1>6 DEF Login
  <2>2. Fitting(m)
    BY <1>1, <2>1, FreshJob DEF HostOps
  <2> QED BY <1>6, <1>1, <2>2, Constants DEF Login, Fitting, Elsewhere
<1>7. ASSUME NEW m \in Movers, MoveOffline(m) PROVE Elsewhere
  BY <1>7, MoveJob, Constants DEF MoveOffline, past, Fitting, Elsewhere
<1>8. ASSUME NEW m \in Movers, Gone(m) PROVE Elsewhere
  BY <1>8, <1>1, IdleAgain, Constants DEF Gone, past, Fitting, Elsewhere
<1>9. ASSUME NEW m \in Movers, DeleteSelect(m) PROVE Elsewhere
  BY <1>9, <1>1, DeleteJob, Constants DEF DeleteSelect, past, Fitting, Elsewhere
<1>10. ASSUME NEW m \in Movers, DeleteCommit(m) PROVE Elsewhere
  <2>1. m \in Deleters /\ m # DP
    BY <1>1 DEF Deleters
  <2>2. Fitting(m) /\ (UNCHANGED objects \/ (Assembling => Cut'))
    BY <1>10, <2>1, CommitIs
  <2>3. injected' = injected
    BY <1>10 DEF DeleteCommit
  <2> QED BY <2>1, <2>2, <2>3, Constants DEF Fitting, Elsewhere
<1>11. ASSUME NEW m \in Movers, FailDelete(m) PROVE Elsewhere
  BY <1>11, <1>1, DeletedJob, Constants DEF FailDelete, Fitting, Elsewhere
<1>12. CASE Second
  BY <1>12 DEF Second, past, Elsewhere
<1>13. CASE UNCHANGED vars
  BY <1>13 DEF vars, Elsewhere
<1> QED
  BY <1>2, <1>3, <1>4, <1>5, <1>6, <1>7, <1>8, <1>9, <1>10, <1>11, <1>12, <1>13
     DEF Next, PPStep, Moving, Deleting

----------------------------------------------------------------------------
(* What is assembled is whole *)

\* As many rows as parts, and each part: no part is there twice.
LEMMA PartsOnce ==
  ASSUME NEW R, IsFiniteSet(R), Complete(R)
  PROVE  \A r, x \in R : r.object.frag.part = x.object.frag.part => r = x
<1> DEFINE F == [r \in R |-> r.object.frag.part]
<1>1. Parts \in Nat \ {0} /\ Cardinality(R) = Parts /\ {r.object.frag.part : r \in R} = Part
  BY Constants DEF Complete
<1>2. F \in Surjection(R, Part)
  BY <1>1 DEF Surjection
<1>3. Cardinality(Part) = Parts
  BY <1>1, FS_Interval DEF Part
<1>4. F \in Injection(R, Part)
  <2>1. Cardinality(Part) = Cardinality(R) <=> F \in Injection(R, Part)
    BY <1>2, FS_Surjection, Zenon
  <2> QED BY <1>1, <1>3, <2>1
<1> QED BY <1>4 DEF Injection, IsInjective

LEMMA HandFrame ==
  ASSUME TInv, HandInv, Growing, Elsewhere
  PROVE  HandInv'
<1> SUFFICES ASSUME Assembling' PROVE HandInv'
  BY DEF HandInv
<1>1. Assembling /\ st'[DP] = st[DP] /\ (Cut => Cut')
  BY DEF Elsewhere, Assembling, Growing, Cut
<1>2. st[DP].data \in Seq(Pieces)
  BY JobParts, Constants DEF TInv, TypeInv
<1>3. ASSUME NEW j \in DOMAIN st[DP].data, st[DP].data[j] # Void, taken[st[DP].data[j]] > 0
      PROVE  taken'[st[DP].data[j]] > 0
  <2>1. PICK f \in Fragments : f = st[DP].data[j]
    BY <1>2, <1>3 DEF Pieces
  <2>2. taken[f] \in Nat /\ taken'[f] \in Nat /\ taken[f] <= taken'[f] /\ taken[f] > 0
    BY <2>1, <1>3, FragsAre DEF Growing
  <2> QED BY <2>1, <2>2
<1>4. \A r \in st[DP].got : r.object \in objects \/ Cut => r.object \in objects' \/ Cut'
  BY <1>1 DEF Elsewhere
<1> QED BY <1>1, <1>3, <1>4 DEF HandInv, At, Assembling

LEMMA HandSelect ==
  ASSUME TInv, SelectParts, st'[DP].op = "lookup", UNCHANGED <<rows, objects>>
  PROVE  HandInv'
<1>1. /\ Complete(Parted) /\ st[DP].seq \notin Big /\ st'[DP].op = "lookup"
      /\ st'[DP].seq = st[DP].seq /\ st'[DP].got = Parted /\ st'[DP].data = <<>>
  BY SelectJob DEF Fresh
<1>2. Parted \subseteq rows /\ IsFiniteSet(Parted)
  BY FS_Subset DEF Parted, TInv, StoreInv
<1>3. \A r, x \in Parted : r.object.frag.part = x.object.frag.part => r = x
  BY <1>1, <1>2, PartsOnce
<1>4. {r.object.frag.part : r \in Parted} = 0 .. Parts - 1
  BY <1>1 DEF Complete, Part
<1>5. \A r \in Parted : r.object.frag.seq = st[DP].seq /\ r.object \in objects'
  BY <1>2 DEF Parted, TInv, StoreInv
<1>6. Len(st'[DP].data) = 0 /\ DOMAIN st'[DP].data = {} /\ 0 <= Parts
  BY <1>1, Constants
<1> QED BY <1>1, <1>3, <1>4, <1>5, <1>6 DEF HandInv, At

\* The part that is read is the one that is missing from what was read.
LEMMA NextPart ==
  ASSUME TInv, HandInv, Assembling, NEW r \in st[DP].got,
         \A x \in st[DP].got : r.object.frag.part <= x.object.frag.part
  PROVE  /\ r.object.frag.part = Len(st[DP].data) /\ Len(st[DP].data) + 1 <= Parts
         /\ {x.object.frag.part : x \in st[DP].got \ {r}} = Len(st[DP].data) + 1 .. Parts - 1
<1> DEFINE n == Len(st[DP].data)
<1>1. /\ {x.object.frag.part : x \in st[DP].got} = n .. Parts - 1
      /\ \A x, y \in st[DP].got : x.object.frag.part = y.object.frag.part => x = y
  BY DEF HandInv
<1>2. n \in Nat /\ Parts \in Nat
  BY SMTT(30), JobParts, Constants DEF TInv, TypeInv
<1> HIDE DEF n
<1>3. r.object.frag.part \in n .. Parts - 1
  BY <1>1
<1>4. n \in n .. Parts - 1
  BY <1>2, <1>3
<1>5. PICK z \in st[DP].got : z.object.frag.part = n
  BY <1>1, <1>4
<1>6. r.object.frag.part = n
  BY <1>2, <1>3, <1>5
<1>7. {x.object.frag.part : x \in st[DP].got \ {r}} = n + 1 .. Parts - 1
  <2>1. ASSUME NEW y \in st[DP].got \ {r} PROVE y.object.frag.part \in n + 1 .. Parts - 1
    <3>1. y.object.frag.part \in n .. Parts - 1 /\ y.object.frag.part # n
      BY <1>1, <1>6
    <3> QED BY <1>2, <3>1
  <2>2. ASSUME NEW i \in n + 1 .. Parts - 1
        PROVE  \E y \in st[DP].got \ {r} : y.object.frag.part = i
    <3>1. i \in n .. Parts - 1 /\ i # n
      BY <1>2
    <3>2. PICK w \in st[DP].got : w.object.frag.part = i
      BY <1>1, <3>1
    <3> QED BY <1>6, <3>1, <3>2
  <2> QED BY <2>1, <2>2
<1> QED BY <1>2, <1>4, <1>6, <1>7 DEF n

LEMMA HandRead ==
  ASSUME TInv, CopiesInv, HandInv, NEW r \in st[DP].got, ReadPart(r)
  PROVE  HandInv'
<1> DEFINE J == st[DP]
           K == st'[DP]
           n == Len(J.data)
<1>1. /\ At(DP, "read") /\ K.op = "read" /\ K.seq = J.seq /\ K.got = J.got \ {r}
      /\ K.data = Append(J.data, Piece(r)) /\ r.object.frag \in Fragments
  BY ReadJob
<1>2. Assembling
  BY <1>1 DEF Assembling, At
<1>3. /\ taken' = taken /\ lost' = lost /\ objects' = objects
      /\ \A x \in J.got : r.object.frag.part <= x.object.frag.part
  BY DEF ReadPart, past
<1>4. /\ r.object.frag.part = n /\ n + 1 <= Parts
      /\ {x.object.frag.part : x \in J.got \ {r}} = n + 1 .. Parts - 1
  BY <1>2, <1>3, NextPart
<1>5. J.data \in Seq(Pieces) /\ n \in Nat
  BY JobParts, Constants DEF TInv, TypeInv
<1>6. /\ Len(K.data) = n + 1 /\ DOMAIN K.data = 1 .. n + 1 /\ DOMAIN J.data = 1 .. n
      /\ \A j \in 1 .. n : K.data[j] = J.data[j]
      /\ K.data[n + 1] = Piece(r)
  BY <1>1, <1>5
<1>7. /\ J.seq \notin Big
      /\ \A j \in 1 .. n : J.data[j] # Void =>
           J.data[j].part = j - 1 /\ J.data[j].seq = J.seq /\ taken[J.data[j]] > 0
      /\ (\E j \in 1 .. n : J.data[j] = Void) => Cut
      /\ \A x \in J.got : x.object.frag.seq = J.seq /\ (x.object \in objects \/ Cut)
      /\ \A x, y \in J.got : x.object.frag.part = y.object.frag.part => x = y
  BY <1>2, <1>6 DEF HandInv
<1>8. /\ Piece(r) # Void => Piece(r).part = n /\ Piece(r).seq = J.seq /\ taken[Piece(r)] > 0
      /\ Piece(r) = Void => Cut
  <2>1. taken[r.object.frag] > 0
    <3>1. IsTaken(r.object) /\ taken[r.object.frag] \in Nat
      BY <1>1, FragsAre DEF CopiesInv
    <3> QED BY <3>1 DEF IsTaken
  <2>2. CASE Piece(r) = r.object.frag
    BY <1>1, <1>4, <1>7, <2>1, <2>2, FragmentsDiffer
  <2>3. CASE Piece(r) = Void /\ (r.object \notin objects \/ \E j \in 1 .. n : J.data[j] = Void)
    BY <1>7, <2>3
  <2> QED BY <1>6, <2>2, <2>3 DEF Piece
<1>9. \A j \in 1 .. n + 1 : K.data[j] # Void =>
           K.data[j].part = j - 1 /\ K.data[j].seq = J.seq /\ taken[K.data[j]] > 0
  <2> SUFFICES ASSUME NEW j \in 1 .. n + 1, K.data[j] # Void
               PROVE  K.data[j].part = j - 1 /\ K.data[j].seq = J.seq /\ taken[K.data[j]] > 0
    OBVIOUS
  <2>1. CASE j \in 1 .. n
    BY <1>6, <1>7, <2>1
  <2>2. CASE j = n + 1
    <3>1. K.data[j] = Piece(r) /\ j - 1 = n
      BY <1>5, <1>6, <2>2
    <3> QED BY <1>8, <3>1
  <2>3. j \in 1 .. n \/ j = n + 1
    BY <1>5
  <2> QED BY <2>1, <2>2, <2>3
<1>10. (\E j \in 1 .. n + 1 : K.data[j] = Void) => Cut
  <2> SUFFICES ASSUME NEW j \in 1 .. n + 1, K.data[j] = Void PROVE Cut
    OBVIOUS
  <2>1. CASE j \in 1 .. n
    BY <1>6, <1>7, <2>1
  <2>2. CASE j = n + 1
    BY <1>6, <1>8, <2>2
  <2>3. j \in 1 .. n \/ j = n + 1
    BY <1>5
  <2> QED BY <2>1, <2>2, <2>3
<1>11. Cut' = Cut
  BY <1>3 DEF Cut
<1> HIDE DEF J, K, n
<1>12. /\ K.seq \notin Big
       /\ K.op # "lookup"
       /\ \A j \in DOMAIN K.data : K.data[j] # Void =>
            K.data[j].part = j - 1 /\ K.data[j].seq = K.seq /\ taken'[K.data[j]] > 0
       /\ (\E j \in DOMAIN K.data : K.data[j] = Void) => Cut'
  BY <1>1, <1>3, <1>6, <1>7, <1>9, <1>10, <1>11
<1>13. /\ \A x \in K.got : x.object.frag.seq = K.seq /\ (x.object \in objects' \/ Cut')
       /\ \A x, y \in K.got : x.object.frag.part = y.object.frag.part => x = y
       /\ {x.object.frag.part : x \in K.got} = Len(K.data) .. Parts - 1
       /\ Len(K.data) <= Parts
  BY <1>1, <1>3, <1>4, <1>6, <1>7, <1>11
<1> QED BY <1>12, <1>13 DEF HandInv, At, K

LEMMA HandStep == TInv /\ CopiesInv /\ HandInv /\ [Next]_vars => HandInv'
<1> SUFFICES ASSUME TInv, CopiesInv, HandInv, [Next]_vars PROVE HandInv'
  OBVIOUS
<1>1. Growing
  BY Grows
<1>2. CASE Elsewhere
  BY <1>1, <1>2, HandFrame
<1>3. ASSUME st'[DP].op \notin {"lookup", "read"} PROVE HandInv'
  BY <1>3 DEF HandInv, Assembling
<1>4. CASE Receive
  BY <1>3, <1>4, ReceiveJob DEF TInv, Fresh
<1>5. CASE SelectParts
  <2>1. st'[DP].op = "lookup" \/ st'[DP].op \notin {"lookup", "read"}
    BY <1>5, SelectJob DEF Fresh
  <2>2. UNCHANGED <<rows, objects>>
    BY <1>5 DEF SelectParts
  <2> QED BY <1>3, <1>5, <2>1, <2>2, HandSelect
<1>6. CASE Lookup
  <2>1. CASE st'[DP].op = "read" /\ st'[DP].got = st[DP].got
    <3>1. /\ At(DP, "lookup") /\ st'[DP].seq = st[DP].seq /\ st'[DP].data = st[DP].data
          /\ st'[DP].got = st[DP].got /\ lost \subseteq lost'
      BY <1>6, <2>1, LookupJob
    <3>2. taken' = taken /\ objects' = objects /\ (Cut => Cut')
      BY <1>6, <3>1 DEF Lookup, Cut
    <3>3. Assembling
      BY <3>1 DEF Assembling, At
    <3> QED BY <2>1, <3>1, <3>2, <3>3 DEF HandInv, At
  <2>2. CASE st'[DP].op = "remove"
    BY <1>3, <2>2
  <2> QED BY <1>6, <2>1, <2>2, LookupJob
<1>7. ASSUME NEW r \in st[DP].got, ReadPart(r) PROVE HandInv'
  BY <1>7, HandRead
<1>8. CASE Inject
  BY <1>3, <1>8, InjectJob DEF Fresh
<1>9. CASE FailCheck
  BY <1>3, <1>9, CheckJob DEF Fresh
<1>10. CASE DeleteSelect(DP)
  <2>1. DP \in Procs
    BY Constants
  <2>2. st[DP].op \in Deletes /\ (st'[DP].op = "idle" \/ st'[DP].op = st[DP].op)
    BY <1>10, <2>1, DeleteJob
  <2> QED BY <1>3, <2>2 DEF Deletes
<1>11. CASE DeleteCommit(DP)
  BY <1>3, <1>11, CommitIs DEF Deleters
<1>12. CASE FailDelete(DP)
  BY <1>3, <1>12, DeletedJob, Constants DEF FailDelete, TInv
<1> QED
  BY <1>2, <1>4, <1>5, <1>6, <1>7, <1>8, <1>9, <1>10, <1>11, <1>12, OthersStep DEF DPStep, Deleting

\* When all parts are read there is one piece for each.
LEMMA FullHand ==
  ASSUME TInv, HandInv, Assembling, st[DP].got = {}
  PROVE  /\ Len(st[DP].data) = Parts /\ DOMAIN st[DP].data = 1 .. Parts
         /\ st[DP].data = [j \in 1 .. Parts |-> st[DP].data[j]]
         /\ \A j \in 1 .. Parts : /\ st[DP].data[j] \in Pieces
                                  /\ st[DP].data[j] # Void => st[DP].data[j] \in Fragments
<1> DEFINE n == Len(st[DP].data)
<1>1. st[DP].data \in Seq(Pieces) /\ n \in Nat /\ Parts \in Nat
  BY SMTT(30), JobParts, Constants DEF TInv, TypeInv
<1>2. n .. Parts - 1 = {} /\ n <= Parts
  BY DEF HandInv
<1>3. n = Parts
  <2>1. ~(n < Parts)
    <3> SUFFICES ASSUME n < Parts PROVE FALSE
      OBVIOUS
    <3>1. n \in n .. Parts - 1
      BY <1>1
    <3> QED BY <1>2, <3>1
  <2> QED BY <1>1, <1>2, <2>1
<1> QED BY <1>1, <1>3 DEF Pieces

Whole(d) ==
  \/ (\E k \in Packets : Contents(k) = d) /\ \A j \in DOMAIN d : d[j].seq \notin Big
  \/ \E k \in Packets : Holds(k, d) /\ Reused(k)
  \/ \E j \in DOMAIN d : d[j] = Void /\ <<Void, "cut">> \in lost
WholeInv == \A i \in DOMAIN injected : Whole(injected[i])

LEMMA WholeHand ==
  ASSUME TInv, HandInv, Assembling, st[DP].got = {}
  PROVE  Whole(st[DP].data)
<1> DEFINE d == st[DP].data
           k == PacketOf(d[1])
<1>1. /\ DOMAIN d = 1 .. Parts /\ d = [j \in 1 .. Parts |-> d[j]]
      /\ \A j \in 1 .. Parts : d[j] # Void => d[j] \in Fragments
      /\ Parts \in Nat \ {0} /\ 1 \in 1 .. Parts
  BY FullHand, Constants
<1>2. /\ st[DP].seq \notin Big
      /\ \A j \in 1 .. Parts : d[j] # Void =>
           d[j].part = j - 1 /\ d[j].seq = st[DP].seq /\ taken[d[j]] > 0
      /\ (\E j \in 1 .. Parts : d[j] = Void) => Cut
  BY <1>1 DEF HandInv
<1> HIDE DEF d
<1>3. CASE \E j \in 1 .. Parts : d[j] = Void
  BY <1>1, <1>2, <1>3 DEF Whole, Cut, d
<1>4. CASE \A j \in 1 .. Parts : d[j] # Void
  <2>1. \A j \in 1 .. Parts : /\ d[j] \in Fragments /\ d[j].part = j - 1
                              /\ d[j].seq = st[DP].seq /\ taken[d[j]] > 0
    BY <1>1, <1>2, <1>4
  <2>2. k \in Packets /\ k.seq = st[DP].seq /\ k.sid = d[1].sid
    BY <1>1, <2>1, Constants DEF PacketOf
  <2>3. CASE \A j \in 1 .. Parts : d[j].sid = k.sid
    <3>1. \A j \in 1 .. Parts : d[j] = [sid |-> k.sid, seq |-> k.seq, part |-> j - 1]
      BY <2>1, <2>2, <2>3, Constants
    <3>2. Contents(k) = d
      BY <1>1, <3>1 DEF Contents
    <3>3. \A j \in DOMAIN d : d[j].seq \notin Big
      BY <1>1, <1>2, <2>1
    <3> QED BY <2>2, <3>2, <3>3 DEF Whole, d
  <2>4. CASE \E j \in 1 .. Parts : d[j].sid # k.sid
    <3>1. Holds(k, d)
      BY <1>1, <1>4 DEF Holds
    <3>2. Reused(k)
      BY <2>1, <2>2, <2>4 DEF Reused
    <3> HIDE DEF k
    <3> QED BY <2>2, <3>1, <3>2 DEF Whole, d
  <2> QED BY <2>3, <2>4
<1> QED BY <1>3, <1>4

LEMMA WholeStays ==
  ASSUME TInv, Growing, NEW d, Whole(d)
  PROVE  Whole(d)'
<1>1. CASE (\E k \in Packets : Contents(k) = d) /\ \A j \in DOMAIN d : d[j].seq \notin Big
  BY <1>1 DEF Whole
<1>2. CASE \E k \in Packets : Holds(k, d) /\ Reused(k)
  <2>1. PICK k \in Packets : Holds(k, d) /\ Reused(k)
    BY <1>2
  <2>2. PICK f \in Fragments : f.seq = k.seq /\ f.sid # k.sid /\ taken[f] > 0
    BY <2>1 DEF Reused
  <2>3. taken'[f] > 0
    BY <2>2, FragsAre DEF Growing
  <2>4. Reused(k)'
    BY <2>2, <2>3 DEF Reused
  <2> QED BY <2>1, <2>4 DEF Whole, Holds
<1>3. CASE \E j \in DOMAIN d : d[j] = Void /\ <<Void, "cut">> \in lost
  BY <1>3 DEF Whole, Growing
<1> QED BY <1>1, <1>2, <1>3 DEF Whole

LEMMA WholeStep == TInv /\ HandInv /\ WholeInv /\ [Next]_vars => WholeInv'
<1> SUFFICES ASSUME TInv, HandInv, WholeInv, [Next]_vars PROVE WholeInv'
  OBVIOUS
<1>1. Growing
  BY Grows
<1>2. CASE injected' = injected
  <2>1. ASSUME NEW i \in DOMAIN injected PROVE Whole(injected[i])'
    <3>1. PICK d : d = injected[i]
      OBVIOUS
    <3>2. Whole(d)'
      BY <1>1, <3>1, WholeStays DEF WholeInv
    <3>3. d = injected'[i]
      BY <1>2, <3>1
    <3> QED BY <3>2, <3>3
  <2> QED BY <1>2, <2>1 DEF WholeInv
<1>3. CASE At(DP, "read") /\ st[DP].got = {} /\ injected' = Append(injected, st[DP].data)
  <2>1. Assembling
    BY <1>3 DEF Assembling, At
  <2>2. PICK e : e = st[DP].data
    OBVIOUS
  <2>3. Whole(e)'
    BY <1>1, <1>3, <2>1, <2>2, WholeHand, WholeStays
  <2>4. injected \in Seq(Seq(Pieces))
    BY DEF TInv, TypeInv
  <2>5. ASSUME NEW i \in DOMAIN injected' PROVE Whole(injected[i])'
    <3>1. CASE i \in DOMAIN injected
      <4>1. PICK d : d = injected[i]
        OBVIOUS
      <4>2. Whole(d)'
        BY <1>1, <3>1, <4>1, WholeStays DEF WholeInv
      <4>3. d = injected'[i]
        BY <1>3, <2>4, <3>1, <4>1
      <4> QED BY <4>2, <4>3
    <3>2. CASE i = Len(injected) + 1
      <4>1. e = injected'[i]
        BY <1>3, <2>2, <2>4, <3>2
      <4> QED BY <2>3, <4>1
    <3> QED BY <1>3, <2>4, <3>1, <3>2
  <2> QED BY <2>5 DEF WholeInv
<1> QED BY <1>1, <1>2, <1>3 DEF Growing

----------------------------------------------------------------------------
(* Deletions are all or nothing *)

LEMMA DeletingElsewhere ==
  ASSUME TInv, CopiesInv, DeletingInv, [Next]_vars, Elsewhere
  PROVE  DeletingInv'
<1>1. st'[DP] = st[DP]
  BY DEF Elsewhere
<1>2. CASE UNCHANGED <<rows, objects>>
  BY <1>1, <1>2 DEF DeletingInv, At
<1>3. ASSUME NEW p \in PPs, AddPart(p) PROVE DeletingInv'
  <2> DEFINE row == [object |-> Pending(p), age |-> 0]
  <2>1. /\ objects' = objects \cup {Pending(p)} /\ rows' = rows \cup {row}
        /\ \A x \in st[DP].got : x.object # Pending(p)
    BY <1>3, AddedRow
  <2>2. \A x \in st[DP].got, r \in rows' : x.object = r.object => r \in rows
    BY <2>1
  <2>3. objects \subseteq objects'
    BY <2>1
  <2> QED BY <1>1, <2>2, <2>3 DEF DeletingInv, At
<1>4. ASSUME NEW a \in Deleters, DeleteCommit(a) PROVE DeletingInv'
  <2>1. CASE UNCHANGED <<rows, objects>>
    BY <1>2, <2>1
  <2>2. CASE rows' = IF At(a, "expire") THEN rows \ Expired(rows) ELSE {}
    <3>1. CASE a = DP
      BY <1>1, <1>4, <3>1, CommitIs DEF DeletingInv, At
    <3>2. CASE a # DP
      <4>1. rows' = {}
        BY <1>4, <2>2, <3>2, CommitIs DEF At
      <4> QED BY <1>1, <4>1 DEF DeletingInv, At
    <3> QED BY <3>1, <3>2
  <2> QED BY <1>4, <2>1, <2>2, CommitIs
<1>5. CASE Second
  <2>1. /\ objects' = objects
        /\ \A x \in rows' : \E r \in rows : x.object = r.object /\ (r.age > Expiry => x.age > Expiry)
    BY <1>5, SecondRows DEF Second, TInv
  <2>2. At(DP, "remove") =>
          \/ \A x \in st[DP].got : x.object \in objects'
          \/ \A x \in st[DP].got, r \in rows' : r.object # x.object
    BY <2>1 DEF DeletingInv
  <2>3. At(DP, "expire") => \A x \in st[DP].got, r \in rows' : r.object = x.object => r.age > Expiry
    <3> SUFFICES ASSUME At(DP, "expire"), NEW x \in st[DP].got, NEW r \in rows', r.object = x.object
                 PROVE  r.age > Expiry
      OBVIOUS
    <3>1. PICK y \in rows : r.object = y.object /\ (y.age > Expiry => r.age > Expiry)
      BY <2>1
    <3> QED BY <3>1 DEF DeletingInv
  <2> QED BY <1>1, <2>2, <2>3 DEF DeletingInv, At
<1> QED BY <1>2, <1>3, <1>4, <1>5, TableStep DEF TableMoves

LEMMA DeletingStep ==
  TInv /\ CopiesInv /\ DeletingInv /\ [Next]_vars => DeletingInv'
<1> SUFFICES ASSUME TInv, CopiesInv, DeletingInv, [Next]_vars PROVE DeletingInv'
  OBVIOUS
<1>1. CASE Elsewhere
  BY <1>1, DeletingElsewhere
<1>2. ASSUME \/ st'[DP].op \notin {"remove", "expire"}
             \/ st'[DP].got = {}
      PROVE  DeletingInv'
  BY <1>2 DEF DeletingInv, At
<1>3. CASE Receive
  BY <1>2, <1>3, ReceiveJob DEF TInv, Fresh
<1>4. CASE SelectParts
  BY <1>2, <1>4, SelectJob DEF Fresh
<1>5. CASE Lookup
  BY <1>2, <1>5, LookupJob
<1>6. ASSUME NEW r \in st[DP].got, ReadPart(r) PROVE DeletingInv'
  BY <1>2, <1>6, ReadJob
<1>7. CASE Inject
  BY <1>2, <1>7, InjectJob DEF Fresh
<1>8. CASE FailCheck
  BY <1>2, <1>8, CheckJob DEF Fresh
<1>9. CASE DeleteSelect(DP)
  <2>1. /\ DP \in Procs
        /\ rows' = rows /\ objects' = objects
    BY <1>9, Constants DEF DeleteSelect
  <2>2. CASE Chosen(DP) = {} /\ st'[DP].op = "idle"
    BY <1>2, <2>2
  <2>3. CASE /\ st'[DP].op = st[DP].op /\ st'[DP].seq = st[DP].seq
             /\ st'[DP].got = Chosen(DP)
    <3>1. CASE At(DP, "remove")
      <4>1. Chosen(DP) = Parted
        BY <3>1 DEF Chosen, Parted, At
      <4>2. \A x \in Parted : x.object.frag.seq = st[DP].seq /\ x.object \in objects
        BY DEF Parted, TInv, StoreInv
      <4> QED BY <2>1, <2>3, <3>1, <4>1, <4>2 DEF DeletingInv, At
    <3>2. CASE At(DP, "expire")
      <4>1. Chosen(DP) = Expired(rows)
        BY <3>2 DEF Chosen, At
      <4>2. \A x \in Expired(rows), r \in rows : r.object = x.object => r.age > Expiry
        BY DEF Expired, TInv, StoreInv
      <4> QED BY <2>1, <2>3, <3>2, <4>1, <4>2 DEF DeletingInv, At
    <3>3. At(DP, "remove") \/ At(DP, "expire")
      BY <1>9, <2>1, DeleteJob, DeletersAre DEF TInv, Deleters
    <3> QED BY <3>1, <3>2, <3>3
  <2> QED BY <1>9, <2>1, <2>2, <2>3, DeleteJob
<1>10. CASE DeleteCommit(DP)
  BY <1>2, <1>10, CommitIs DEF Deleters
<1>11. CASE FailDelete(DP)
  BY <1>2, <1>11, DeletedJob, Constants DEF FailDelete, TInv
<1> QED
  BY <1>1, <1>3, <1>4, <1>5, <1>6, <1>7, <1>8, <1>9, <1>10, <1>11, OthersStep DEF DPStep, Deleting

----------------------------------------------------------------------------
(* No copy is used twice *)

\* Only a fragment that is taken comes to be added.
AddersMove == \/ \A p \in Hosts : st'[p].op = "add" => st'[p] = st[p]
              \/ \E p \in PPs, f \in Fragments : TakeFragment(p, f)
LEMMA AddersStay ==
  ASSUME NEW a \in Procs, Fitting(a), st'[a].op # "add"
  PROVE  AddersMove
BY Constants DEF Fitting, AddersMove
LEMMA AddersStep == TInv /\ [Next]_vars => AddersMove
<1> SUFFICES ASSUME TInv, [Next]_vars PROVE AddersMove
  OBVIOUS
<1> USE DEF TInv
<1>0. \A p \in PPs \cup Movers \cup {DP} : p \in Procs
  BY Constants DEF Hosts
<1>1. ASSUME NEW p \in PPs, NEW f \in Fragments, TakeFragment(p, f) PROVE AddersMove
  BY <1>1 DEF AddersMove
<1>2. ASSUME NEW p \in PPs, AddPart(p) PROVE AddersMove
  BY <1>0, <1>2, AddJob, AddersStay
<1>3. ASSUME NEW p \in PPs, Notify(p) PROVE AddersMove
  BY <1>0, <1>3, IdleAgain, AddersStay DEF Notify, Fresh
<1>4. ASSUME NEW p \in PPs, FailAdd(p) PROVE AddersMove
  BY <1>0, <1>4, FailAddJob, AddersStay DEF Fresh
<1>5. ASSUME NEW m \in Movers, Login(m) PROVE AddersMove
  <2>1. Goto(m, [Idle EXCEPT !.op = "wipe"]) /\ m \in Procs /\ m # DP
    BY <1>5, Constants DEF Login, Hosts
  <2>2. Fitting(m) /\ st'[m].op # "add"
    BY <2>1, FreshJob DEF HostOps, Fresh
  <2> QED BY <2>1, <2>2, AddersStay
<1>6. ASSUME NEW m \in Movers, MoveOffline(m) PROVE AddersMove
  BY <1>0, <1>6, MoveJob, AddersStay DEF Fresh
<1>7. ASSUME NEW m \in Movers, Gone(m) PROVE AddersMove
  BY <1>0, <1>7, IdleAgain, AddersStay DEF Gone, Fresh
<1>8. ASSUME NEW a \in Deleters, DeleteSelect(a) PROVE AddersMove
  <2>1. a \in Procs /\ st[a].after \in {"idle", "gone"}
    BY DeletersAre, JobParts DEF TypeInv
  <2>2. Fitting(a) /\ st'[a].op # "add"
    BY <1>8, <2>1, DeleteJob DEF Fresh, Deletes
  <2> QED BY <2>1, <2>2, AddersStay
<1>9. ASSUME NEW a \in Deleters, DeleteCommit(a) PROVE AddersMove
  <2>1. a \in Procs /\ st[a].after \in {"idle", "gone"}
    BY DeletersAre, JobParts DEF TypeInv
  <2>2. Fitting(a) /\ Fresh(st'[a], st[a].after, 0)
    BY <1>9, CommitIs
  <2> QED BY <2>1, <2>2, AddersStay DEF Fresh
<1>10. ASSUME NEW a \in Deleters, FailDelete(a) PROVE AddersMove
  <2>1. a \in Procs /\ st[a].after \in {"idle", "gone"}
    BY DeletersAre, JobParts DEF TypeInv
  <2>2. Fitting(a) /\ Fresh(st'[a], st[a].after, 0)
    BY <1>10, <2>1, DeletedJob DEF FailDelete
  <2> QED BY <2>1, <2>2, AddersStay DEF Fresh
<1>11. CASE Receive
  BY <1>0, <1>11, ReceiveJob, AddersStay DEF Fresh
<1>12. CASE SelectParts
  BY <1>0, <1>12, SelectJob, AddersStay DEF Fresh
<1>13. CASE Lookup
  BY <1>0, <1>13, LookupJob, AddersStay
<1>14. ASSUME NEW r \in st[DP].got, ReadPart(r) PROVE AddersMove
  BY <1>0, <1>14, ReadJob, AddersStay
<1>15. CASE Inject
  BY <1>0, <1>15, InjectJob, AddersStay DEF Fresh
<1>16. CASE FailCheck
  BY <1>0, <1>16, CheckJob, AddersStay DEF Fresh
<1>17. CASE Second
  BY <1>17 DEF Second, AddersMove
<1>18. CASE UNCHANGED vars
  BY <1>18 DEF vars, AddersMove
<1> QED
  BY <1>1, <1>2, <1>3, <1>4, <1>5, <1>6, <1>7, <1>8, <1>9, <1>10, <1>11, <1>12, <1>13, <1>14,
     <1>15, <1>16, <1>17, <1>18 DEF Next, PPStep, Moving, Deleting, DPStep, Deleters

\* A copy that was spent is not added again, and no row comes to hold it.
LEMMA SpentStaysSpent ==
  ASSUME TInv, CopiesInv, [Next]_vars, NEW f \in Fragments, NEW S \in SUBSET (1 .. taken[f]),
         SpentBy(f, S)
  PROVE  /\ \A p \in Hosts : st'[p].op = "add" /\ st'[p].frag = f => st'[p].copy \notin S
         /\ \A r \in rows' : r.object.frag = f /\ r.object.copy \in S =>
              \E x \in rows : x.object = r.object
<1>1. AddersMove /\ TableMoves
  BY AddersStep, TableStep
<1>2. ASSUME NEW p \in Hosts, st'[p].op = "add", st'[p].frag = f PROVE st'[p].copy \notin S
  <2>1. CASE st'[p] = st[p]
    BY <1>2, <2>1 DEF SpentBy, At
  <2>2. ASSUME NEW q \in PPs, NEW g \in Fragments, TakeFragment(q, g) PROVE st'[p].copy \notin S
    <3>1. CASE p = q
      <4>1. st'[p].copy = taken[f] + 1
        BY <1>2, <2>2, <3>1, TakeJob DEF TInv
      <4>2. taken[f] \in Nat
        BY FragsAre
      <4> QED BY <4>1, <4>2
    <3>2. CASE p # q
      <4>1. st'[p] = st[p]
        BY <2>2, <3>2, TakeJob, Constants DEF Fitting, TInv
      <4> QED BY <2>1, <4>1
    <3> QED BY <3>1, <3>2
  <2> QED BY <1>1, <1>2, <2>1, <2>2 DEF AddersMove
<1>3. ASSUME NEW r \in rows', r.object.frag = f, r.object.copy \in S
      PROVE  \E x \in rows : x.object = r.object
  <2>1. CASE UNCHANGED <<rows, objects>>
    BY <2>1
  <2>2. CASE Second
    BY <2>2, SecondRows DEF TInv
  <2>3. ASSUME NEW p \in PPs, AddPart(p) PROVE r \in rows
    <3>1. rows' = rows \cup {[object |-> Pending(p), age |-> 0]}
      BY <2>3, AddedRow
    <3>2. At(p, "add") /\ p \in Hosts
      BY <2>3 DEF AddPart, Hosts
    <3>3. Pending(p).frag = f => Pending(p).copy \notin S
      BY <3>2 DEF Pending, SpentBy
    <3> QED BY <1>3, <3>1, <3>3
  <2>4. ASSUME NEW a \in Deleters, DeleteCommit(a) PROVE r \in rows
    BY <2>4, CommitIs
  <2> QED BY <1>1, <2>1, <2>2, <2>3, <2>4 DEF TableMoves
<1> QED BY <1>2, <1>3

LEMMA SubsetsAreFinite ==
  ASSUME NEW n \in Nat, NEW S \in SUBSET (1 .. n)
  PROVE  IsFiniteSet(S) /\ Cardinality(S) \in Nat /\ Cardinality(S) <= n
<1>1. IsFiniteSet(1 .. n) /\ Cardinality(1 .. n) = (IF 1 > n THEN 0 ELSE n - 1 + 1)
  <2>1. 1 \in Int /\ n \in Int
    OBVIOUS
  <2> QED BY <2>1, FS_Interval
<1>2. Cardinality(1 .. n) = n
  BY <1>1
<1> QED BY <1>1, <1>2, FS_Subset, FS_CardinalityType

LEMMA OneMore ==
  ASSUME NEW U, IsFiniteSet(U), NEW x
  PROVE  /\ IsFiniteSet(U \cup {x}) /\ Cardinality(U \cup {x}) \in Nat
         /\ Cardinality(U \cup {x}) <= Cardinality(U) + 1
         /\ x \notin U => Cardinality(U \cup {x}) = Cardinality(U) + 1
<1>1. IsFiniteSet(U \cup {x})
  BY FS_AddElement
<1>2. Cardinality(U) \in Nat
  BY FS_CardinalityType
<1>3. Cardinality(U \cup {x}) = IF x \in U THEN Cardinality(U) ELSE Cardinality(U) + 1
  BY FS_AddElement
<1> QED BY <1>1, <1>2, <1>3

LEMMA UsesAre ==
  ASSUME TInv, NEW f
  PROVE  /\ IsFiniteSet(Used(f)) /\ Cardinality(Used(f)) \in Nat /\ Uses(f) \in Nat
         /\ Cardinality(Used(f)) <= Uses(f)
<1>1. DOMAIN injected = 1 .. Len(injected) /\ Len(injected) \in Nat
  BY DEF TInv, TypeInv
<1>2. IsFiniteSet(DOMAIN injected)
  BY <1>1, FS_Interval
<1>3. IsFiniteSet(Used(f))
  BY <1>2, FS_Subset DEF Used
<1>4. Cardinality(Used(f)) \in Nat
  BY <1>3, FS_CardinalityType
<1> QED BY <1>3, <1>4 DEF Uses

LEMMA UsesFrame ==
  ASSUME TInv, NEW f, injected' = injected, InHand(f)' => InHand(f)
  PROVE  Uses(f)' <= Uses(f) /\ Uses(f)' \in Nat
<1>1. Used(f)' = Used(f) /\ Cardinality(Used(f)) \in Nat
  BY UsesAre DEF Used
<1> QED BY <1>1 DEF Uses

\* Injecting turns what is in hand into what was used.
LEMMA UsesInject ==
  ASSUME TInv, NEW f, Inject
  PROVE  Uses(f)' <= Uses(f) /\ Uses(f)' \in Nat
<1>1. /\ At(DP, "read") /\ injected' = Append(injected, st[DP].data)
      /\ st'[DP].op = "remove"
  BY InjectJob DEF Fresh
<1>2. injected \in Seq(Seq(Pieces))
  BY DEF TInv, TypeInv
<1>3. /\ DOMAIN injected' = DOMAIN injected \cup {Len(injected) + 1}
      /\ injected'[Len(injected) + 1] = st[DP].data
      /\ \A i \in DOMAIN injected : injected'[i] = injected[i]
  BY <1>1, <1>2
<1>4. Uses(f)' = Cardinality(Used(f)') /\ Uses(f)' \in Nat
  <2>1. Cardinality(Used(f)') \in Nat
    <3>1. IsFiniteSet(Used(f) \cup {Len(injected) + 1})
      BY UsesAre, FS_AddElement
    <3>2. Used(f)' \subseteq Used(f) \cup {Len(injected) + 1}
      BY <1>3 DEF Used
    <3> QED BY <3>1, <3>2, FS_Subset, FS_CardinalityType
  <2>2. ~InHand(f)'
    BY <1>1 DEF InHand, Assembling
  <2> QED BY <2>1, <2>2 DEF Uses
<1>5. CASE \E j \in DOMAIN st[DP].data : st[DP].data[j] = f
  <2>1. Uses(f) = Cardinality(Used(f)) + 1
    BY <1>1, <1>5 DEF Uses, InHand, Assembling, At
  <2>2. Used(f)' \subseteq Used(f) \cup {Len(injected) + 1}
    BY <1>3 DEF Used
  <2>3. /\ IsFiniteSet(Used(f) \cup {Len(injected) + 1})
        /\ Cardinality(Used(f) \cup {Len(injected) + 1}) <= Cardinality(Used(f)) + 1
    BY UsesAre, OneMore
  <2>4. Cardinality(Used(f)') <= Cardinality(Used(f) \cup {Len(injected) + 1})
    BY <2>2, <2>3, FS_Subset
  <2>5. /\ Cardinality(Used(f)') \in Nat /\ Cardinality(Used(f)) \in Nat
        /\ Cardinality(Used(f) \cup {Len(injected) + 1}) \in Nat
    BY <2>2, <2>3, UsesAre, FS_Subset, FS_CardinalityType
  <2> QED BY <1>4, <2>1, <2>3, <2>4, <2>5
<1>6. CASE ~ \E j \in DOMAIN st[DP].data : st[DP].data[j] = f
  <2>1. Used(f)' = Used(f)
    BY <1>3, <1>6 DEF Used
  <2> QED BY <1>4, <2>1, UsesAre
<1> QED BY <1>5, <1>6

\* The same copies stay spent.
SpentAgain(f) == \E S \in SUBSET (1 .. taken[f]) : Spent(f, S)
LEMMA SpentFrame ==
  ASSUME TInv, CopiesInv, [Next]_vars, Growing, NEW f \in Fragments,
         NEW S \in SUBSET (1 .. taken[f]), Spent(f, S), Uses(f)' <= Uses(f), Uses(f)' \in Nat,
         \A r \in rows, x \in rows' :
           r.object.frag = f /\ r.object.copy \in S /\ x.object = r.object =>
             /\ Assembling' \/ At(DP, "remove")'
             /\ st'[DP].seq = f.seq
             /\ At(DP, "remove")' /\ st'[DP].got # {} => \E y \in st'[DP].got : y.object = r.object
  PROVE  SpentAgain(f)'
<1>1. taken[f] \in Nat /\ taken'[f] \in Nat /\ taken[f] <= taken'[f]
  BY FragsAre DEF Growing
<1>2. S \in SUBSET (1 .. taken'[f])
  BY <1>1
<1>3. /\ \A p \in Hosts : st'[p].op = "add" /\ st'[p].frag = f => st'[p].copy \notin S
      /\ \A r \in rows' : r.object.frag = f /\ r.object.copy \in S =>
           \E x \in rows : x.object = r.object
  BY SpentStaysSpent DEF Spent
<1>4. SpentBy(f, S)'
  <2>1. ASSUME NEW r \in rows', r.object.frag = f, r.object.copy \in S
        PROVE  /\ Assembling' \/ At(DP, "remove")'
               /\ st'[DP].seq = f.seq
               /\ At(DP, "remove")' /\ st'[DP].got # {} => \E y \in st'[DP].got : y.object = r.object
    <3>1. PICK x \in rows : x.object = r.object
      BY <1>3, <2>1
    <3> QED BY <2>1, <3>1
  <2> QED BY <1>3, <2>1 DEF SpentBy, At
<1>5. IsFiniteSet(S) /\ Cardinality(S) \in Nat
  BY <1>1, SubsetsAreFinite
<1>6. Uses(f)' <= Cardinality(S)
  BY <1>5, UsesAre DEF Spent
<1> QED BY <1>2, <1>4, <1>6 DEF Spent, SpentAgain

\* Where DP neither assembles nor removes, no row holds a spent copy.
LEMMA NoneIsSpent ==
  ASSUME NEW f, NEW S, Spent(f, S), ~Assembling, ~At(DP, "remove")
  PROVE  \A r \in rows : ~(r.object.frag = f /\ r.object.copy \in S)
BY DEF Spent, SpentBy

\* The packet that is taken up spends a copy of each of its fragments.
LEMMA SpentSelect ==
  ASSUME TInv, CopiesInv, [Next]_vars, Growing, SelectParts, TypeInv', NEW f \in Fragments,
         NEW S \in SUBSET (1 .. taken[f]), Spent(f, S)
  PROVE  SpentAgain(f)'
<1>1. At(DP, "select") /\ ~Assembling /\ ~At(DP, "remove")
  BY SelectJob DEF Assembling, At
<1>2. \A r \in rows : ~(r.object.frag = f /\ r.object.copy \in S)
  BY <1>1, NoneIsSpent
<1>3. injected' = injected /\ rows' = rows /\ taken' = taken
  BY DEF SelectParts, past
<1>4. Used(f)' = Used(f) /\ Cardinality(Used(f)) \in Nat
  BY <1>3, UsesAre DEF Used
<1>5. Uses(f)' \in Nat /\ Uses(f) = Cardinality(Used(f))
  BY <1>1, <1>4 DEF Uses, InHand
<1>6. CASE ~InHand(f)'
  <2>1. Uses(f)' <= Uses(f)
    BY <1>3, <1>6, UsesFrame
  <2> QED BY <1>2, <1>5, <2>1, SpentFrame
<1>7. CASE InHand(f)'
  <2>1. /\ st'[DP].op = "lookup" /\ st'[DP].seq = st[DP].seq /\ st'[DP].got = Parted
        /\ st'[DP].data = <<>>
    BY <1>7, SelectJob DEF InHand, Assembling, Fresh
  <2>2. PICK r \in Parted : r.object.frag = f
    BY <1>7, <2>1 DEF InHand
  <2>3. r \in rows /\ f.seq = st[DP].seq /\ r.object.copy \in 1 .. taken[f] /\ r.object \in Objects
    BY <2>2, FragsAre DEF Parted, CopiesInv, IsTaken
  <2> DEFINE T == S \cup {r.object.copy}
  <2>4. T \in SUBSET (1 .. taken'[f])
    BY <1>3, <2>3
  <2>5. SpentBy(f, T)'
    <3>1. /\ \A p \in Hosts : st'[p].op = "add" /\ st'[p].frag = f => st'[p].copy \notin S
      BY SpentStaysSpent DEF Spent
    <3>2. ASSUME NEW p \in Hosts, st'[p].op = "add", st'[p].frag = f PROVE st'[p].copy # r.object.copy
      <4>1. st'[p] = st[p]
        BY SelectJob, Constants DEF Fitting
      <4>2. r.object # Pending(p)
        BY <2>3, <3>2, <4>1 DEF CopiesInv, At
      <4> QED BY <2>2, <2>3, <3>2, <4>1, <4>2, ObjectsDiffer DEF Pending
    <3>3. Assembling' /\ ~At(DP, "remove")' /\ st'[DP].seq = f.seq
      BY <2>1, <2>3 DEF Assembling, At
    <3> QED BY <3>1, <3>2, <3>3 DEF SpentBy, At
  <2>6. Uses(f)' <= Cardinality(T)
    <3>1. IsFiniteSet(S) /\ Cardinality(S) \in Nat
      <4>1. taken[f] \in Nat
        BY FragsAre
      <4> QED BY <4>1, SubsetsAreFinite
    <3>2. r.object.copy \notin S
      BY <1>2, <2>2, <2>3
    <3>3. Cardinality(T) = Cardinality(S) + 1
      BY <3>1, <3>2, OneMore
    <3>4. Uses(f)' = Cardinality(Used(f)) + 1
      BY <1>4, <1>7 DEF Uses
    <3>5. Cardinality(Used(f)) <= Cardinality(S)
      BY <1>5 DEF Spent
    <3> QED BY <1>4, <3>1, <3>3, <3>4, <3>5
  <2> QED BY <2>4, <2>5, <2>6 DEF Spent, SpentAgain
<1> QED BY <1>6, <1>7

\* When DP lets go of a packet, all its rows are gone, or a delete failed.
LEMMA SpentRemove ==
  ASSUME TInv, CopiesInv, DeletingInv, [Next]_vars, Growing, DeleteCommit(DP), NEW f \in Fragments,
         NEW S \in SUBSET (1 .. taken[f]), Spent(f, S)
  PROVE  SpentAgain(f)'
<1>1. /\ st'[DP].op = "idle" /\ st[DP].got # {} /\ (At(DP, "remove") \/ At(DP, "expire"))
      /\ \/ /\ UNCHANGED <<rows, objects, lost>>
            /\ \E x \in st[DP].got : x.object \notin objects
         \/ rows' = IF At(DP, "expire") THEN rows \ Expired(rows) ELSE {}
  BY CommitIs DEF Deleters
<1>2. injected' = injected
  BY DEF DeleteCommit
<1>3. Uses(f)' <= Uses(f) /\ Uses(f)' \in Nat
  BY <1>1, <1>2, UsesFrame DEF InHand, Assembling
<1>4. \A r \in rows, x \in rows' :
        ~(r.object.frag = f /\ r.object.copy \in S /\ x.object = r.object)
  <2>1. CASE At(DP, "expire")
    BY <2>1, NoneIsSpent DEF Assembling, At
  <2>2. CASE At(DP, "remove") /\ rows' = {}
    BY <2>2
  <2>3. CASE At(DP, "remove") /\ \E x \in st[DP].got : x.object \notin objects
    <3>1. \A x \in st[DP].got, r \in rows : r.object # x.object
      BY <2>3 DEF DeletingInv
    <3>2. ASSUME NEW r \in rows, r.object.frag = f, r.object.copy \in S PROVE FALSE
      BY <1>1, <2>3, <3>1, <3>2 DEF Spent, SpentBy
    <3> QED BY <3>2
  <2> QED BY <1>1, <2>1, <2>2, <2>3 DEF At
<1> QED BY <1>3, <1>4, SpentFrame

LEMMA SpentStep ==
  ASSUME TInv, CopiesInv, DeletingInv, [Next]_vars, TypeInv', NEW f \in Fragments,
         NEW S \in SUBSET (1 .. taken[f]), Spent(f, S)
  PROVE  Kept' \/ SpentAgain(f)'
<1>0. Growing
  BY Grows
<1>a. SpentBy(f, S)
  BY DEF Spent
<1>1. CASE Elsewhere
  <2>1. st'[DP] = st[DP] /\ injected' = injected
    BY <1>1 DEF Elsewhere
  <2>2. Uses(f)' <= Uses(f) /\ Uses(f)' \in Nat
    BY <2>1, UsesFrame DEF InHand, Assembling
  <2>3. ASSUME NEW r \in rows, r.object.frag = f, r.object.copy \in S
        PROVE  /\ Assembling' \/ At(DP, "remove")'
               /\ st'[DP].seq = f.seq
               /\ At(DP, "remove")' /\ st'[DP].got # {} => \E y \in st'[DP].got : y.object = r.object
    BY <1>a, <2>1, <2>3 DEF SpentBy, Assembling, At
  <2> QED BY <1>0, <2>2, <2>3, SpentFrame
<1>2. CASE Receive
  <2>1. ~Assembling /\ ~At(DP, "remove") /\ ~Assembling'
    BY <1>2, ReceiveJob DEF Assembling, At, Fresh, TInv
  <2>2. Uses(f)' <= Uses(f) /\ Uses(f)' \in Nat
    BY <1>2, <2>1, UsesFrame DEF InHand, Receive, past
  <2> QED BY <1>0, <2>1, <2>2, NoneIsSpent, SpentFrame
<1>3. CASE SelectParts
  BY <1>0, <1>3, SpentSelect
<1>4. CASE Lookup
  <2>1. /\ At(DP, "lookup") /\ st'[DP].seq = st[DP].seq /\ st'[DP].data = st[DP].data
        /\ \/ st'[DP].op = "read" /\ st'[DP].got = st[DP].got
           \/ st'[DP].op = "remove" /\ st'[DP].got = {}
    BY <1>4, LookupJob
  <2>2. Assembling /\ (Assembling' => st'[DP].got = st[DP].got)
    BY <2>1 DEF Assembling, At
  <2>3. Uses(f)' <= Uses(f) /\ Uses(f)' \in Nat
    BY <1>4, <2>1, <2>2, UsesFrame DEF InHand, Lookup
  <2>4. ASSUME NEW r \in rows, r.object.frag = f, r.object.copy \in S
        PROVE  /\ Assembling' \/ At(DP, "remove")'
               /\ st'[DP].seq = f.seq
               /\ ~(At(DP, "remove")' /\ st'[DP].got # {})
    BY <1>a, <2>1, <2>2, <2>4 DEF SpentBy, Assembling, At
  <2> QED BY <1>0, <2>3, <2>4, SpentFrame
<1>5. ASSUME NEW r \in st[DP].got, ReadPart(r) PROVE SpentAgain(f)'
  <2>1. /\ At(DP, "read") /\ st'[DP].op = "read" /\ st'[DP].seq = st[DP].seq
        /\ st'[DP].got = st[DP].got \ {r} /\ st'[DP].data = Append(st[DP].data, Piece(r))
    BY <1>5, ReadJob
  <2>2. Assembling /\ Assembling' /\ ~At(DP, "remove")'
    BY <2>1 DEF Assembling, At
  <2>3. InHand(f)' => InHand(f)
    <3>1. st[DP].data \in Seq(Pieces)
      BY JobParts, Constants DEF TInv, TypeInv
    <3>2. \A j \in DOMAIN st'[DP].data :
            \/ j \in DOMAIN st[DP].data /\ st'[DP].data[j] = st[DP].data[j]
            \/ st'[DP].data[j] = Piece(r)
      BY <2>1, <3>1
    <3>3. Piece(r) = f => r.object.frag = f
      BY FragmentsDiffer DEF Piece
    <3> QED BY <2>1, <2>2, <3>2, <3>3 DEF InHand
  <2>4. Uses(f)' <= Uses(f) /\ Uses(f)' \in Nat
    BY <1>5, <2>3, UsesFrame DEF ReadPart, past
  <2>5. ASSUME NEW x \in rows, x.object.frag = f, x.object.copy \in S
        PROVE  st'[DP].seq = f.seq
    BY <1>a, <2>1, <2>5 DEF SpentBy
  <2> QED BY <1>0, <2>2, <2>4, <2>5, SpentFrame
<1>6. CASE Inject
  <2>1. /\ At(DP, "read") /\ st'[DP].op = "remove" /\ st'[DP].seq = st[DP].seq /\ st'[DP].got = {}
    BY <1>6, InjectJob DEF Fresh
  <2>2. Uses(f)' <= Uses(f) /\ Uses(f)' \in Nat
    BY <1>6, UsesInject
  <2>3. ASSUME NEW r \in rows, r.object.frag = f, r.object.copy \in S
        PROVE  At(DP, "remove")' /\ st'[DP].seq = f.seq
    BY <1>a, <2>1, <2>3 DEF SpentBy, At
  <2> QED BY <1>0, <2>1, <2>2, <2>3, SpentFrame
<1>7. CASE FailCheck
  <2>1. \/ At(DP, "select") /\ Fresh(st'[DP], "idle", 0)
        \/ At(DP, "lookup") /\ Fresh(st'[DP], "remove", st[DP].seq)
    BY <1>7, CheckJob
  <2>2. ~Assembling'
    BY <2>1 DEF Assembling, Fresh
  <2>3. Uses(f)' <= Uses(f) /\ Uses(f)' \in Nat
    BY <1>7, <2>2, UsesFrame DEF InHand, FailCheck
  <2>4. CASE At(DP, "select")
    BY <1>0, <2>3, <2>4, NoneIsSpent, SpentFrame DEF Assembling, At
  <2>5. CASE Fresh(st'[DP], "remove", st[DP].seq)
    <3>1. ASSUME NEW r \in rows, r.object.frag = f, r.object.copy \in S
          PROVE  At(DP, "remove")' /\ st'[DP].seq = f.seq
      BY <1>a, <2>5, <3>1 DEF SpentBy, At, Fresh
    <3> QED BY <1>0, <2>3, <2>5, <3>1, SpentFrame DEF Fresh
  <2> QED BY <2>1, <2>4, <2>5
<1>8. CASE DeleteSelect(DP)
  <2>1. /\ DP \in Procs /\ (At(DP, "remove") \/ At(DP, "expire"))
    BY <1>8, Constants, DeletersAre DEF DeleteSelect, Deleters, TInv
  <2>2. \/ Chosen(DP) = {} /\ st'[DP].op = "idle"
        \/ st'[DP].op = st[DP].op /\ st'[DP].seq = st[DP].seq /\ st'[DP].got = Chosen(DP)
    BY <1>8, <2>1, DeleteJob
  <2>3. ~Assembling'
    BY <2>1, <2>2 DEF Assembling, At
  <2>4. Uses(f)' <= Uses(f) /\ Uses(f)' \in Nat
    BY <1>8, <2>3, UsesFrame DEF InHand, DeleteSelect, past
  <2>5. CASE At(DP, "expire")
    BY <1>0, <2>4, <2>5, NoneIsSpent, SpentFrame DEF Assembling, At
  <2>6. CASE At(DP, "remove")
    <3>1. Chosen(DP) = Parted
      BY <2>6 DEF Chosen, Parted, At
    <3>2. ASSUME NEW r \in rows, r.object.frag = f, r.object.copy \in S
          PROVE  r \in Chosen(DP) /\ st[DP].seq = f.seq
      BY <1>a, <3>1, <3>2 DEF SpentBy, Parted
    <3>3. ASSUME NEW r \in rows, r.object.frag = f, r.object.copy \in S
          PROVE  At(DP, "remove")' /\ st'[DP].seq = f.seq /\ r \in st'[DP].got
      BY <2>2, <2>6, <3>2, <3>3 DEF At
    <3> QED BY <1>0, <2>4, <3>3, SpentFrame
  <2> QED BY <2>1, <2>5, <2>6
<1>9. CASE DeleteCommit(DP)
  BY <1>0, <1>9, SpentRemove
<1>10. CASE FailDelete(DP)
  BY <1>10 DEF FailDelete, Kept
<1> QED
  BY <1>1, <1>2, <1>3, <1>4, <1>5, <1>6, <1>7, <1>8, <1>9, <1>10, OthersStep DEF DPStep, Deleting

LEMMA SpentInvStep ==
  ASSUME TInv, CopiesInv, DeletingInv, SpentInv, [Next]_vars, TypeInv'
  PROVE  SpentInv'
<1>1. CASE Kept
  BY <1>1, Grows DEF Growing, Kept, SpentInv
<1>2. CASE ~Kept
  <2>1. ASSUME NEW f \in Fragments PROVE Kept' \/ SpentAgain(f)'
    <3>1. PICK S \in SUBSET (1 .. taken[f]) : Spent(f, S)
      BY <1>2 DEF SpentInv
    <3> QED BY <3>1, SpentStep
  <2> QED BY <2>1 DEF SpentInv, SpentAgain
<1> QED BY <1>1, <1>2

----------------------------------------------------------------------------
(* Clean packets *)

\* What the steps do to those who add and notify, and to the pipe.
HostsMove == \A p \in Hosts : \/ st'[p] = st[p] \/ st[p].op \notin {"add", "notify"}
                              \/ p \in PPs /\ (AddPart(p) \/ FailAdd(p) \/ Notify(p))
PipeMoves == \/ dpipe' = dpipe \/ Receive
             \/ \E x \in Seqs \cup {Check} : dpipe' = Append(dpipe, x)
LEMMA HostsStay ==
  ASSUME NEW a \in Procs, Fitting(a), st[a].op \notin {"add", "notify"} \/ a = DP
  PROVE  HostsMove
BY Constants DEF Fitting, HostsMove
LEMMA HostMoves ==
  ASSUME NEW p \in PPs, Fitting(p), AddPart(p) \/ FailAdd(p) \/ Notify(p)
  PROVE  HostsMove
BY Constants DEF Fitting, HostsMove, Hosts
LEMMA HostsStep == TInv /\ [Next]_vars => HostsMove
<1> SUFFICES ASSUME TInv, [Next]_vars PROVE HostsMove
  OBVIOUS
<1> USE DEF TInv
<1>0. \A p \in PPs \cup Movers \cup {DP} : p \in Procs
  BY Constants DEF Hosts
<1>1. ASSUME NEW p \in PPs, NEW f \in Fragments, TakeFragment(p, f) PROVE HostsMove
  BY <1>0, <1>1, TakeJob, HostsStay DEF At
<1>2. ASSUME NEW p \in PPs, AddPart(p) PROVE HostsMove
  BY <1>2, AddJob, HostMoves
<1>3. ASSUME NEW p \in PPs, Notify(p) PROVE HostsMove
  <2>1. Fitting(p)
    BY <1>0, <1>3, IdleAgain DEF Notify
  <2> QED BY <1>3, <2>1, HostMoves
<1>4. ASSUME NEW p \in PPs, FailAdd(p) PROVE HostsMove
  BY <1>4, FailAddJob, HostMoves
<1>5. ASSUME NEW m \in Movers, Login(m) PROVE HostsMove
  <2>1. Goto(m, [Idle EXCEPT !.op = "wipe"]) /\ m \in Procs /\ m # DP /\ At(m, "idle")
    BY <1>5, Constants DEF Login, Hosts
  <2>2. Fitting(m)
    BY <2>1, FreshJob DEF HostOps
  <2> QED BY <2>1, <2>2, HostsStay DEF At
<1>6. ASSUME NEW m \in Movers, MoveOffline(m) PROVE HostsMove
  <2>1. Fitting(m) /\ At(m, "idle")
    BY <1>6, MoveJob DEF MoveOffline
  <2> QED BY <1>0, <2>1, HostsStay DEF At
<1>7. ASSUME NEW m \in Movers, Gone(m) PROVE HostsMove
  <2>1. Fitting(m) /\ At(m, "gone")
    BY <1>0, <1>7, IdleAgain DEF Gone
  <2> QED BY <1>0, <2>1, HostsStay DEF At
<1>8. ASSUME NEW a \in Deleters, DeleteSelect(a) PROVE HostsMove
  <2>1. a \in Procs
    BY DeletersAre
  <2>2. Fitting(a) /\ st[a].op \in Deletes
    BY <1>8, <2>1, DeleteJob
  <2> QED BY <2>1, <2>2, HostsStay DEF Deletes
<1>9. ASSUME NEW a \in Deleters, DeleteCommit(a) PROVE HostsMove
  <2>1. a \in Procs /\ Fitting(a) /\ st[a].op \in Deletes
    BY <1>9, CommitIs, DeletersAre DEF DeleteCommit
  <2> QED BY <2>1, HostsStay DEF Deletes
<1>10. ASSUME NEW a \in Deleters, FailDelete(a) PROVE HostsMove
  <2>1. a \in Procs
    BY DeletersAre
  <2>2. Fitting(a) /\ st[a].op \in Deletes
    BY <1>10, <2>1, DeletedJob DEF FailDelete
  <2> QED BY <2>1, <2>2, HostsStay DEF Deletes
<1>11. CASE Receive
  BY <1>0, <1>11, ReceiveJob, HostsStay
<1>12. CASE SelectParts
  BY <1>0, <1>12, SelectJob, HostsStay
<1>13. CASE Lookup
  BY <1>0, <1>13, LookupJob, HostsStay
<1>14. ASSUME NEW r \in st[DP].got, ReadPart(r) PROVE HostsMove
  BY <1>0, <1>14, ReadJob, HostsStay
<1>15. CASE Inject
  BY <1>0, <1>15, InjectJob, HostsStay
<1>16. CASE FailCheck
  BY <1>0, <1>16, CheckJob, HostsStay
<1>17. CASE Second
  BY <1>17 DEF Second, HostsMove
<1>18. CASE UNCHANGED vars
  BY <1>18 DEF vars, HostsMove
<1> QED
  BY <1>1, <1>2, <1>3, <1>4, <1>5, <1>6, <1>7, <1>8, <1>9, <1>10, <1>11, <1>12, <1>13, <1>14,
     <1>15, <1>16, <1>17, <1>18 DEF Next, PPStep, Moving, Deleting, DPStep, Deleters

LEMMA PipeStep == TInv /\ [Next]_vars => PipeMoves
<1> SUFFICES ASSUME TInv, [Next]_vars PROVE PipeMoves
  OBVIOUS
<1>1. CASE UNCHANGED dpipe
  BY <1>1 DEF PipeMoves
<1>2. CASE Receive
  BY <1>2 DEF PipeMoves
<1>3. ASSUME NEW p \in PPs, Notify(p) PROVE PipeMoves
  <2>1. p \in Hosts /\ At(p, "notify") /\ dpipe' = Append(dpipe, st[p].frag.seq)
    BY <1>3 DEF Notify, Hosts
  <2>2. st[p].frag.seq \in Seqs
    BY <2>1, FragsAre, Constants DEF At
  <2> QED BY <2>1, <2>2 DEF PipeMoves
<1>4. CASE Second
  BY <1>4 DEF Second, PipeMoves
<1>5. ASSUME NEW p \in PPs, NEW f \in Fragments, TakeFragment(p, f) PROVE PipeMoves
  BY <1>5, <1>1 DEF TakeFragment
<1>6. ASSUME NEW p \in PPs, AddPart(p) PROVE PipeMoves
  BY <1>6, <1>1 DEF AddPart
<1>7. ASSUME NEW p \in PPs, FailAdd(p) PROVE PipeMoves
  BY <1>7, <1>1 DEF FailAdd
<1>8. ASSUME NEW m \in Movers, Login(m) PROVE PipeMoves
  BY <1>8, <1>1 DEF Login
<1>9. ASSUME NEW m \in Movers, MoveOffline(m) PROVE PipeMoves
  BY <1>9, <1>1 DEF MoveOffline
<1>10. ASSUME NEW m \in Movers, Gone(m) PROVE PipeMoves
  BY <1>10, <1>1 DEF Gone
<1>11. ASSUME NEW a \in Deleters, DeleteSelect(a) PROVE PipeMoves
  BY <1>11, <1>1 DEF DeleteSelect
<1>12. ASSUME NEW a \in Deleters, DeleteCommit(a) PROVE PipeMoves
  BY <1>12, <1>1 DEF DeleteCommit
<1>13. ASSUME NEW a \in Deleters, FailDelete(a) PROVE PipeMoves
  BY <1>13, <1>1 DEF FailDelete
<1>14. CASE SelectParts
  BY <1>14, <1>1 DEF SelectParts
<1>15. CASE Lookup
  BY <1>15, <1>1 DEF Lookup
<1>16. ASSUME NEW r \in st[DP].got, ReadPart(r) PROVE PipeMoves
  BY <1>16, <1>1 DEF ReadPart
<1>17. CASE Inject
  BY <1>17, <1>1 DEF Inject
<1>18. CASE FailCheck
  BY <1>18, <1>1 DEF FailCheck
<1>19. CASE UNCHANGED vars
  BY <1>19, <1>1 DEF vars
<1> QED
  BY <1>2, <1>3, <1>4, <1>5, <1>6, <1>7, <1>8, <1>9, <1>10, <1>11, <1>12, <1>13, <1>14, <1>15, <1>16, <1>17, <1>18, <1>19
     DEF Next, PPStep, Moving, Deleting, DPStep, Deleters

\* The steps that take a fragment.
TakenMoves == taken' = taken \/ \E p \in PPs, f \in Fragments : TakeFragment(p, f)
LEMMA TakenStep == [Next]_vars => TakenMoves
<1> SUFFICES ASSUME [Next]_vars PROVE TakenMoves
  OBVIOUS
<1>1. ASSUME NEW p \in PPs, NEW f \in Fragments, TakeFragment(p, f) PROVE TakenMoves
  BY <1>1 DEF TakenMoves
<1>2. ASSUME NEW p \in PPs, AddPart(p) PROVE TakenMoves
  BY <1>2 DEF AddPart, TakenMoves, past
<1>3. ASSUME NEW p \in PPs, Notify(p) PROVE TakenMoves
  BY <1>3 DEF Notify, TakenMoves, past
<1>4. ASSUME NEW p \in PPs, FailAdd(p) PROVE TakenMoves
  BY <1>4 DEF FailAdd, TakenMoves, past
<1>5. ASSUME NEW m \in Movers, Login(m) PROVE TakenMoves
  BY <1>5 DEF Login, TakenMoves, past
<1>6. ASSUME NEW m \in Movers, MoveOffline(m) PROVE TakenMoves
  BY <1>6 DEF MoveOffline, TakenMoves, past
<1>7. ASSUME NEW m \in Movers, Gone(m) PROVE TakenMoves
  BY <1>7 DEF Gone, TakenMoves, past
<1>8. ASSUME NEW a \in Deleters, DeleteSelect(a) PROVE TakenMoves
  BY <1>8 DEF DeleteSelect, TakenMoves, past
<1>9. ASSUME NEW a \in Deleters, DeleteCommit(a) PROVE TakenMoves
  BY <1>9 DEF DeleteCommit, TakenMoves, past
<1>10. ASSUME NEW a \in Deleters, FailDelete(a) PROVE TakenMoves
  BY <1>10 DEF FailDelete, TakenMoves, past
<1>11. CASE Receive
  BY <1>11 DEF Receive, TakenMoves, past
<1>12. CASE SelectParts
  BY <1>12 DEF SelectParts, TakenMoves, past
<1>13. CASE Lookup
  BY <1>13 DEF Lookup, TakenMoves, past
<1>14. ASSUME NEW r \in st[DP].got, ReadPart(r) PROVE TakenMoves
  BY <1>14 DEF ReadPart, TakenMoves, past
<1>15. CASE Inject
  BY <1>15 DEF Inject, TakenMoves, past
<1>16. CASE FailCheck
  BY <1>16 DEF FailCheck, TakenMoves, past
<1>17. CASE Second
  BY <1>17 DEF Second, TakenMoves, past
<1>18. CASE UNCHANGED vars
  BY <1>18 DEF vars, TakenMoves
<1> QED
  BY <1>1, <1>2, <1>3, <1>4, <1>5, <1>6, <1>7, <1>8, <1>9, <1>10, <1>11, <1>12, <1>13, <1>14, <1>15, <1>16, <1>17, <1>18
     DEF Next, PPStep, Moving, Deleting, DPStep, Deleters

\* What was assembled stays assembled.
LEMMA InjectedStays ==
  ASSUME TInv, Growing, NEW i \in DOMAIN injected
  PROVE  i \in DOMAIN injected' /\ injected'[i] = injected[i]
<1>1. st[DP].data \in Seq(Pieces) /\ injected \in Seq(Seq(Pieces))
  BY JobParts, Constants DEF TInv, TypeInv
<1>2. CASE injected' = injected
  BY <1>2
<1>3. CASE injected' = Append(injected, st[DP].data)
  <2>1. DOMAIN injected = 1 .. Len(injected) /\ Len(injected) \in Nat
    BY <1>1
  <2>2. DOMAIN injected' = 1 .. Len(injected) + 1
    BY <1>1, <1>3, <2>1
  <2>3. i \in 1 .. Len(injected) + 1 /\ i \in 1 .. Len(injected)
    BY <2>1
  <2> QED BY <1>1, <1>3, <2>2, <2>3
<1> QED BY <1>2, <1>3 DEF Growing

\* What has come in the way of a packet stays there.
LEMMA CleanBefore ==
  ASSUME TInv, Growing, NEW k \in Packets, Clean(k)'
  PROVE  Clean(k)
<1>1. k.seq \notin Big /\ \A why \in Causes : <<k, why>> \notin lost
  BY DEF Clean, Growing
<1>2. ~Assembled(k)
  <2> SUFFICES ASSUME NEW i \in DOMAIN injected, injected[i] = Contents(k) PROVE FALSE
    BY DEF Assembled
  <2>1. i \in DOMAIN injected' /\ injected'[i] = injected[i]
    BY InjectedStays
  <2> QED BY <2>1 DEF Clean, Assembled
<1>3. ~Repeated(k)
  <2> SUFFICES ASSUME NEW f \in Fragments, PacketOf(f) = k, taken[f] > 1 PROVE FALSE
    BY DEF Repeated
  <2>1. taken'[f] > 1
    BY FragsAre DEF Growing
  <2> QED BY <2>1 DEF Clean, Repeated
<1>4. ~Reused(k)
  <2> SUFFICES ASSUME NEW f \in Fragments, f.seq = k.seq, f.sid # k.sid, taken[f] > 0 PROVE FALSE
    BY DEF Reused
  <2>1. taken'[f] > 0
    BY FragsAre DEF Growing
  <2> QED BY <2>1 DEF Clean, Reused
<1> QED BY <1>1, <1>2, <1>3, <1>4 DEF Clean

\* Of a clean packet each fragment came once, and all fragments with its number are its own.
LEMMA CleanFacts ==
  ASSUME TInv, CopiesInv, NEW k \in Packets, Clean(k)
  PROVE  /\ \A f \in Of(k) : taken[f] \in {0, 1}
         /\ \A f \in Fragments : f.seq = k.seq /\ taken[f] > 0 => f \in Of(k)
         /\ \A r \in rows \cup st[DP].got : r.object.frag.seq = k.seq =>
              r.object.frag \in Of(k) /\ r.object.copy = 1 /\ taken[r.object.frag] > 0
         /\ \A p \in Hosts : At(p, "add") /\ st[p].frag \in Of(k) => st[p].copy = 1
<1>1. ASSUME NEW f \in Of(k) PROVE taken[f] \in {0, 1}
  BY FragsAre DEF Of, Clean, Repeated
<1>2. ASSUME NEW f \in Fragments, f.seq = k.seq, taken[f] > 0 PROVE f \in Of(k)
  BY <1>2, FragmentsDiffer DEF Of, Clean, Reused
<1>3. ASSUME NEW r \in rows \cup st[DP].got, r.object.frag.seq = k.seq
      PROVE  r.object.frag \in Of(k) /\ r.object.copy = 1 /\ taken[r.object.frag] > 0
  <2>1. r.object.frag \in Fragments /\ r.object.copy \in 1 .. taken[r.object.frag]
        /\ taken[r.object.frag] \in Nat
    BY FragsAre DEF CopiesInv, IsTaken
  <2>2. r.object.frag \in Of(k)
    BY <1>2, <1>3, <2>1
  <2> QED BY <1>1, <2>1, <2>2
<1>4. ASSUME NEW p \in Hosts, At(p, "add"), st[p].frag \in Of(k) PROVE st[p].copy = 1
  <2>1. IsTaken(Pending(p))
    BY <1>4 DEF CopiesInv
  <2> QED BY <1>1, <1>4, <2>1 DEF IsTaken, Pending
<1> QED BY <1>1, <1>2, <1>3, <1>4

\* So what is stored of it, or in DP's hand, is not being added.
LEMMA NotAddedTwice ==
  ASSUME TInv, CopiesInv, NEW k \in Packets, Clean(k), NEW f \in Of(k),
         NEW r \in rows \cup st[DP].got, r.object.frag = f
  PROVE  ~Adding(f)
<1> SUFFICES ASSUME NEW p \in Hosts, At(p, "add"), st[p].frag = f PROVE FALSE
  BY DEF Adding
<1>1. st[p].copy = 1
  BY CleanFacts
<1>2. f \in Fragments /\ f.seq = k.seq
  BY FragmentsDiffer DEF Of
<1>3. r.object.copy = 1
  BY <1>2, CleanFacts
<1>4. r.object \in Objects
  BY FragsAre
<1>5. r.object = [frag |-> f, copy |-> 1]
  BY <1>3, <1>4, ObjectsDiffer
<1>6. Pending(p) = [frag |-> f, copy |-> 1]
  BY <1>1 DEF Pending
<1> QED BY <1>5, <1>6 DEF CopiesInv

\* A stored fragment of a packet that stays clean stays stored.
LEMMA SafeStored ==
  ASSUME TInv, CopiesInv, DeletingInv, [Next]_vars, Growing, NEW k \in Packets, Clean(k), Clean(k)',
         Safe(k), NEW f \in Of(k), Stored(f)
  PROVE  Stored(f)'
<1>1. PICK r \in rows : r.object.frag = f
  BY DEF Stored
<1>2. f \in Fragments /\ PacketOf(f) = k /\ f.seq = k.seq
  BY FragmentsDiffer DEF Of
<1>3. CASE r \in rows'
  BY <1>1, <1>3 DEF Stored
<1>4. CASE Second
  BY <1>1, <1>4, SecondRows DEF Stored, TInv
<1>5. ASSUME NEW a \in Deleters, DeleteCommit(a), r \notin rows' PROVE FALSE
  <2>1. Explained(r) \/ (At(a, "remove") /\ r \in st[a].got)
    BY <1>5, CommitIs
  <2>2. CASE Explained(r)
    BY <1>1, <1>2, <2>2 DEF Explained, Clean
  <2>3. CASE At(a, "remove") /\ r \in st[a].got
    <3>1. a = DP
      BY <1>5, <2>3, CommitIs DEF At
    <3>2. st[DP].seq = k.seq
      BY <1>1, <1>2, <2>3, <3>1 DEF DeletingInv
    <3> QED BY <2>3, <3>1, <3>2 DEF Safe
  <2> QED BY <2>1, <2>2, <2>3
<1>6. ASSUME NEW p \in PPs, AddPart(p) PROVE r \in rows'
  BY <1>6, AddedRow
<1> QED BY <1>3, <1>4, <1>5, <1>6, TableStep DEF TableMoves

\* Every fragment that came is still stored or to be stored.
LEMMA SafeFragments ==
  ASSUME TInv, CopiesInv, DeletingInv, [Next]_vars, Growing, NEW k \in Packets, Clean(k), Clean(k)',
         Safe(k), NEW f \in Of(k), taken'[f] > 0
  PROVE  Stored(f)' \/ Adding(f)'
<1>0. f \in Fragments /\ PacketOf(f) = k
  BY DEF Of
<1>1. CASE Stored(f)
  BY <1>1, SafeStored
<1>2. CASE Adding(f)
  <2>1. PICK p \in Hosts : At(p, "add") /\ st[p].frag = f
    BY <1>2 DEF Adding
  <2>2. CASE st'[p] = st[p]
    BY <2>1, <2>2 DEF Adding, At
  <2>3. ASSUME p \in PPs, AddPart(p) PROVE Stored(f)'
    <3>1. rows' = rows \cup {[object |-> Pending(p), age |-> 0]}
      BY <2>3, AddedRow
    <3>2. [object |-> Pending(p), age |-> 0].object.frag = f
      BY <2>1 DEF Pending
    <3> QED BY <3>1, <3>2 DEF Stored
  <2>4. ASSUME p \in PPs, FailAdd(p) PROVE FALSE
    <3>1. <<k, "failed">> \in lost'
      BY <1>0, <2>1, <2>4 DEF FailAdd
    <3> QED BY <3>1 DEF Clean, Causes
  <2>5. ASSUME p \in PPs, Notify(p) PROVE FALSE
    BY <2>1, <2>5 DEF Notify, At
  <2> QED BY <2>1, <2>2, <2>3, <2>4, <2>5, HostsStep DEF HostsMove, At
<1>3. CASE taken[f] > 0
  BY <1>1, <1>2, <1>3 DEF Safe
<1>4. CASE ~(taken[f] > 0)
  <2>2. taken' # taken
    BY <1>4
  <2>3. PICK p \in PPs, g \in Fragments : TakeFragment(p, g)
    BY <2>2, TakenStep DEF TakenMoves
  <2>4. CASE g = f
    BY <2>3, <2>4, TakeJob DEF TInv, Adding, Hosts, At
  <2>5. CASE g # f
    <3>1. taken'[f] = taken[f]
      BY <1>0, <2>3, <2>5 DEF TakeFragment, TInv, TypeInv
    <3> QED BY <1>4, <3>1
  <2> QED BY <2>4, <2>5
<1> QED BY <1>3, <1>4

\* A packet nothing came in the way of is complete when its fragments are stored.
LEMMA CompleteWhenClean ==
  ASSUME TInv, CopiesInv, NEW k \in Packets, Clean(k), \A f \in Of(k) : Stored(f), st[DP].seq = k.seq
  PROVE  Complete(Parted)
<1>1. Parted \subseteq rows /\ IsFiniteSet(Parted)
  BY FS_Subset DEF Parted, TInv, StoreInv
<1>2. \A r \in Parted : /\ r.object.frag \in Of(k) /\ r.object.copy = 1
                        /\ r.object \in Objects /\ r.object.frag \in Fragments
  BY <1>1, CleanFacts, FragsAre DEF Parted
<1>3. ASSUME NEW r \in Parted, NEW x \in Parted, r.object.frag.part = x.object.frag.part
      PROVE  r = x
  <2>1. /\ r.object.frag.sid = k.sid /\ r.object.frag.seq = k.seq
        /\ x.object.frag.sid = k.sid /\ x.object.frag.seq = k.seq
    BY <1>2, FragmentsDiffer DEF Of
  <2>2. r.object.frag = x.object.frag
    BY <1>2, <1>3, <2>1, FragmentsDiffer
  <2>3. r.object = x.object
    BY <1>2, <2>2, ObjectsDiffer
  <2> QED BY <1>1, <2>3 DEF TInv, StoreInv
<1>4. {r.object.frag.part : r \in Parted} = Part
  <2>1. \A r \in Parted : r.object.frag.part \in Part
    BY <1>2, Constants
  <2>2. ASSUME NEW i \in Part PROVE \E r \in Parted : r.object.frag.part = i
    <3>1. PICK f \in Fragments : PacketOf(f) = k /\ f.part = i
      BY FragmentsDiffer
    <3>2. f \in Of(k) /\ f.seq = k.seq
      BY <3>1, FragmentsDiffer DEF Of
    <3>3. PICK r \in rows : r.object.frag = f
      BY <3>2 DEF Stored
    <3>4. r \in Parted
      BY <3>2, <3>3 DEF Parted
    <3> QED BY <3>1, <3>3, <3>4
  <2> QED BY <2>1, <2>2
<1> DEFINE F == [r \in Parted |-> r.object.frag.part]
<1>5. F \in Surjection(Parted, Part)
  BY <1>4 DEF Surjection
<1>6. F \in Injection(Parted, Part)
  BY <1>3, <1>5 DEF Injection, IsInjective, Surjection
<1>7. Cardinality(Part) = Parts
  <2>1. Parts \in Nat \ {0}
    BY Constants
  <2> QED BY <2>1, FS_Interval DEF Part
<1>8. Cardinality(Part) = Cardinality(Parted) <=> F \in Injection(Parted, Part)
  BY <1>1, <1>5, FS_Surjection, Zenon
<1> QED BY <1>4, <1>6, <1>7, <1>8 DEF Complete

\* DP is at the packet, and has not seen yet that it is complete or has it in hand.
DPAt(k) == st[DP].op \in {"select", "lookup", "read"} /\ st[DP].seq = k.seq
AllStored(k) == \A f \in Of(k) : Stored(f)

\* Once all its fragments are stored, somebody will look at it.
LEMMA SafeAnnounced ==
  ASSUME TInv, CopiesInv, [Next]_vars, NEW k \in Packets, Safe(k), AllStored(k)',
         DPAt(k) /\ AllStored(k) => DPAt(k)'
  PROVE  Announced(k)'
<1>1. CASE ~AllStored(k)
  <2>1. PICK f \in Of(k) : ~Stored(f)
    BY <1>1 DEF AllStored
  <2>2. PICK r \in rows' : r.object.frag = f
    BY DEF AllStored, Stored
  <2>3. f \in Fragments /\ PacketOf(f) = k
    BY DEF Of
  <2>4. CASE UNCHANGED <<rows, objects>>
    BY <2>1, <2>2, <2>4 DEF Stored
  <2>5. CASE Second
    BY <2>1, <2>2, <2>5, SecondRows DEF Stored, TInv
  <2>6. ASSUME NEW a \in Deleters, DeleteCommit(a) PROVE FALSE
    BY <2>1, <2>2, <2>6, CommitIs DEF Stored
  <2>7. ASSUME NEW p \in PPs, AddPart(p) PROVE Announced(k)'
    <3>1. st[p].frag = f
      <4>1. r \notin rows
        BY <2>1, <2>2 DEF Stored
      <4>2. r = [object |-> Pending(p), age |-> 0]
        BY <2>2, <2>7, <4>1, AddedRow
      <4>3. r.object = Pending(p)
        BY <4>2
      <4> QED BY <2>2, <4>3 DEF Pending
    <3>2. st'[p].op = "notify" /\ st'[p].frag = f /\ p \in Hosts
      BY <2>7, <3>1, AddJob DEF TInv, Hosts
    <3> QED BY <2>3, <3>2 DEF Announced, At
  <2> QED BY <2>4, <2>5, <2>6, <2>7, TableStep DEF TableMoves
<1>2. CASE AllStored(k)
  <2>1. Announced(k)
    BY <1>2 DEF Safe, AllStored
  <2>2. dpipe \in Seq(Seqs \cup {Check})
    BY DEF TInv, TypeInv
  <2>3. ASSUME NEW p \in Hosts, At(p, "notify"), PacketOf(st[p].frag) = k PROVE Announced(k)'
    <3>1. CASE st'[p] = st[p]
      BY <2>3, <3>1 DEF Announced, At
    <3>2. ASSUME p \in PPs, Notify(p) PROVE Announced(k)'
      <4>1. st[p].frag \in Fragments
        BY <2>3, FragsAre DEF At
      <4>2. st[p].frag.seq = k.seq /\ k.seq \in Seqs
        BY <2>3, <4>1, FragmentsDiffer, Constants
      <4>3. dpipe' = Append(dpipe, k.seq)
        BY <3>2, <4>2 DEF Notify
      <4>4. Len(dpipe) + 1 \in DOMAIN dpipe' /\ dpipe'[Len(dpipe) + 1] = k.seq
        BY <2>2, <4>2, <4>3
      <4> QED BY <4>4 DEF Announced
    <3>3. ASSUME p \in PPs, AddPart(p) \/ FailAdd(p) PROVE FALSE
      BY <2>3, <3>3 DEF AddPart, FailAdd, At
    <3> QED BY <2>3, <3>1, <3>2, <3>3, HostsStep DEF HostsMove, At
  <2>4. ASSUME NEW i \in DOMAIN dpipe, dpipe[i] = k.seq PROVE Announced(k)'
    <3>1. CASE dpipe' = dpipe
      BY <2>4, <3>1 DEF Announced
    <3>2. ASSUME NEW x \in Seqs \cup {Check}, dpipe' = Append(dpipe, x) PROVE Announced(k)'
      <4>1. i \in DOMAIN dpipe' /\ dpipe'[i] = k.seq
        BY <2>2, <2>4, <3>2
      <4> QED BY <4>1 DEF Announced
    <3>3. CASE Receive
      <4>1. dpipe' = Tail(dpipe) /\ dpipe # <<>>
        BY <3>3, ReceiveJob DEF TInv
      <4>2. CASE i = 1
        <5>1. Head(dpipe) = k.seq /\ k.seq # Check
          BY <2>2, <2>4, <4>1, <4>2, Constants DEF Check
        <5>2. Fresh(st'[DP], "select", k.seq)
          BY <3>3, <5>1, ReceiveJob DEF TInv
        <5> QED BY <5>2 DEF Announced, Fresh
      <4>3. CASE i # 1
        <5>1. i - 1 \in DOMAIN dpipe' /\ dpipe'[i - 1] = k.seq
          BY <2>2, <2>4, <4>1, <4>3
        <5> QED BY <5>1 DEF Announced
      <4> QED BY <4>2, <4>3
    <3> QED BY <3>1, <3>2, <3>3, PipeStep DEF PipeMoves
  <2>5. CASE DPAt(k)
    BY <1>2, <2>5 DEF Announced, DPAt
  <2> QED BY <2>1, <2>3, <2>4, <2>5 DEF Announced, DPAt
<1> QED BY <1>1, <1>2

----------------------------------------------------------------------------
(* What DP does to a packet that stays clean *)

DPSafe(k) ==
  /\ DPAt(k) /\ AllStored(k) => DPAt(k)'
  /\ At(DP, "remove")' => st'[DP].seq # k.seq
  /\ Assembling' /\ st'[DP].seq = k.seq => InGoodHands(k)'

LEMMA SafeElsewhere ==
  ASSUME TInv, CopiesInv, HandInv, DeletingInv, [Next]_vars, Growing, NEW k \in Packets,
         Clean(k), Clean(k)', Safe(k), Elsewhere
  PROVE  DPSafe(k)
<1>1. st'[DP] = st[DP]
  BY DEF Elsewhere
<1>2. (DPAt(k) => DPAt(k)') /\ (At(DP, "remove")' => st'[DP].seq # k.seq)
  BY <1>1 DEF DPAt, Safe, At
<1>3. ASSUME Assembling', st'[DP].seq = k.seq PROVE InGoodHands(k)'
  <2>1. InGoodHands(k) /\ Assembling /\ st[DP].seq = k.seq
    BY <1>1, <1>3 DEF Safe, Assembling
  <2>2. \A f \in Of(k) : taken'[f] > 0
    <3> SUFFICES ASSUME NEW f \in Of(k) PROVE taken'[f] > 0
      OBVIOUS
    <3>1. f \in Fragments
      BY DEF Of
    <3>2. taken[f] > 0 /\ taken[f] \in Nat /\ taken'[f] \in Nat /\ taken[f] <= taken'[f]
      BY <2>1, <3>1, FragsAre DEF InGoodHands, Growing
    <3> QED BY <3>2
  <2>3. \A x \in st[DP].got : x.object \in objects'
    <3> SUFFICES ASSUME NEW x \in st[DP].got PROVE x.object \in objects'
      OBVIOUS
    <3>1. x.object \in objects
      BY <2>1 DEF InGoodHands
    <3>2. CASE Second
      BY <3>1, <3>2 DEF Second
    <3>3. ASSUME NEW p \in PPs, AddPart(p) PROVE x.object \in objects'
      BY <3>1, <3>3, AddedRow
    <3>4. ASSUME NEW a \in Deleters, DeleteCommit(a), objects' # objects PROVE FALSE
      <4>1. a # DP
        BY <1>1, <1>3, <3>4, CommitIs DEF Assembling
      <4>2. At(a, "wipe") /\ rows' = {} /\ \A r \in rows \ rows' : Explained(r)
        BY <3>4, <4>1, CommitIs DEF At
      <4>3. x.object.frag.seq = k.seq
        BY <2>1 DEF HandInv
      <4>4. x.object.frag \in Of(k) /\ taken[x.object.frag] > 0
        BY <4>3, CleanFacts
      <4>5. ~Adding(x.object.frag)
        BY <4>4, NotAddedTwice
      <4>6. PICK r \in rows : r.object.frag = x.object.frag
        BY <4>4, <4>5 DEF Safe, Stored
      <4>7. Explained(r) /\ PacketOf(r.object.frag) = k
        BY <4>2, <4>4, <4>6 DEF Of
      <4> QED BY <4>7 DEF Explained, Clean
    <3> QED BY <3>1, <3>2, <3>3, <3>4, TableStep DEF TableMoves
  <2> QED BY <1>1, <2>1, <2>2, <2>3 DEF InGoodHands
<1> QED BY <1>2, <1>3 DEF DPSafe

LEMMA SafeSelect ==
  ASSUME TInv, CopiesInv, NEW k \in Packets, Clean(k), Safe(k), SelectParts
  PROVE  DPSafe(k)
<1>1. UNCHANGED <<rows, objects, taken>>
  BY DEF SelectParts, past
<1>2. CASE st[DP].seq = k.seq /\ Complete(Parted)
  <2>1. /\ st'[DP].op = "lookup" /\ st'[DP].seq = k.seq /\ st'[DP].got = Parted
        /\ st'[DP].data = <<>>
    BY <1>2, SelectJob DEF Clean
  <2>2. \A x \in Parted : x.object \in objects
    BY DEF Parted, TInv, StoreInv
  <2>3. ASSUME NEW f \in Of(k) PROVE taken[f] > 0
    <3>1. f \in Fragments /\ f.part \in Part /\ f.sid = k.sid /\ f.seq = k.seq
      BY Constants, FragmentsDiffer DEF Of
    <3>2. PICK r \in Parted : r.object.frag.part = f.part
      BY <1>2, <3>1 DEF Complete
    <3>3. r \in rows /\ r.object.frag \in Of(k) /\ taken[r.object.frag] > 0
      BY <1>2, CleanFacts DEF Parted
    <3>4. r.object.frag \in Fragments /\ r.object.frag.sid = k.sid /\ r.object.frag.seq = k.seq
      BY <3>3, FragmentsDiffer DEF Of
    <3>5. r.object.frag = f
      BY <3>1, <3>2, <3>4, FragmentsDiffer
    <3> QED BY <3>3, <3>5
  <2> QED BY <1>1, <2>1, <2>2, <2>3 DEF DPSafe, DPAt, InGoodHands, At
<1>3. CASE st[DP].seq = k.seq /\ ~Complete(Parted)
  <2>1. ~AllStored(k)
    BY <1>3, CompleteWhenClean DEF AllStored
  <2>2. st'[DP].op = "idle"
    BY <1>3, SelectJob DEF Fresh
  <2> QED BY <2>1, <2>2 DEF DPSafe, Assembling, At
<1>4. CASE st[DP].seq # k.seq
  <2>1. st'[DP].op = "idle" \/ st'[DP].seq # k.seq
    BY <1>4, SelectJob DEF Fresh
  <2> QED BY <1>4, <2>1 DEF DPSafe, DPAt, Assembling, At
<1> QED BY <1>2, <1>3, <1>4

LEMMA SafeLookup ==
  ASSUME TInv, CopiesInv, HandInv, NEW k \in Packets, Clean(k), Clean(k)', Safe(k), Lookup
  PROVE  DPSafe(k)
<1>1. UNCHANGED <<rows, objects, taken>>
  BY DEF Lookup
<1>2. At(DP, "lookup") /\ Assembling /\ st'[DP].seq = st[DP].seq /\ st'[DP].data = st[DP].data
  BY LookupJob DEF At, Assembling
<1>3. CASE st'[DP].op = "read" /\ st'[DP].got = st[DP].got
  BY <1>1, <1>2, <1>3 DEF DPSafe, DPAt, Safe, InGoodHands, At
<1>4. CASE st'[DP].op = "remove" /\ lost' = lost \cup Why(st[DP].got, "moved")
  <2>1. ASSUME st[DP].seq = k.seq PROVE FALSE
    <3>1. st[DP].data = <<>> /\ {r.object.frag.part : r \in st[DP].got} = Len(st[DP].data) .. Parts - 1
          /\ \A r \in st[DP].got : r.object.frag.seq = k.seq
      BY <1>2, <2>1 DEF HandInv
    <3>2. 0 \in {r.object.frag.part : r \in st[DP].got}
      <4>1. Parts \in Nat \ {0}
        BY Constants
      <4>2. Len(st[DP].data) = 0
        BY <3>1
      <4>3. 0 \in Len(st[DP].data) .. Parts - 1
        BY <4>1, <4>2
      <4> QED BY <3>1, <4>3
    <3>3. PICK r \in st[DP].got : r.object.frag.part = 0
      BY <3>2
    <3>4. PacketOf(r.object.frag) = k
      BY <3>1, CleanFacts DEF Of
    <3>5. st[DP].got \in SUBSET RowType
      BY JobParts, Constants DEF TInv, TypeInv
    <3>6. <<k, "moved">> \in Why(st[DP].got, "moved")
      BY <3>4, <3>5, WhyIs DEF Clean
    <3> QED BY <1>4, <3>6 DEF Clean, Causes
  <2> QED BY <1>2, <1>4, <2>1 DEF DPSafe, DPAt, Assembling, At
<1> QED BY <1>3, <1>4, LookupJob

LEMMA SafeRead ==
  ASSUME TInv, NEW k \in Packets, Safe(k), NEW r \in st[DP].got, ReadPart(r)
  PROVE  DPSafe(k)
<1>1. UNCHANGED <<objects, taken>>
  BY DEF ReadPart, past
<1>2. /\ At(DP, "read") /\ Assembling /\ st'[DP].op = "read" /\ st'[DP].seq = st[DP].seq
      /\ st'[DP].got = st[DP].got \ {r} /\ st'[DP].data = Append(st[DP].data, Piece(r))
      /\ r.object.frag \in Fragments
  BY ReadJob DEF At, Assembling
<1>3. ASSUME InGoodHands(k) PROVE InGoodHands(k)'
  <2>1. Piece(r) = r.object.frag /\ Piece(r) # Void
    BY <1>2, <1>3, FragmentsDiffer DEF Piece, InGoodHands
  <2>2. st[DP].data \in Seq(Pieces)
    BY JobParts, Constants DEF TInv, TypeInv
  <2> DEFINE d == st[DP].data
             piece == Piece(r)
  <2>3. \A j \in DOMAIN d : d[j] # Void
    BY <1>3 DEF InGoodHands
  <2>4. d \in Seq(Pieces) /\ piece # Void
    BY <2>1, <2>2
  <2> HIDE DEF d, piece
  <2>5. \A j \in DOMAIN Append(d, piece) : Append(d, piece)[j] # Void
    BY <2>3, <2>4
  <2>6. \A j \in DOMAIN st'[DP].data : st'[DP].data[j] # Void
    BY <1>2, <2>5 DEF d, piece
  <2> QED BY <1>1, <1>2, <1>3, <2>6 DEF InGoodHands
<1> QED BY <1>2, <1>3 DEF DPSafe, DPAt, Safe, At

\* A packet that is injected is assembled.
LEMMA SafeInject ==
  ASSUME TInv, CopiesInv, HandInv, NEW k \in Packets, Clean(k), Clean(k)', Safe(k), Inject
  PROVE  DPSafe(k)
<1>1. /\ At(DP, "read") /\ Assembling /\ st[DP].got = {} /\ Fresh(st'[DP], "remove", st[DP].seq)
      /\ injected' = Append(injected, st[DP].data) /\ injected \in Seq(Seq(Pieces))
  BY InjectJob DEF At, Assembling, TInv, TypeInv
<1>2. ASSUME st[DP].seq = k.seq PROVE FALSE
  <2>1. InGoodHands(k)
    BY <1>1, <1>2 DEF Safe
  <2>2. /\ DOMAIN st[DP].data = 1 .. Parts /\ st[DP].data = [j \in 1 .. Parts |-> st[DP].data[j]]
        /\ \A j \in 1 .. Parts : st[DP].data[j] # Void /\ st[DP].data[j] \in Fragments
    BY <1>1, <2>1, FullHand DEF InGoodHands
  <2>3. \A j \in 1 .. Parts : /\ st[DP].data[j].part = j - 1 /\ st[DP].data[j].seq = k.seq
                              /\ taken[st[DP].data[j]] > 0
    BY <1>1, <1>2, <2>2 DEF HandInv
  <2>4. \A j \in 1 .. Parts : st[DP].data[j].sid = k.sid
    BY <2>2, <2>3, CleanFacts, FragmentsDiffer DEF Of
  <2>5. \A j \in 1 .. Parts : st[DP].data[j] = [sid |-> k.sid, seq |-> k.seq, part |-> j - 1]
    BY <2>2, <2>3, <2>4, Constants
  <2>6. st[DP].data = Contents(k)
    BY <2>2, <2>5 DEF Contents
  <2>7. Len(injected) + 1 \in DOMAIN injected' /\ injected'[Len(injected) + 1] = st[DP].data
    BY <1>1
  <2>8. Assembled(k)'
    BY <2>6, <2>7 DEF Assembled, Contents
  <2> QED BY <2>8 DEF Clean
<1> QED BY <1>1, <1>2 DEF DPSafe, DPAt, Fresh, Assembling, At

LEMMA SafeFailCheck ==
  ASSUME TInv, NEW k \in Packets, Clean(k)', FailCheck
  PROVE  DPSafe(k)
<1>1. ASSUME st[DP].seq = k.seq PROVE FALSE
  <2>1. <<k, "failed">> \in lost'
    BY <1>1 DEF FailCheck
  <2> QED BY <2>1 DEF Clean, Causes
<1>2. st'[DP].op = "idle" \/ (st'[DP].op = "remove" /\ st'[DP].seq = st[DP].seq)
  BY CheckJob DEF Fresh
<1> QED BY <1>1, <1>2 DEF DPSafe, DPAt, Assembling, At

LEMMA SafeDelete ==
  ASSUME TInv, NEW k \in Packets, Safe(k), Deleting(DP)
  PROVE  DPSafe(k)
<1>1. st[DP].op \in Deletes
  BY DEF Deleting, DeleteSelect, DeleteCommit, FailDelete
<1>2. st'[DP].op = "idle" \/ (st'[DP].op = st[DP].op /\ st'[DP].seq = st[DP].seq)
  <2>1. ASSUME DeleteSelect(DP)
        PROVE  st'[DP].op = "idle" \/ (st'[DP].op = st[DP].op /\ st'[DP].seq = st[DP].seq)
    BY <2>1, DeleteJob, Constants
  <2>2. ASSUME DeleteCommit(DP) PROVE st'[DP].op = "idle"
    BY <2>2, CommitIs DEF Deleters
  <2>3. ASSUME FailDelete(DP) PROVE st'[DP].op = "idle"
    BY <2>3, DeletedJob, Constants DEF FailDelete, TInv
  <2> QED BY <2>1, <2>2, <2>3 DEF Deleting
<1>3. ~DPAt(k) /\ ~Assembling
  BY <1>1 DEF Deletes, DPAt, Assembling
<1>4. ~Assembling' /\ (At(DP, "remove")' => st'[DP].seq # k.seq)
  BY <1>2, <1>3 DEF Safe, Assembling, At
<1> QED BY <1>3, <1>4 DEF DPSafe

LEMMA SafeDP ==
  ASSUME TInv, CopiesInv, HandInv, DeletingInv, [Next]_vars, Growing, NEW k \in Packets,
         Clean(k), Clean(k)', Safe(k)
  PROVE  DPSafe(k)
<1>1. CASE Elsewhere
  BY <1>1, SafeElsewhere
<1>2. CASE Receive
  <2>1. At(DP, "idle") /\ st'[DP].op \in {"select", "expire"}
    BY <1>2, ReceiveJob DEF TInv, Fresh
  <2> QED BY <2>1 DEF DPSafe, DPAt, Assembling, At
<1>3. CASE SelectParts
  BY <1>3, SafeSelect
<1>4. CASE Lookup
  BY <1>4, SafeLookup
<1>5. ASSUME NEW r \in st[DP].got, ReadPart(r) PROVE DPSafe(k)
  BY <1>5, SafeRead
<1>6. CASE Inject
  BY <1>6, SafeInject
<1>7. CASE FailCheck
  BY <1>7, SafeFailCheck
<1>8. CASE Deleting(DP)
  BY <1>8, SafeDelete
<1> QED BY <1>1, <1>2, <1>3, <1>4, <1>5, <1>6, <1>7, <1>8, OthersStep DEF DPStep

LEMMA CleanStep == TInv /\ CopiesInv /\ HandInv /\ DeletingInv /\ CleanInv /\ [Next]_vars => CleanInv'
<1> SUFFICES ASSUME TInv, CopiesInv, HandInv, DeletingInv, CleanInv, [Next]_vars,
                    NEW k \in Packets, Clean(k)'
             PROVE  Safe(k)'
  BY DEF CleanInv
<1>1. Growing
  BY Grows
<1>2. Clean(k) /\ Safe(k)
  BY <1>1, CleanBefore DEF CleanInv
<1>3. DPSafe(k)
  BY <1>1, <1>2, SafeDP
<1>4. \A f \in Of(k) : taken'[f] > 0 => Stored(f)' \/ Adding(f)'
  BY <1>1, <1>2, SafeFragments
<1>5. AllStored(k)' => Announced(k)'
  BY <1>2, <1>3, SafeAnnounced DEF DPSafe
<1> QED BY <1>3, <1>4, <1>5 DEF Safe, DPSafe, AllStored

----------------------------------------------------------------------------
(* The theorems *)

LEMMA InvStart == Init => IInv /\ WholeInv
<1> SUFFICES ASSUME Init PROVE IInv /\ WholeInv
  OBVIOUS
<1>1. \A a \in Procs : st[a] = Idle
  BY DEF Init
<1>2. st[DP].op = "idle" /\ \A p \in Hosts : st[p].op = "idle"
  BY <1>1, IdleJob, Constants
<1>3. StoreInv
  BY FS_EmptySet DEF Init, StoreInv
<1>4. TInv
  BY <1>3, TypesStart DEF TInv
<1>5. CopiesInv
  <2>1. st[DP].got = {}
    BY <1>1, IdleJob, Constants
  <2> QED BY <1>2, <2>1 DEF CopiesInv, At, Init
<1>6. HandInv /\ DeletingInv /\ ~Assembling
  BY <1>2 DEF HandInv, DeletingInv, Assembling, At
<1>7. SpentInv
  <2> SUFFICES ASSUME NEW f \in Fragments PROVE Spent(f, {})
    BY DEF SpentInv
  <2>1. Used(f) = {}
    BY DEF Used, Init
  <2>2. Uses(f) = 0 /\ Cardinality({}) = 0
    BY <1>6, <2>1, FS_EmptySet DEF Uses, InHand
  <2> QED BY <1>2, <2>2 DEF Spent, SpentBy, At
<1>8. CleanInv
  <2> SUFFICES ASSUME NEW k \in Packets PROVE Safe(k)
    BY DEF CleanInv
  <2>1. \A f \in Of(k) : taken[f] = 0
    BY DEF Init, Of
  <2>2. ~(\A f \in Of(k) : Stored(f))
    <3>1. 0 \in Part
      BY BoundsAssumption DEF Part
    <3>2. PICK f \in Fragments : PacketOf(f) = k
      BY <3>1, FragmentsDiffer
    <3> QED BY <3>2 DEF Of, Stored, Init
  <2> QED BY <1>2, <1>6, <2>1, <2>2 DEF Safe, At
<1>9. WholeInv
  BY DEF WholeInv, Init
<1> QED BY <1>4, <1>5, <1>6, <1>7, <1>8, <1>9 DEF IInv

LEMMA InvStep == IInv /\ WholeInv /\ [Next]_vars => (IInv /\ WholeInv)'
<1> SUFFICES ASSUME IInv, WholeInv, [Next]_vars PROVE (IInv /\ WholeInv)'
  OBVIOUS
<1>1. TInv /\ CopiesInv /\ HandInv /\ DeletingInv /\ SpentInv /\ CleanInv
  BY DEF IInv
<1>2. TypeInv' /\ StoreInv' /\ CopiesInv'
  BY <1>1, TypesStep, StoreStep, CopiesStep
<1>3. HandInv' /\ DeletingInv' /\ WholeInv' /\ CleanInv'
  BY <1>1, HandStep, DeletingStep, WholeStep, CleanStep
<1>4. SpentInv'
  BY <1>1, <1>2, SpentInvStep
<1> QED BY <1>2, <1>3, <1>4 DEF IInv, TInv

\* The inductive invariant, for every number of processes, packets, parts, sessions and
\* failures.
THEOREM InvHolds == Spec => [](IInv /\ WholeInv)
<1>1. Init => IInv /\ WholeInv
  BY InvStart
<1>2. IInv /\ WholeInv /\ [Next]_vars => (IInv /\ WholeInv)'
  BY InvStep
<1> QED BY <1>1, <1>2, PTL DEF Spec

\* Whatever the defragmentation process (fprocess.cpp) gives back to the packet processors
\* is a packet that one client sent in one session, all its parts in their order, and no
\* longer than a packet may be: unless the user used the number of the packet in another
\* session, or his fragments were deleted while they were read.
THEOREM WholeUnlessReusedOrCut == Spec => []InjectedWhole
<1>1. TInv /\ WholeInv => InjectedWhole
  <2> SUFFICES ASSUME TInv, WholeInv PROVE InjectedWhole
    OBVIOUS
  <2>1. TypeOK
    <3>1. sid \in 0 .. nlogin /\ nlogin \in 0 .. MaxLogins /\ counter \in 0 .. period + 1
      BY DEF TInv, TypeInv
    <3>2. \A i \in DOMAIN dpipe : dpipe[i] \in Seqs \cup {Check}
      BY DEF TInv, TypeInv
    <3>3. rows \subseteq [object : objects, age : 0 .. Expiry + 1]
      BY DEF TInv, StoreInv, RowType
    <3>4. objects \subseteq Objects /\ \A r, x \in rows : r.object = x.object => r = x
      BY DEF TInv, StoreInv
    <3> QED BY <3>1, <3>2, <3>3, <3>4 DEF TypeOK
  <2> QED BY <2>1 DEF InjectedWhole, WholeInv, Whole
<1> QED BY <1>1, InvHolds, PTL DEF IInv

\* No fragment is used in more packets than it was received times, although it is taken
\* from the table before it is deleted there: unless a deletion failed.
THEOREM UsedAsOftenAsTaken == Spec => []UsedOnce
<1>1. IInv => UsedOnce
  <2> SUFFICES ASSUME TInv, SpentInv, ~Kept, NEW f \in Fragments
               PROVE  Cardinality(Used(f)) <= taken[f]
    BY DEF UsedOnce, IInv, Used, Kept
  <2>1. PICK S \in SUBSET (1 .. taken[f]) : Spent(f, S)
    BY DEF SpentInv
  <2>2. taken[f] \in Nat
    BY FragsAre
  <2>3. Cardinality(S) <= taken[f] /\ Cardinality(S) \in Nat
    BY <2>2, SubsetsAreFinite
  <2>4. Cardinality(Used(f)) \in Nat /\ Cardinality(Used(f)) <= Uses(f) /\ Uses(f) \in Nat
    BY UsesAre
  <2> QED BY <2>1, <2>2, <2>3, <2>4 DEF Spent
<1> QED BY <1>1, InvHolds, PTL

\* A packet whose fragments were all acknowledged (they are acknowledged before they are
\* stored) has been assembled once nobody is busy with it: unless a fragment came twice, the
\* number was used by another session, the user moved, a statement failed, the fragments
\* expired, or they were removed with those of another packet.
THEOREM AcknowledgedAreAssembled == Spec => []AckedIsInjected
<1>1. IInv => AckedIsInjected
  <2> SUFFICES ASSUME TInv, CleanInv, Quiet, NEW k \in Packets, k.seq \notin Big,
                      \A f \in Fragments : PacketOf(f) = k => taken[f] > 0,
                      ~Assembled(k), ~Repeated(k), ~Reused(k),
                      \A why \in Causes : <<k, why>> \notin lost
               PROVE  FALSE
    BY DEF AckedIsInjected, IInv, Causes
  <2>1. Safe(k)
    BY DEF CleanInv, Clean
  <2>2. \A a \in Procs : st[a].op = "idle"
    BY DEF Quiet, At
  <2>3. ASSUME NEW f \in Of(k) PROVE Stored(f)
    BY <2>1, <2>2, Constants DEF Safe, Adding, Of, At
  <2>4. Announced(k)
    BY <2>1, <2>3 DEF Safe
  <2> QED BY <2>2, <2>4, Constants DEF Announced, Quiet, At
<1> QED BY <1>1, InvHolds, PTL
=============================================================================
