------------------------- MODULE ConnTableProofs -------------------------
(***************************************************************************)
(* Proofs about ConnTable, for any number of connections, packet           *)
(* processors and users, any pipe and table size, on both platforms.       *)
(*                                                                         *)
(* TypeOK /\ IInv is inductive (Invariance).  IInv is needed because the    *)
(* properties are only about moments, and what makes them true is carried  *)
(* through SP's whole round and its nested waits:                          *)
(*   FramesInv  SP's pending calls of spipe_send_packet: all but the       *)
(*              outermost close a connection, and each but the innermost   *)
(*              has lost its packet;                                       *)
(*   PackInv    what int_pack still holds for the innermost one;           *)
(*   FdInv      an entry with a descriptor is that of an open connection,  *)
(*              and neither occurs twice, in the table or just behind it;  *)
(*   ListedInv  an open connection that no wait disturbed has an entry;    *)
(*   CauseInv   the cause of a close is known while its request, its mark  *)
(*              or its call is pending;                                    *)
(*   WorkInv    messages, handlers and records name accepted connections;  *)
(*   SessionInv a connection that is not open any more has been ended, or  *)
(*              its SOCK_TERM is in the pipe, unless it timed out or was   *)
(*              disturbed; and two records agree only if a login doubled   *)
(*              them.                                                      *)
(* There is a lemma for each conjunct: that every step preserves it, given *)
(* the conjunction before the step.                                        *)
(***************************************************************************)
EXTENDS ConnTable, TLAPS, SequenceTheorems, FiniteSetTheorems, WellFoundedInduction

----------------------------------------------------------------------------
(* Least numbers, and sequences used as stacks. *)

\* A nonempty set of naturals has a least element.
LEMMA LeastNatural ==
  ASSUME NEW S, S \subseteq Nat, S # {}
  PROVE  \E n \in S : \A m \in S : n <= m
<1> DEFINE R == {ss \in Nat \X Nat : ss[1] < ss[2]}
<1>1. IsWellFoundedOn(R, Nat)
  BY NatLessThanWellFounded DEF OpToRel
<1>2. \A x, y \in Nat : x < y => <<x, y>> \in R
  OBVIOUS
<1> HIDE DEF R
<1>3. PICK n \in S : \A m \in S : <<m, n>> \notin R
  BY <1>1, WFMin
<1>4. ASSUME NEW m \in S PROVE n <= m
  <2>1. m \in Nat /\ n \in Nat /\ <<m, n>> \notin R
    BY <1>3
  <2>2. ~(m < n)
    BY <1>2, <2>1
  <2> QED BY <2>1, <2>2
<1> QED BY <1>4

\* A nonempty set of numbers up to b has a greatest element.
LEMMA GreatestUpTo ==
  ASSUME NEW b \in Nat, NEW S, S \subseteq 1 .. b, S # {}
  PROVE  \E n \in S : \A m \in S : m <= n
<1> DEFINE T == {b - k : k \in S}
<1>1. T \subseteq Nat /\ T # {}
  <2>1. \A k \in S : b - k \in Nat
    BY SMT
  <2>2. PICK k \in S : TRUE
    OBVIOUS
  <2>3. b - k \in T
    OBVIOUS
  <2> QED BY <2>1, <2>3
<1>2. PICK t \in T : \A u \in T : t <= u
  <2> HIDE DEF T
  <2> QED BY <1>1, LeastNatural
<1>3. PICK n \in S : t = b - n
  OBVIOUS
<1>4. ASSUME NEW m \in S PROVE m <= n
  <2>1. b - m \in T
    OBVIOUS
  <2>2. b - n <= b - m
    BY <1>2, <1>3, <2>1
  <2> QED BY <2>2
<1> QED BY <1>4

\* What pushing an element on a stack does.
LEMMA PushFacts ==
  ASSUME NEW T, NEW s \in Seq(T), NEW e \in T
  PROVE  /\ <<e>> \o s \in Seq(T)
         /\ <<e>> \o s # <<>>
         /\ Len(<<e>> \o s) = Len(s) + 1
         /\ (<<e>> \o s)[1] = e
         /\ \A k \in 1 .. Len(s) : (<<e>> \o s)[k + 1] = s[k]
<1>1. <<e>> \in Seq(T) /\ Len(<<e>>) = 1 /\ <<e>>[1] = e
  OBVIOUS
<1> DEFINE t == <<e>> \o s
<1>2. /\ t \in Seq(T) /\ Len(t) = 1 + Len(s)
      /\ \A i \in 1 .. 1 + Len(s) : t[i] = IF i <= 1 THEN <<e>>[i] ELSE s[i - 1]
  BY <1>1, ConcatProperties
<1> HIDE DEF t
<1>3. Len(s) \in Nat
  BY LenProperties
<1>4. t # <<>> /\ t[1] = e
  BY <1>1, <1>2, <1>3
<1>5. ASSUME NEW k \in 1 .. Len(s) PROVE t[k + 1] = s[k]
  BY <1>2, <1>3
<1> QED BY <1>2, <1>3, <1>4, <1>5 DEF t

\* What popping one does.
LEMMA PopFacts ==
  ASSUME NEW T, NEW s \in Seq(T), s # <<>>
  PROVE  /\ Head(s) = s[1] /\ s[1] \in T
         /\ Tail(s) \in Seq(T)
         /\ Len(s) \in Nat \ {0}
         /\ Len(Tail(s)) = Len(s) - 1
         /\ Tail(s) = <<>> <=> Len(s) = 1
         /\ \A k \in 1 .. Len(s) - 1 : Tail(s)[k] = s[k + 1]
<1>1. Len(s) \in Nat /\ Len(s) # 0
  BY LenProperties, EmptySeq
<1>2. /\ Head(s) \in T /\ Tail(s) \in Seq(T) /\ Len(Tail(s)) = Len(s) - 1
      /\ \A i \in 1 .. Len(Tail(s)) : Tail(s)[i] = s[i + 1]
  BY HeadTailProperties
<1>3. Head(s) = s[1]
  BY <1>1
<1>4. Tail(s) = <<>> <=> Len(s) = 1
  <2>1. Tail(s) = <<>> <=> Len(Tail(s)) = 0
    BY <1>2, EmptySeq
  <2> QED BY <1>1, <1>2, <2>1
<1> QED BY <1>1, <1>2, <1>3, <1>4

\* What appending to a queue does.
LEMMA QueueFacts ==
  ASSUME NEW T, NEW s \in Seq(T), NEW e \in T
  PROVE  /\ Append(s, e) \in Seq(T)
         /\ Len(Append(s, e)) = Len(s) + 1
         /\ Append(s, e)[Len(s) + 1] = e
         /\ \A k \in 1 .. Len(s) : Append(s, e)[k] = s[k]
BY AppendProperties, LenProperties

----------------------------------------------------------------------------
(* The inductive invariant. *)

Frame == [then : {"close", "accept", "data"}, i : Slots, c : 0 .. MaxConns]
Entry == [c : 0 .. MaxConns, fd : 0 .. MaxConns, started : 0 .. 2, rev : BOOLEAN]

\* SP's pending calls: only the outermost is not the closing of a connection, and each
\* but the innermost has lost its packet.
LastFrame == frames[Len(frames)]
FramesInv ==
  /\ frames # <<>> => pc \in {"tog", "accept", "scan"}
  /\ pc = "accept" /\ "accept" \in evs => frames = <<>>
  /\ \A k \in 1 .. Len(frames) : k < Len(frames) => frames[k].then = "close"
  /\ \A k \in 1 .. Len(frames) : k > 1 => frames[k].c \in hurt
  /\ frames # <<>> /\ LastFrame.then = "accept" =>
       pc = "accept" /\ cnt < LastFrame.i /\ LastFrame.i <= MaxTcp
  /\ frames # <<>> /\ pc = "scan" => LastFrame.i > idx
  /\ pc = "tog" => budget > 0

\* What int_pack holds while a call is pending.
PackInv ==
  frames # <<>> =>
    /\ int_pack.c \in Conns /\ fdOf[int_pack.c] # NoFd
    /\ int_pack.evt \in {"NEW", "DATA", "TERM"}
    /\ int_pack.evt = "DATA" => int_pack.what \in {"auth", "cookie", "snac", "junk"}
    /\ frames[1].c \notin hurt =>
         int_pack.c = frames[1].c /\ (frames[1].then = "close" => int_pack.evt = "TERM")

\* Descriptors name open connections, and entries with a descriptor, too.
FdInv ==
  /\ "accept" \in evs => nacc < came
  /\ \A c \in Conns : fdOf[c] # NoFd => c <= nacc
  /\ \A c \in open : fdOf[c] # NoFd
  /\ \A c, d \in open : fdOf[c] = fdOf[d] => c = d
  /\ \A i \in Slots : tbl[i].fd # NoFd => tbl[i].c \in open /\ fdOf[tbl[i].c] = tbl[i].fd
  /\ \A i, j \in Slots : tbl[i].fd # NoFd /\ tbl[j].fd # NoFd /\ tbl[i].c = tbl[j].c => i = j

\* Is the call that sends SOCK_NEW of c the innermost?
Accepting(c) == frames # <<>> /\ frames[1].then = "accept" /\ frames[1].c = c
ListedInv ==
  /\ \A c \in open \ hurt : \E i \in Slots :
       /\ tbl[i].c = c /\ tbl[i].fd # NoFd
       /\ i <= cnt \/ (i = cnt + 1 /\ Accepting(c))
  /\ \A c \in Conns : Accepting(c) /\ c \notin hurt =>
       tbl[cnt + 1].c = c /\ tbl[cnt + 1].fd # NoFd
  /\ hurt = {} => \A i \in Listed : tbl[i].fd # NoFd
  /\ \A i \in Slots :
       i <= cnt \/ (frames # <<>> /\ LastFrame.then = "accept" /\ i <= LastFrame.i) =>
         tbl[i].c \in Conns /\ fdOf[tbl[i].c] # NoFd

\* Why a connection is being closed: the PPs' requests, the closing under way, and the marks
\* poll has set, which are fresh up to where SP has still to look.
CauseOf(c) == c \in gone \cup asked \/ inbox[c] = "broken"
AskedInv ==
  \A j \in 1 .. Len(toutgoing) : toutgoing[j].evt = "TERM" => toutgoing[j].c \in asked
ClosingInv ==
  frames # <<>> /\ frames[1].then = "close" /\ frames[1].c \notin hurt =>
    \/ frames[1].c \in Conns /\ CauseOf(frames[1].c)
    \/ tbl[frames[1].i].c = frames[1].c => tbl[frames[1].i].fd = NoFd
MarkIsFresh(i) ==
  tbl[i].rev /\ tbl[i].fd # NoFd /\ tbl[i].c \notin hurt =>
    inbox[tbl[i].c] # "none" \/ tbl[i].c \in gone
MarksInv ==
  /\ pc \in {"tog", "accept"} => \A i \in Slots : MarkIsFresh(i)
  /\ pc = "scan" => \A i \in 1 .. idx : MarkIsFresh(i)
  /\ pc \in {"poll", "timeouts"} => \A i \in Slots : ~tbl[i].rev
CauseInv == AskedInv /\ ClosingInv /\ MarksInv

\* The packet processors' side.
TermIn(c) == \E j \in 1 .. Len(incoming) : incoming[j].evt = "TERM" /\ incoming[j].c = c
Known     == {c \in Conns : fdOf[c] # NoFd}
MessageOn(K, m) == /\ m.c \in K /\ m.evt \in {"NEW", "DATA", "TERM"}
                   /\ m.evt = "DATA" => m.what \in {"auth", "cookie", "snac", "junk"}
OpOn(K, op) == /\ op.c \in K
               /\ op.evt \in {"OFFLINE", "COOKIE", "UNCOOKIE", "INSERT"} => op.uin \in Uins
WorkInv ==
  /\ \A j \in 1 .. Len(incoming) : MessageOn(Known, incoming[j])
  /\ \A p \in PPs : \A k \in 1 .. Len(tasks[p].todo) : OpOn(Known, tasks[p].todo[k])
  /\ \A r \in online : r.c \in Known
SessionInv ==
  /\ \A c \in Conns : fdOf[c] # NoFd => c \in open \cup timed \cup hurt \cup ended \/ TermIn(c)
  /\ \A r, s \in online : r # s /\ (r.uin = s.uin \/ r.c = s.c) => r.uin \in doubled

IInv == FramesInv /\ PackInv /\ FdInv /\ ListedInv /\ CauseInv /\ WorkInv /\ SessionInv

----------------------------------------------------------------------------
(* What the helpers return, and what the compound actions change. *)

\* There is a free descriptor as long as a connection can be accepted.
LEMMA LowestFdIsFree ==
  ASSUME TypeOK, FdInv, nacc < MaxConns
  PROVE  /\ LowestFd \in 1 .. MaxConns
         /\ \A c \in open : fdOf[c] # LowestFd
<1> DEFINE Free == {f \in 1 .. MaxConns : \A c \in open : fdOf[c] # f}
<1>0. /\ MaxConns \in Nat /\ nacc \in Nat
      /\ \A c \in open : c \in 1 .. nacc
  BY ConnsAssumption DEF TypeOK, FdInv, Conns, NoFd
<1>1. Free # {}
  <2> SUFFICES ASSUME Free = {} PROVE FALSE
    OBVIOUS
  <2>1. \A f \in 1 .. MaxConns : \E c \in 1 .. nacc : fdOf[c] = f
    BY <1>0
  <2> DEFINE g == [f \in 1 .. MaxConns |-> CHOOSE c \in 1 .. nacc : fdOf[c] = f]
  <2>2. /\ g \in [1 .. MaxConns -> 1 .. nacc]
        /\ \A f \in 1 .. MaxConns : fdOf[g[f]] = f
    BY <2>1
  <2> HIDE DEF g
  <2>3. /\ IsFiniteSet(1 .. MaxConns) /\ IsFiniteSet(1 .. nacc)
        /\ Cardinality(1 .. nacc) < Cardinality(1 .. MaxConns)
    <3>1. /\ IsFiniteSet(1 .. MaxConns)
          /\ Cardinality(1 .. MaxConns) = IF 1 > MaxConns THEN 0 ELSE MaxConns - 1 + 1
      BY <1>0, FS_Interval
    <3>2. /\ IsFiniteSet(1 .. nacc)
          /\ Cardinality(1 .. nacc) = IF 1 > nacc THEN 0 ELSE nacc - 1 + 1
      BY <1>0, FS_Interval
    <3> QED BY <1>0, <3>1, <3>2
  <2>4. PICK x, y \in 1 .. MaxConns : x # y /\ g[x] = g[y]
    <3> DEFINE S == 1 .. MaxConns
               T == 1 .. nacc
    <3>1. IsFiniteSet(S) /\ IsFiniteSet(T) /\ Cardinality(T) < Cardinality(S) /\ g \in [S -> T]
      BY <2>2, <2>3
    <3> HIDE DEF S, T
    <3>2. \E x, y \in S : x # y /\ g[x] = g[y]
      BY <3>1, FS_PigeonHole
    <3> QED BY <3>2 DEF S
  <2> QED BY <2>2, <2>4
<1>2. PICK f \in Free : \A g \in Free : f <= g
  <2>1. Free \subseteq Nat
    BY <1>0
  <2> HIDE DEF Free
  <2> QED BY <1>1, <2>1, LeastNatural
<1>3. ASSUME NEW g \in 1 .. f - 1 PROVE \E c \in open : fdOf[c] = g
  <2>1. g \in 1 .. MaxConns /\ ~(f <= g)
    BY <1>0
  <2> QED BY <1>2, <2>1
<1>4. \E h \in 1 .. MaxConns : /\ \A c \in open : fdOf[c] # h
                               /\ \A g \in 1 .. h - 1 : \E c \in open : fdOf[c] = g
  BY <1>3
<1> QED BY <1>4 DEF LowestFd

\* The entry that Scan looks at is a marked one up to the scan index, the last of them.
LEMMA ScanTakesTheLast ==
  ASSUME TypeOK, Marked # {}
  PROVE  LET i == CHOOSE j \in Marked : \A k \in Marked : k <= j
         IN  i \in 1 .. idx /\ tbl[i].rev /\ i \in Slots
<1>1. idx \in Nat /\ idx <= MaxTcp /\ Marked \subseteq 1 .. idx
  BY ConnsAssumption DEF TypeOK, Marked
<1>2. PICK i \in Marked : \A k \in Marked : k <= i
  BY <1>1, GreatestUpTo
<1>3. 1 .. idx \subseteq Slots
  BY <1>1, ConnsAssumption DEF Slots
<1> QED BY <1>1, <1>2, <1>3 DEF Marked

\* What removing an entry does: the last one is in its place, and the last place is vacant.
LEMMA RemoveEntryFacts ==
  ASSUME TypeOK, NEW i \in Slots, NEW c, RemoveEntry(i, c), i <= cnt, tbl[i].c = c
  PROVE  /\ cnt \in Slots /\ cnt' = cnt - 1
         /\ tbl' \in [Slots -> Entry]
         /\ tbl'[cnt].c = tbl[cnt].c /\ tbl'[cnt].fd = NoFd /\ tbl'[cnt].rev = tbl[cnt].rev
         /\ i # cnt => tbl'[i] = tbl[cnt]
         /\ \A k \in Slots : k # i /\ k # cnt => tbl'[k] = tbl[k]
         /\ open' = IF tbl[i].fd = NoFd THEN open ELSE open \ {c}
<1>1. cnt \in Slots /\ tbl \in [Slots -> Entry] /\ MaxConns \in Nat /\ MaxTcp \in Nat
  BY ConnsAssumption DEF TypeOK, Slots, Entry
<1>0. ~(i > cnt \/ tbl[i].c # c)
  BY <1>1 DEF Slots
<1>2. /\ tbl' = [tbl EXCEPT ![i] = tbl[cnt], ![cnt].fd = NoFd]
      /\ cnt' = cnt - 1
      /\ open' = IF tbl[i].fd = NoFd THEN open ELSE open \ {c}
  BY <1>0 DEF RemoveEntry
<1>3. NoFd \in 0 .. MaxConns
  BY <1>1 DEF NoFd
<1>4. [tbl[cnt] EXCEPT !.fd = NoFd] \in Entry
  BY <1>1, <1>3 DEF Entry
<1>5. tbl'[cnt] = [tbl[cnt] EXCEPT !.fd = NoFd]
  BY <1>1, <1>2
<1>6. /\ i # cnt => tbl'[i] = tbl[cnt]
      /\ \A k \in Slots : k # i /\ k # cnt => tbl'[k] = tbl[k]
  BY <1>1, <1>2
<1>7. tbl' \in [Slots -> Entry]
  BY <1>1, <1>2, <1>4, <1>5, <1>6
<1>8. tbl'[cnt].c = tbl[cnt].c /\ tbl'[cnt].fd = NoFd /\ tbl'[cnt].rev = tbl[cnt].rev
  BY <1>1, <1>5 DEF Entry
<1> QED BY <1>1, <1>2, <1>6, <1>7, <1>8

\* What a message of the PPs does to SP: at most a startup phase ends, or a connection that
\* its client left or a PP asked to close is to be closed.
Untouched == /\ tbl' \in [Slots -> Entry]
             /\ \A k \in Slots : /\ tbl'[k].c = tbl[k].c /\ tbl'[k].fd = tbl[k].fd
                                 /\ tbl'[k].rev = tbl[k].rev
LEMMA TogFacts ==
  ASSUME TypeOK, CauseInv, TogProcess
  PROVE  /\ Untouched
         /\ toutgoing # <<>> /\ toutgoing' = Tail(toutgoing)
         /\ \/ UNCHANGED <<frames, int_pack, hurt>>
            \/ \E i \in Listed : NotifyClosed(i) /\ tbl[i].c \in gone \cup asked
<1> DEFINE m == Head(toutgoing)
<1>1. toutgoing # <<>> /\ toutgoing' = Tail(toutgoing)
  BY DEF TogProcess
<1>2. m.evt = "TERM" => m.c \in asked
  <2>1. m = toutgoing[1] /\ Len(toutgoing) \in Nat \ {0}
    BY <1>1, PopFacts DEF TypeOK
  <2> QED BY <2>1 DEF CauseInv, AskedInv
<1>3. tbl \in [Slots -> Entry]
  BY DEF TypeOK, Entry
<1>4. Untouched
  <2>1. CASE tbl' = tbl
    BY <1>3, <2>1 DEF Untouched
  <2>2. ASSUME NEW i \in Listed, tbl' = [tbl EXCEPT ![i].started = 0] PROVE Untouched
    <3>1. i \in Slots /\ [tbl[i] EXCEPT !.started = 0] \in Entry
      BY <1>3 DEF Listed, Entry
    <3> QED BY <1>3, <2>2, <3>1 DEF Untouched, Entry
  <2> QED BY <2>1, <2>2 DEF TogProcess
<1>5. \A i \in Listed : Matches(tbl[i], m) => tbl[i].c = m.c
  BY DEF Matches
<1>6. \/ UNCHANGED <<frames, int_pack, hurt>>
      \/ \E i \in Listed : NotifyClosed(i) /\ tbl[i].c \in gone \cup asked
  BY <1>2, <1>5 DEF TogProcess
<1> QED BY <1>1, <1>4, <1>6

\* Pushing a call.
LEMMA CallFacts ==
  ASSUME TypeOK, NEW f \in Frame, NEW pack \in Packs, Call(f, pack)
  PROVE  /\ frames' \in Seq(Frame) /\ frames' # <<>>
         /\ Len(frames) \in Nat /\ Len(frames') = Len(frames) + 1
         /\ frames'[1] = f
         /\ \A k \in 1 .. Len(frames) : frames'[k + 1] = frames[k]
         /\ int_pack' = pack
         /\ hurt' = IF frames = <<>> THEN hurt ELSE hurt \cup {int_pack.c}
<1>1. frames \in Seq(Frame)
  BY DEF TypeOK, Frame
<1>2. Len(frames) \in Nat
  BY <1>1, LenProperties
<1> QED BY <1>1, <1>2, PushFacts DEF Call

LEMMA NotifyFacts ==
  ASSUME TypeOK, NEW i \in Slots, NotifyClosed(i)
  PROVE  LET f == [then |-> "close", i |-> i, c |-> tbl[i].c]
             p == Pack("TERM", tbl[i].c, "none")
         IN  /\ f \in Frame /\ p \in Packs /\ Call(f, p)
<1>1. tbl[i].c \in 0 .. MaxConns
  BY DEF TypeOK
<1> QED BY <1>1 DEF NotifyClosed, Frame, Packs, Pack

\* Clients and packet processors do not touch what SP holds.
SPKeeps == UNCHANGED <<bsd, spvars, open, fdOf, nacc, hurt, timed>>
LEMMA OutsideFacts ==
  ASSUME ClientStep \/ \E p \in PPs : PPStep(p)
  PROVE  SPKeeps
BY DEF SPKeeps, ClientStep, PPStep, Connect, ClientSend, Hangup, PPTake, PPReply,
       CloseConnection, PPOffline, PPCookie, PPInsert, spvars, clvars, history, dbvars

----------------------------------------------------------------------------
(* Type correctness is preserved, given the rest of the invariant. *)

LEMMA ConstFacts ==
  /\ MaxConns \in Nat /\ MaxTcp \in Nat /\ MaxTcp # 0 /\ Slots = 1 .. MaxTcp + 1
  /\ NoFd = 0 /\ Conns = 1 .. MaxConns /\ 0 \notin Uins
BY ConnsAssumption, PipesAssumption DEF Slots, NoFd, Conns

\* The parts of the type invariant that the proofs about SP use.
LEMMA TypeParts ==
  ASSUME TypeOK
  PROVE  /\ tbl \in [Slots -> Entry] /\ cnt \in 0 .. MaxTcp /\ idx \in 0 .. MaxTcp
         /\ frames \in Seq(Frame) /\ int_pack \in Packs /\ int_pack.c \in 0 .. MaxConns
         /\ incoming \in Seq(Packs) /\ toutgoing \in Seq(Packs)
         /\ Len(frames) \in Nat /\ Len(incoming) \in Nat /\ Len(toutgoing) \in Nat
         /\ open \subseteq Conns /\ hurt \subseteq 0 .. MaxConns
         /\ fdOf \in [Conns -> 0 .. MaxConns]
         /\ nacc \in Nat /\ came \in Nat /\ nacc <= came /\ came <= MaxConns
<1>1. /\ tbl \in [Slots -> Entry] /\ cnt \in 0 .. MaxTcp /\ idx \in 0 .. MaxTcp
      /\ frames \in Seq(Frame) /\ int_pack \in Packs
      /\ incoming \in Seq(Packs) /\ toutgoing \in Seq(Packs)
      /\ open \subseteq Conns /\ hurt \subseteq 0 .. MaxConns
      /\ fdOf \in [Conns -> 0 .. MaxConns]
      /\ came \in 0 .. MaxConns /\ nacc \in 0 .. came
  BY DEF TypeOK, Entry, Frame
<1>2. Len(frames) \in Nat /\ Len(incoming) \in Nat /\ Len(toutgoing) \in Nat
  BY <1>1, LenProperties
<1>3. int_pack.c \in 0 .. MaxConns
  BY <1>1 DEF Packs
<1> QED BY <1>1, <1>2, <1>3, ConnsAssumption

\* The calls SP makes have the right type.
LEMMA NotifyType ==
  ASSUME TypeOK, NEW i \in Slots, NotifyClosed(i)
  PROVE  /\ frames' \in Seq([then : {"close", "accept", "data"}, i : Slots, c : 0 .. MaxConns])
         /\ int_pack' \in Packs
         /\ hurt' \subseteq 0 .. MaxConns
<1>1. frames' \in Seq(Frame) /\ int_pack' \in Packs
  BY NotifyFacts, CallFacts
<1>2. hurt' = IF frames = <<>> THEN hurt ELSE hurt \cup {int_pack.c}
  BY NotifyFacts, CallFacts
<1>3. hurt' \subseteq 0 .. MaxConns
  BY <1>2, TypeParts
<1> QED BY <1>1, <1>3 DEF Frame

LEMMA TogType ==
  ASSUME TypeOK, CauseInv, TogProcess, UNCHANGED <<pc, idx, budget>>
  PROVE  TypeOK'
<1>1. /\ toutgoing' \in Seq(Packs)
      /\ Len(toutgoing') <= PipeCap
  <2>1. toutgoing # <<>> /\ toutgoing' = Tail(toutgoing)
    BY TogFacts
  <2> QED BY <2>1, PopFacts, PipesAssumption DEF TypeOK
<1>2. tbl' \in [Slots -> [c : 0 .. MaxConns, fd : 0 .. MaxConns, started : 0 .. 2, rev : BOOLEAN]]
  BY TogFacts DEF Untouched, Entry
<1>3. /\ frames' \in Seq([then : {"close", "accept", "data"}, i : Slots, c : 0 .. MaxConns])
      /\ int_pack' \in Packs
      /\ hurt' \subseteq 0 .. MaxConns
  <2>1. CASE UNCHANGED <<frames, int_pack, hurt>>
    BY <2>1 DEF TypeOK
  <2>2. ASSUME NEW i \in Listed, NotifyClosed(i)
        PROVE /\ frames' \in Seq([then : {"close", "accept", "data"}, i : Slots, c : 0 .. MaxConns])
              /\ int_pack' \in Packs
              /\ hurt' \subseteq 0 .. MaxConns
    BY <2>2, NotifyType DEF Listed
  <2> QED BY <2>1, <2>2, TogFacts
<1>4. UNCHANGED <<bsd, cnt, pc, idx, budget, evs, fdOf, nacc, clvars, incoming, tasks, dbvars,
                  ended, late, doubled, timed, asked, open>>
  BY DEF TogProcess
<1> QED BY <1>1, <1>2, <1>3, <1>4 DEF TypeOK, clvars, dbvars

LEMMA SpipeSendType ==
  ASSUME TypeOK, FramesInv, SpipeSend
  PROVE  TypeOK'
<1> DEFINE f == Head(frames)
<1>1. /\ frames # <<>> /\ frames' = Tail(frames) /\ f = frames[1]
      /\ f \in Frame /\ frames' \in Seq(Frame) /\ Len(frames) \in Nat \ {0}
  <2>1. frames # <<>> /\ frames' = Tail(frames)
    BY DEF SpipeSend
  <2> QED BY <2>1, TypeParts, PopFacts
<1>2. incoming' \in Seq(Packs) /\ Len(incoming') <= PipeCap
  <2>1. incoming' = Append(incoming, int_pack) /\ Len(incoming) < PipeCap
    BY DEF SpipeSend
  <2> QED BY <2>1, TypeParts, QueueFacts, PipesAssumption
<1>3. int_pack' \in Packs
  <2>1. NoPack \in Packs
    BY ConstFacts DEF NoPack, Packs
  <2> QED BY <2>1, TypeParts DEF SpipeSend
<1>4. /\ tbl' \in [Slots -> Entry] /\ cnt' \in 0 .. MaxTcp /\ open' \subseteq Conns
      /\ hurt' \subseteq 0 .. MaxConns
  <2>1. CASE f.then = "close"
    <3>1. /\ RemoveEntry(f.i, f.c)
          /\ hurt' = IF frames' # <<>> /\ cnt' < cnt /\ f.i < cnt
                       THEN hurt \cup {tbl[cnt].c} ELSE hurt
      BY <2>1 DEF SpipeSend
    <3>2. f.i \in Slots
      BY <1>1 DEF Frame
    <3> HIDE DEF f
    <3>3. tbl' \in [Slots -> Entry] /\ cnt' \in 0 .. MaxTcp /\ open' \subseteq Conns
      <4>1. CASE f.i > cnt \/ tbl[f.i].c # f.c
        BY <3>1, <4>1, TypeParts DEF RemoveEntry
      <4>2. CASE ~(f.i > cnt \/ tbl[f.i].c # f.c)
        <5>1. f.i <= cnt /\ tbl[f.i].c = f.c
          BY <3>2, <4>2, ConstFacts, TypeParts
        <5>2. /\ tbl' \in [Slots -> Entry] /\ cnt' = cnt - 1 /\ cnt \in Slots
              /\ open' = IF tbl[f.i].fd = NoFd THEN open ELSE open \ {f.c}
          BY <3>1, <3>2, <5>1, RemoveEntryFacts
        <5> QED BY <5>2, ConstFacts, TypeParts
      <4> QED BY <4>1, <4>2
    <3>4. hurt' = hurt \/ (hurt' = hurt \cup {tbl[cnt].c} /\ cnt \in Slots)
      BY <3>1, <3>2, ConstFacts, TypeParts
    <3>5. cnt \in Slots => tbl[cnt].c \in 0 .. MaxConns
      BY TypeParts DEF Entry
    <3> QED BY <3>3, <3>4, <3>5, TypeParts
  <2>2. CASE f.then = "accept"
    <3>1. cnt' = cnt + 1 /\ UNCHANGED <<tbl, open, hurt>>
      BY <2>2 DEF SpipeSend
    <3>2. Len(frames) = 1
      <4>1. frames[1].then # "close"
        BY <1>1, <2>2
      <4>2. 1 \in 1 .. Len(frames)
        BY <1>1
      <4>3. ~(1 < Len(frames))
        BY <4>1, <4>2 DEF FramesInv
      <4>4. Len(frames) \in Nat \ {0}
        BY <1>1
      <4>5. \A n \in Nat \ {0} : ~(1 < n) => n = 1
        OBVIOUS
      <4> QED BY <4>3, <4>4, <4>5
    <3>3. cnt < f.i /\ f.i <= MaxTcp
      <4>1. LastFrame = f
        BY <1>1, <3>2 DEF LastFrame
      <4> QED BY <1>1, <2>2, <4>1 DEF FramesInv
    <3>4. f.i \in Nat
      BY <1>1, ConstFacts DEF Frame
    <3> HIDE DEF f
    <3> QED BY SMTT(30), <3>1, <3>3, <3>4, ConstFacts, TypeParts
  <2>3. CASE f.then = "data"
    BY <2>3, TypeParts DEF SpipeSend
  <2> QED BY <1>1, <2>1, <2>2, <2>3 DEF Frame
<1>5. UNCHANGED <<bsd, pc, idx, evs, budget, fdOf, nacc, clvars, toutgoing, tasks,
                  dbvars, ended, late, doubled, timed, asked>>
  BY DEF SpipeSend
<1> QED BY <1>1, <1>2, <1>3, <1>4, <1>5 DEF TypeOK, Frame, Entry, clvars, dbvars

LEMMA PollType ==
  ASSUME TypeOK, Poll
  PROVE  /\ TypeOK'
         /\ pc' = "tog" => budget' > 0
<1> DEFINE ready == {i \in Listed : tbl[i].fd # NoFd /\ Readable(tbl[i].c)}
           es == (IF toutgoing # <<>> THEN {"tog"} ELSE {})
                   \cup (IF came > nacc THEN {"accept"} ELSE {})
<1>1. IsFiniteSet(ready) /\ IsFiniteSet(es)
  <2>1. ready \subseteq 1 .. MaxTcp + 1 /\ IsFiniteSet(1 .. MaxTcp + 1)
    BY ConstFacts, FS_Interval DEF Listed
  <2>2. es \subseteq {"tog", "accept"}
    OBVIOUS
  <2>3. IsFiniteSet({"tog", "accept"})
    <3>1. IsFiniteSet({} \cup {"tog"})
      BY FS_EmptySet, FS_AddElement
    <3>2. IsFiniteSet(({} \cup {"tog"}) \cup {"accept"})
      BY <3>1, FS_AddElement
    <3>3. ({} \cup {"tog"}) \cup {"accept"} = {"tog", "accept"}
      OBVIOUS
    <3> QED BY <3>2, <3>3
  <2> HIDE DEF ready, es
  <2> QED BY <2>1, <2>2, <2>3, FS_Subset
<1>2. Cardinality(ready) \in Nat /\ Cardinality(es) \in Nat
  BY <1>1, FS_CardinalityType
<1>3. budget' = Cardinality(ready) + Cardinality(es)
  BY DEF Poll
<1>4. pc' = "tog" => Cardinality(es) # 0
  <2>1. pc' = "tog" => es # {}
    BY DEF Poll
  <2> HIDE DEF es
  <2> QED BY <1>1, <2>1, FS_EmptySet
<1>5. budget' \in Nat /\ (pc' = "tog" => budget' > 0)
  <2> HIDE DEF ready, es
  <2> QED BY <1>2, <1>3, <1>4
<1>6. tbl' \in [Slots -> Entry]
  <2>1. \A e \in Entry : \A b \in BOOLEAN : [e EXCEPT !.rev = b] \in Entry
    BY DEF Entry
  <2>2. tbl' = [i \in Slots |-> IF i \in Listed THEN [tbl[i] EXCEPT !.rev = i \in ready]
                                               ELSE tbl[i]]
    BY DEF Poll
  <2>3. \A i \in Slots : (i \in ready) \in BOOLEAN
    OBVIOUS
  <2> HIDE DEF ready
  <2> QED BY <2>1, <2>2, <2>3, TypeParts
<1>7. /\ evs' \subseteq {"tog", "accept"} /\ pc' \in {"tog", "accept"}
      /\ UNCHANGED <<bsd, cnt, idx, frames, int_pack, open, fdOf, nacc, clvars, incoming,
                     toutgoing, tasks, dbvars, history>>
  BY DEF Poll
<1> HIDE DEF ready, es
<1> QED BY <1>5, <1>6, <1>7 DEF TypeOK, Entry, clvars, dbvars, history

LEMMA AcceptType ==
  ASSUME TypeOK, FramesInv, FdInv, Accept
  PROVE  TypeOK'
<1>1. nacc < came /\ nacc < MaxConns /\ nacc' = nacc + 1 /\ frames = <<>>
  BY TypeParts, ConstFacts DEF Accept, FdInv, FramesInv
<1>2. nacc' \in Conns /\ nacc' <= came
  BY <1>1, TypeParts, ConstFacts
<1>3. LowestFd \in 1 .. MaxConns
  BY <1>1, LowestFdIsFree
<1>4. budget' \in Nat /\ evs' \subseteq {"tog", "accept"}
  BY DEF Accept, TypeOK
<1>5. /\ tbl' \in [Slots -> Entry] /\ frames' \in Seq(Frame) /\ int_pack' \in Packs
      /\ open' \subseteq Conns /\ fdOf' \in [Conns -> 0 .. MaxConns] /\ hurt' \subseteq 0 .. MaxConns
  <2>1. CASE cnt + 1 > MaxTcp
    <3>1. UNCHANGED <<tbl, frames, int_pack, open, fdOf, hurt>>
      BY <2>1 DEF Accept
    <3> QED BY <3>1, TypeParts
  <2>2. CASE ~(cnt + 1 > MaxTcp)
    <3> DEFINE f == [then |-> "accept", i |-> cnt + 1, c |-> nacc']
               e == [c |-> nacc', fd |-> LowestFd, started |-> 2, rev |-> FALSE]
    <3>1. /\ open' = open \cup {nacc'}
          /\ fdOf' = [fdOf EXCEPT ![nacc'] = LowestFd]
          /\ tbl' = [tbl EXCEPT ![cnt + 1] = e]
          /\ Call(f, Pack("NEW", nacc', "none"))
      BY <2>2 DEF Accept
    <3>2. cnt + 1 \in Slots
      BY SMTT(30), <2>2, TypeParts, ConstFacts
    <3>3. f \in Frame /\ e \in Entry /\ Pack("NEW", nacc', "none") \in Packs
      BY <1>2, <1>3, <3>2, ConstFacts DEF Frame, Entry, Packs, Pack
    <3>4. frames' \in Seq(Frame) /\ int_pack' \in Packs /\ hurt' = hurt
      BY <1>1, <3>1, <3>3, CallFacts
    <3>5. fdOf' \in [Conns -> 0 .. MaxConns]
      BY <1>2, <1>3, <3>1, TypeParts
    <3> HIDE DEF f, e
    <3> QED BY <1>2, <3>1, <3>3, <3>4, <3>5, TypeParts
  <2> QED BY <2>1, <2>2
<1>6. UNCHANGED <<bsd, pc, cnt, idx, clvars, incoming, toutgoing, tasks, dbvars,
                  ended, late, doubled, timed, asked>>
  BY DEF Accept
<1>7. nacc' \in 0 .. came
  BY <1>1, <1>2, TypeParts
<1> QED BY <1>4, <1>5, <1>6, <1>7 DEF TypeOK, Frame, Entry, clvars, dbvars

\* What Scan does: it consumes a packet of a connection SP holds, and perhaps passes it on,
\* or it sees to it that a connection without one is closed.
LEMMA ScanFacts ==
  ASSUME TypeOK, Scan
  PROVE  \E i \in Slots :
           /\ i \in 1 .. idx /\ tbl[i].rev /\ frames = <<>> /\ pc = "scan" /\ idx' = i - 1
           /\ budget > 0 /\ budget' = budget - 1
           /\ Untouched
           /\ UNCHANGED <<bsd, cnt, pc, evs, open, fdOf, came, nacc, gone, nsent, incoming,
                          toutgoing, tasks, dbvars, ended, late, doubled, timed, asked>>
           /\ \/ /\ Packet(i)
                 /\ inbox' = [inbox EXCEPT ![tbl[i].c] = "none"]
                 /\ \/ UNCHANGED <<frames, int_pack, hurt>>
                    \/ /\ inbox[tbl[i].c] # "keepalive"
                       /\ Call([then |-> "data", i |-> i, c |-> tbl[i].c],
                               Pack("DATA", tbl[i].c, inbox[tbl[i].c]))
              \/ /\ ~Packet(i)
                 /\ UNCHANGED inbox
                 /\ \/ UNCHANGED <<frames, int_pack, hurt>>
                    \/ i <= cnt /\ NotifyClosed(i)
<1> DEFINE i == CHOOSE j \in Marked : \A k \in Marked : k <= j
<1>1. i \in 1 .. idx /\ tbl[i].rev /\ i \in Slots
  BY ScanTakesTheLast DEF Scan
<1>2. Untouched
  <2>1. CASE tbl' = tbl
    BY <2>1, TypeParts DEF Untouched
  <2>2. CASE tbl' = [tbl EXCEPT ![i].started = IF @ = 2 THEN 1 ELSE @]
    <3> HIDE DEF i
    <3>1. tbl[i] \in Entry /\ tbl \in [Slots -> Entry]
      BY <1>1, TypeParts
    <3>2. [tbl[i] EXCEPT !.started = IF @ = 2 THEN 1 ELSE @] \in Entry
      BY <3>1 DEF Entry
    <3> QED BY <1>1, <2>2, <3>1, <3>2 DEF Untouched, Entry
  <2> QED BY <2>1, <2>2 DEF Scan
<1>3. /\ frames = <<>> /\ pc = "scan" /\ idx' = i - 1 /\ budget > 0 /\ budget' = budget - 1
      /\ UNCHANGED <<bsd, cnt, pc, evs, open, fdOf, came, nacc, gone, nsent, incoming,
                     toutgoing, tasks, dbvars, ended, late, doubled, timed, asked>>
  BY DEF Scan
<1>4. CASE Packet(i)
  <2>1. /\ inbox' = [inbox EXCEPT ![tbl[i].c] = "none"]
        /\ IF inbox[tbl[i].c] = "keepalive"
             THEN UNCHANGED <<frames, int_pack, hurt>>
             ELSE Call([then |-> "data", i |-> i, c |-> tbl[i].c],
                       Pack("DATA", tbl[i].c, inbox[tbl[i].c]))
    BY <1>4 DEF Scan
  <2> HIDE DEF i
  <2> QED BY <1>1, <1>2, <1>3, <1>4, <2>1
<1>5. CASE ~Packet(i)
  <2>1. /\ UNCHANGED inbox
        /\ IF i > cnt THEN UNCHANGED <<frames, int_pack, hurt>> ELSE NotifyClosed(i)
    BY <1>5 DEF Scan
  <2>2. i <= cnt \/ i > cnt
    BY <1>1, TypeParts, ConstFacts
  <2> HIDE DEF i
  <2> QED BY <1>1, <1>2, <1>3, <1>5, <2>1, <2>2
<1> QED BY <1>4, <1>5

LEMMA ScanType ==
  ASSUME TypeOK, FdInv, Scan
  PROVE  TypeOK'
<1>1. PICK i \in Slots :
           /\ i \in 1 .. idx /\ tbl[i].rev /\ frames = <<>> /\ pc = "scan" /\ idx' = i - 1
           /\ budget > 0 /\ budget' = budget - 1
           /\ Untouched
           /\ UNCHANGED <<bsd, cnt, pc, evs, open, fdOf, came, nacc, gone, nsent, incoming,
                          toutgoing, tasks, dbvars, ended, late, doubled, timed, asked>>
           /\ \/ /\ Packet(i)
                 /\ inbox' = [inbox EXCEPT ![tbl[i].c] = "none"]
                 /\ \/ UNCHANGED <<frames, int_pack, hurt>>
                    \/ /\ inbox[tbl[i].c] # "keepalive"
                       /\ Call([then |-> "data", i |-> i, c |-> tbl[i].c],
                               Pack("DATA", tbl[i].c, inbox[tbl[i].c]))
              \/ /\ ~Packet(i)
                 /\ UNCHANGED inbox
                 /\ \/ UNCHANGED <<frames, int_pack, hurt>>
                    \/ i <= cnt /\ NotifyClosed(i)
  BY ScanFacts
<1>2. tbl' \in [Slots -> Entry]
  BY <1>1 DEF Untouched
<1>3. idx' \in 0 .. MaxTcp /\ budget' \in Nat
  <2>1. idx \in 0 .. MaxTcp /\ budget \in Nat /\ MaxTcp \in Nat
    BY ConstFacts DEF TypeOK
  <2> QED BY <1>1, <2>1
<1>4. inbox \in [Conns -> AllKinds \cup {"none"}]
  BY DEF TypeOK
<1>5. Packet(i) => tbl[i].c \in Conns
  BY TypeParts DEF Packet, FdInv
<1>6. /\ inbox' \in [Conns -> AllKinds \cup {"none"}]
      /\ frames' \in Seq(Frame) /\ int_pack' \in Packs /\ hurt' \subseteq 0 .. MaxConns
  <2>1. CASE UNCHANGED <<frames, int_pack, hurt>>
    <3>1. inbox' \in [Conns -> AllKinds \cup {"none"}]
      BY <1>1, <1>4
    <3> QED BY <2>1, <3>1, TypeParts
  <2>2. CASE ~Packet(i) /\ NotifyClosed(i)
    BY <1>1, <1>4, <2>2, NotifyType DEF Frame
  <2>3. CASE /\ Packet(i)
             /\ Call([then |-> "data", i |-> i, c |-> tbl[i].c],
                     Pack("DATA", tbl[i].c, inbox[tbl[i].c]))
    <3>1. tbl[i].c \in 0 .. MaxConns /\ inbox[tbl[i].c] \in AllKinds \cup {"none"}
      BY <1>4, <1>5, <2>3, ConstFacts
    <3>2. /\ [then |-> "data", i |-> i, c |-> tbl[i].c] \in Frame
          /\ Pack("DATA", tbl[i].c, inbox[tbl[i].c]) \in Packs
      BY <3>1 DEF Frame, Packs, Pack
    <3>3. frames' \in Seq(Frame) /\ int_pack' \in Packs /\ hurt' = hurt
      BY <1>1, <2>3, <3>2, CallFacts
    <3> QED BY <1>1, <1>4, <2>3, <3>3, TypeParts
  <2> QED BY <1>1, <2>1, <2>2, <2>3
<1>7. UNCHANGED <<bsd, cnt, pc, evs, open, fdOf, came, nacc, gone, nsent, incoming,
                  toutgoing, tasks, dbvars, ended, late, doubled, timed, asked>>
  BY <1>1
<1> QED BY <1>2, <1>3, <1>6, <1>7 DEF TypeOK, Frame, Entry, dbvars

LEMMA ScanEndType ==
  ASSUME TypeOK, ScanEnd
  PROVE  TypeOK'
<1>1. tbl' \in [Slots -> Entry]
  <2>1. Blank \in Entry
    BY ConstFacts DEF Blank, Entry
  <2>2. \A e \in Entry : [e EXCEPT !.rev = FALSE] \in Entry
    BY DEF Entry
  <2>3. tbl' = [i \in Slots |-> IF i \in Listed THEN [tbl[i] EXCEPT !.rev = FALSE] ELSE Blank]
    BY DEF ScanEnd
  <2> QED BY <2>1, <2>2, <2>3, TypeParts
<1>2. /\ pc' = "timeouts" /\ idx' = 0 /\ evs' = {} /\ budget' = 0
      /\ UNCHANGED <<bsd, cnt, frames, int_pack, open, fdOf, nacc, clvars, incoming, toutgoing,
                     tasks, dbvars, history>>
  BY DEF ScanEnd
<1>3. idx' \in 0 .. MaxTcp /\ budget' \in Nat /\ evs' \subseteq {"tog", "accept"}
  BY <1>2, ConstFacts
<1> QED BY <1>1, <1>2, <1>3 DEF TypeOK, Entry, clvars, dbvars, history

LEMMA TimeoutType ==
  ASSUME TypeOK, NEW i \in Slots, Timeout(i)
  PROVE  TypeOK'
<1>1. i <= cnt /\ RemoveEntry(i, tbl[i].c)
  BY DEF Timeout, Listed
<1>2. /\ tbl' \in [Slots -> Entry] /\ cnt' = cnt - 1 /\ cnt \in Slots
      /\ open' = IF tbl[i].fd = NoFd THEN open ELSE open \ {tbl[i].c}
  BY <1>1, RemoveEntryFacts
<1>3. cnt' \in 0 .. MaxTcp /\ open' \subseteq Conns
  BY <1>2, TypeParts, ConstFacts
<1>4. tbl[i].c \in 0 .. MaxConns
  BY TypeParts DEF Entry
<1>5. timed' \subseteq 0 .. MaxConns
  BY <1>4 DEF Timeout, TypeOK
<1>6. UNCHANGED <<bsd, pc, idx, evs, budget, frames, int_pack, fdOf, nacc, clvars, incoming,
                  toutgoing, tasks, dbvars, hurt, ended, late, doubled, asked>>
  BY DEF Timeout
<1> QED BY <1>2, <1>3, <1>5, <1>6 DEF TypeOK, Entry, clvars, dbvars

\* A handler is a sequence of operations.
LEMMA HandlerType ==
  ASSUME TypeOK, WorkInv, NEW c \in Conns, NEW what \in {"auth", "cookie", "snac", "junk"},
         NEW h \in Handlers(c, what)
  PROVE  h \in Seq(Ops)
<1>0. \A e \in {"DATA", "CLOSE", "OFFLINE", "COOKIE", "UNCOOKIE", "INSERT"}, d \in Conns,
         v \in Uins \cup {0} : Do(e, d, v) \in Ops
  BY DEF Do, Ops
<1>1. Failed(c) \in Seq(Ops)
  BY <1>0 DEF Failed
<1>2. CASE what = "auth"
  <2>1. Handlers(c, what) = UNION {Authorize(c, u) : u \in Uins}
    BY <1>2 DEF Handlers
  <2>2. PICK u \in Uins : h \in Authorize(c, u)
    BY <2>1
  <2>3. CASE h = <<Do("COOKIE", c, u), Do("DATA", c, 0)>>
    BY <1>0, <2>3
  <2>4. ASSUME NEW r \in UserOf(u),
               h = <<Do("DATA", r.c, 0), Do("OFFLINE", c, u), Do("COOKIE", c, u), Do("DATA", c, 0)>>
        PROVE  h \in Seq(Ops)
    <3>1. r.c \in Conns
      BY DEF UserOf, WorkInv, Known
    <3> QED BY <1>0, <2>4, <3>1
  <2> QED BY <1>1, <2>2, <2>3, <2>4 DEF Authorize
<1>3. CASE what = "cookie"
  <2>1. h \in Signon(c) /\ cookies \subseteq Uins
    BY <1>3 DEF Handlers, TypeOK
  <2>2. CASE h = <<Do("CLOSE", c, 0)>>
    BY <1>0, <2>2
  <2>3. ASSUME NEW u \in Uins, h = <<Do("UNCOOKIE", c, u), Do("INSERT", c, u)>>
        PROVE  h \in Seq(Ops)
    BY <1>0, <2>3
  <2> QED BY <2>1, <2>2, <2>3 DEF Signon
<1>4. CASE what \in {"snac", "junk"}
  <2>1. h = <<Do("DATA", c, 0)>> \/ h = <<Do("CLOSE", c, 0)>>
    BY <1>4 DEF Handlers
  <2>2. CASE h = <<Do("DATA", c, 0)>>
    BY <1>0, <2>2
  <2>3. CASE h = <<Do("CLOSE", c, 0)>>
    BY <1>0, <2>3
  <2> QED BY <2>1, <2>2, <2>3
<1> QED BY <1>2, <1>3, <1>4

LEMMA PPTakeType ==
  ASSUME TypeOK, WorkInv, NEW p \in PPs, PPTake(p)
  PROVE  TypeOK'
<1> DEFINE m == Head(incoming)
<1>1. /\ incoming # <<>> /\ incoming' = Tail(incoming)
      /\ UNCHANGED <<bsd, spvars, open, fdOf, nacc, clvars, toutgoing, dbvars, hurt, late,
                     doubled, timed, asked>>
      /\ ended' = IF m.evt = "TERM" THEN ended \cup {m.c} ELSE ended
  BY DEF PPTake
<1>2. /\ m = incoming[1] /\ 1 \in 1 .. Len(incoming)
      /\ incoming' \in Seq(Packs) /\ Len(incoming') = Len(incoming) - 1
  BY <1>1, TypeParts, PopFacts
<1>3. m.c \in Known /\ (m.evt = "DATA" => m.what \in {"auth", "cookie", "snac", "junk"})
  BY <1>2 DEF WorkInv, MessageOn
<1>4. m.c \in Conns /\ m.c \in 0 .. MaxConns
  BY <1>3, ConstFacts DEF Known
<1>5. Len(incoming') <= PipeCap
  BY <1>2, TypeParts, PipesAssumption DEF TypeOK
<1>6. ended' \subseteq 0 .. MaxConns
  BY <1>1, <1>4 DEF TypeOK
<1>7. tasks' \in [PPs -> [c : 0 .. MaxConns, todo : Seq(Ops)]]
  <2>0. tasks \in [PPs -> [c : 0 .. MaxConns, todo : Seq(Ops)]]
    BY DEF TypeOK
  <2>1. ASSUME NEW todo \in Seq(Ops), tasks' = [tasks EXCEPT ![p] = [c |-> m.c, todo |-> todo]]
        PROVE  tasks' \in [PPs -> [c : 0 .. MaxConns, todo : Seq(Ops)]]
    BY <1>4, <2>0, <2>1
  <2>2. CASE tasks' = [tasks EXCEPT ![p] = [c |-> m.c, todo |-> <<Do("DATA", m.c, 0)>>]]
    <3>1. <<Do("DATA", m.c, 0)>> \in Seq(Ops)
      <4>1. Do("DATA", m.c, 0) \in Ops
        BY <1>4 DEF Do, Ops
      <4> QED BY <4>1
    <3> QED BY <2>1, <2>2, <3>1
  <2>3. ASSUME NEW r \in SessionOf(m.c),
               tasks' = [tasks EXCEPT ![p] = [c |-> m.c, todo |-> <<Do("OFFLINE", m.c, r.uin)>>]]
        PROVE  tasks' \in [PPs -> [c : 0 .. MaxConns, todo : Seq(Ops)]]
    <3>1. <<Do("OFFLINE", m.c, r.uin)>> \in Seq(Ops)
      <4>1. r.uin \in Uins
        BY DEF SessionOf, TypeOK
      <4>2. Do("OFFLINE", m.c, r.uin) \in Ops
        BY <1>4, <4>1 DEF Do, Ops
      <4> QED BY <4>2
    <3> QED BY <2>1, <2>3, <3>1
  <2>4. CASE UNCHANGED tasks
    BY <2>0, <2>4
  <2>5. ASSUME m.evt = "DATA",
               NEW h \in Handlers(m.c, m.what),
               tasks' = [tasks EXCEPT ![p] = [c |-> m.c, todo |-> h]]
        PROVE  tasks' \in [PPs -> [c : 0 .. MaxConns, todo : Seq(Ops)]]
    <3>1. h \in Seq(Ops)
      <4> HIDE DEF m
      <4> QED BY <1>3, <1>4, <2>5, HandlerType
    <3> QED BY <2>1, <2>5, <3>1
  <2> QED BY <2>2, <2>3, <2>4, <2>5 DEF PPTake
<1> HIDE DEF m
<1> QED BY <1>1, <1>2, <1>5, <1>6, <1>7 DEF TypeOK, spvars, clvars, dbvars

\* The operation at hand, and what is left of a handler.
LEMMA OpFacts ==
  ASSUME TypeOK, WorkInv, NEW p \in PPs, tasks[p].todo # <<>>
  PROVE  /\ Op(p) \in Ops /\ Op(p) = tasks[p].todo[1] /\ OpOn(Known, Op(p))
         /\ Op(p).c \in Conns
         /\ Tail(tasks[p].todo) \in Seq(Ops)
         /\ \A k \in 1 .. Len(Tail(tasks[p].todo)) : OpOn(Known, Tail(tasks[p].todo)[k])
         /\ tasks[p].c \in 0 .. MaxConns
<1> DEFINE s == tasks[p].todo
<1>1. s \in Seq(Ops) /\ s # <<>> /\ tasks[p].c \in 0 .. MaxConns
  BY DEF TypeOK
<1>2. \A k \in 1 .. Len(s) : OpOn(Known, s[k])
  BY DEF WorkInv
<1>3. /\ Head(s) = s[1] /\ s[1] \in Ops /\ Tail(s) \in Seq(Ops)
      /\ Len(s) \in Nat \ {0} /\ Len(Tail(s)) = Len(s) - 1
      /\ \A k \in 1 .. Len(s) - 1 : Tail(s)[k] = s[k + 1]
  <2> HIDE DEF s
  <2> QED BY <1>1, PopFacts
<1>4. OpOn(Known, s[1]) /\ \A k \in 1 .. Len(Tail(s)) : OpOn(Known, Tail(s)[k])
  <2> HIDE DEF s, OpOn
  <2>1. 1 \in 1 .. Len(s) /\ \A k \in 1 .. Len(Tail(s)) : k + 1 \in 1 .. Len(s) /\ k \in 1 .. Len(s) - 1
    BY <1>3
  <2> QED BY <1>2, <1>3, <2>1
<1>5. s[1].c \in Conns
  BY <1>4 DEF OpOn, Known
<1> QED BY <1>1, <1>3, <1>4, <1>5 DEF Op

LEMMA ThenType ==
  ASSUME TypeOK, NEW p \in PPs, NEW todo \in Seq(Ops), Then(p, todo)
  PROVE  tasks' \in [PPs -> [c : 0 .. MaxConns, todo : Seq(Ops)]]
<1>1. Rest \in [c : 0 .. MaxConns, todo : Seq(Ops)]
  BY ConstFacts DEF Rest
<1>2. [c |-> tasks[p].c, todo |-> todo] \in [c : 0 .. MaxConns, todo : Seq(Ops)]
  BY DEF TypeOK
<1> QED BY <1>1, <1>2 DEF TypeOK, Then

LEMMA WriteBackType ==
  ASSUME TypeOK, NEW m \in Packs, WriteBack(m)
  PROVE  /\ toutgoing' \in Seq(Packs) /\ Len(toutgoing') <= PipeCap
         /\ \A j \in 1 .. Len(toutgoing') :
              toutgoing'[j] = m \/ (j \in 1 .. Len(toutgoing) /\ toutgoing'[j] = toutgoing[j])
<1>1. CASE UNCHANGED toutgoing
  BY <1>1 DEF TypeOK
<1>2. CASE Len(toutgoing) < PipeCap /\ toutgoing' = Append(toutgoing, m)
  <2>1. /\ toutgoing' \in Seq(Packs) /\ Len(toutgoing') = Len(toutgoing) + 1
        /\ toutgoing'[Len(toutgoing) + 1] = m
        /\ \A k \in 1 .. Len(toutgoing) : toutgoing'[k] = toutgoing[k]
    BY <1>2, TypeParts, QueueFacts
  <2> QED BY <1>2, <2>1, TypeParts, PipesAssumption
<1> QED BY <1>1, <1>2 DEF WriteBack

LEMMA PPStepType ==
  ASSUME TypeOK, WorkInv, NEW p \in PPs, PPStep(p)
  PROVE  TypeOK'
<1> DEFINE Tasks == [PPs -> [c : 0 .. MaxConns, todo : Seq(Ops)]]
<1>1. CASE PPTake(p)
  BY <1>1, PPTakeType
<1>2. ASSUME tasks[p].todo # <<>>
      PROVE  Advance(p) => tasks' \in Tasks
  <2>1. Tail(tasks[p].todo) \in Seq(Ops)
    BY <1>2, OpFacts
  <2> QED BY <2>1, ThenType DEF Advance
<1>3. ASSUME NEW evt \in {"DATA", "RDY", "TERM"}, tasks[p].todo # <<>>,
             WriteBack(Pack(evt, Op(p).c, "none"))
      PROVE  toutgoing' \in Seq(Packs) /\ Len(toutgoing') <= PipeCap
  <2>1. Pack(evt, Op(p).c, "none") \in Packs
    BY <1>3, OpFacts, ConstFacts DEF Pack, Packs
  <2> QED BY <1>3, <2>1, WriteBackType
<1>4. ASSUME NEW u, MoveOffline(u)
      PROVE  online' \subseteq online /\ odb' \subseteq odb
  BY <1>4 DEF MoveOffline
<1>5. CASE PPReply(p)
  <2>1. /\ tasks[p].todo # <<>> /\ Advance(p) /\ Op(p).evt \in {"DATA", "RDY", "TERM"}
        /\ WriteBack(Pack(Op(p).evt, Op(p).c, "none"))
        /\ UNCHANGED <<bsd, spvars, open, fdOf, nacc, clvars, incoming, dbvars, history>>
    BY <1>5 DEF PPReply, Doing
  <2>2. tasks' \in Tasks /\ toutgoing' \in Seq(Packs) /\ Len(toutgoing') <= PipeCap
    BY <1>2, <1>3, <2>1
  <2> QED BY <2>1, <2>2 DEF TypeOK, spvars, clvars, dbvars, history
<1>6. CASE CloseConnection(p)
  <2>1. /\ tasks[p].todo # <<>> /\ Advance(p)
        /\ UNCHANGED <<bsd, spvars, open, fdOf, nacc, clvars, incoming, hurt, ended, late,
                       doubled, timed>>
    BY <1>6 DEF CloseConnection, Doing
  <2>2. tasks' \in Tasks
    BY <1>2, <2>1
  <2>3. /\ toutgoing' \in Seq(Packs) /\ Len(toutgoing') <= PipeCap
        /\ asked' \subseteq 0 .. MaxConns
        /\ online' \subseteq online /\ odb' \subseteq odb /\ cookies' = cookies
    <3>1. CASE /\ \E r \in SessionOf(Op(p).c) : MoveOffline(r.uin)
               /\ UNCHANGED <<toutgoing, cookies, asked>>
      BY <1>4, <3>1 DEF TypeOK
    <3>2. CASE /\ WriteBack(Pack("TERM", Op(p).c, "none"))
               /\ asked' = asked \cup {Op(p).c}
               /\ UNCHANGED dbvars
      <4>1. Op(p).c \in 0 .. MaxConns
        BY <2>1, OpFacts, ConstFacts
      <4>2. asked' \subseteq 0 .. MaxConns
        BY <3>2, <4>1 DEF TypeOK
      <4> QED BY <1>3, <2>1, <3>2, <4>2 DEF dbvars
    <3> QED BY <1>6, <3>1, <3>2 DEF CloseConnection
  <2> QED BY <2>1, <2>2, <2>3 DEF TypeOK, spvars, clvars
<1>7. CASE PPOffline(p)
  <2>1. /\ tasks[p].todo # <<>> /\ Advance(p) /\ MoveOffline(Op(p).uin)
        /\ UNCHANGED <<bsd, spvars, open, fdOf, nacc, clvars, incoming, toutgoing, cookies,
                       history>>
    BY <1>7 DEF PPOffline, Doing
  <2>2. tasks' \in Tasks /\ online' \subseteq online /\ odb' \subseteq odb
    BY <1>2, <1>4, <2>1
  <2> QED BY <2>1, <2>2 DEF TypeOK, spvars, clvars, history
<1>8. CASE PPCookie(p)
  <2>1. /\ tasks[p].todo # <<>> /\ Advance(p) /\ Op(p).evt \in {"COOKIE", "UNCOOKIE"}
        /\ cookies' = IF Op(p).evt = "COOKIE" THEN cookies \cup {Op(p).uin}
                                              ELSE cookies \ {Op(p).uin}
        /\ UNCHANGED <<bsd, spvars, open, fdOf, nacc, clvars, incoming, toutgoing, online, odb,
                       history>>
    BY <1>8 DEF PPCookie, Doing
  <2>2. Op(p).uin \in Uins
    BY <2>1, OpFacts DEF OpOn
  <2>3. tasks' \in Tasks /\ cookies' \subseteq Uins
    BY <1>2, <2>1, <2>2 DEF TypeOK
  <2> QED BY <2>1, <2>3 DEF TypeOK, spvars, clvars, history
<1>9. CASE PPInsert(p)
  <2>1. tasks[p].todo # <<>> /\ Op(p).evt = "INSERT"
    BY <1>9 DEF PPInsert, Doing
  <2>2. Op(p).uin \in Uins /\ Op(p).c \in Conns /\ Op(p).c \in 0 .. MaxConns
    BY <2>1, OpFacts, ConstFacts DEF OpOn
  <2>3. tasks' \in Tasks
    <3>1. \A e \in {"DATA", "RDY", "CLOSE"} : Do(e, Op(p).c, 0) \in Ops
      BY <2>2 DEF Do, Ops
    <3>2. <<Do("RDY", Op(p).c, 0)>> \in Seq(Ops)
      BY <3>1
    <3>3. <<Do("DATA", Op(p).c, 0), Do("CLOSE", Op(p).c, 0), Do("CLOSE", Op(p).c, 0)>> \in Seq(Ops)
      BY <3>1
    <3>4. \E todo \in Seq(Ops) : Then(p, todo)
      BY <1>9, <3>2, <3>3 DEF PPInsert
    <3> QED BY <3>4, ThenType
  <2>4. /\ online' \subseteq [c : Conns, uin : Uins] /\ odb' \subseteq Uins
        /\ late' \subseteq 0 .. MaxConns
    BY <1>9, <2>2 DEF PPInsert, TypeOK
  <2>5. doubled' \subseteq Uins
    <3>1. \A r \in UserOf(Op(p).uin) \cup SessionOf(Op(p).c) : r.uin \in Uins
      BY DEF UserOf, SessionOf, TypeOK
    <3>2. \/ doubled' = doubled
          \/ doubled' = doubled \cup {Op(p).uin}
                          \cup {r.uin : r \in UserOf(Op(p).uin) \cup SessionOf(Op(p).c)}
      BY <1>9 DEF PPInsert
    <3>3. {r.uin : r \in UserOf(Op(p).uin) \cup SessionOf(Op(p).c)} \subseteq Uins
      BY <3>1
    <3>4. doubled \subseteq Uins
      BY DEF TypeOK
    <3> QED BY <2>2, <3>2, <3>3, <3>4
  <2>6. UNCHANGED <<bsd, spvars, open, fdOf, nacc, clvars, incoming, toutgoing, cookies, hurt,
                    ended, timed, asked>>
    BY <1>9 DEF PPInsert
  <2> QED BY <2>3, <2>4, <2>5, <2>6 DEF TypeOK, spvars, clvars
<1> QED BY <1>1, <1>5, <1>6, <1>7, <1>8, <1>9 DEF PPStep

LEMMA TypeStep ==
  ASSUME TypeOK, IInv, [Next]_vars
  PROVE  TypeOK'
<1>0. FramesInv /\ FdInv /\ CauseInv /\ WorkInv
  BY DEF IInv
<1>1. CASE SpipeSend
  BY <1>0, <1>1, SpipeSendType
<1>2. CASE SpipeWait
  BY <1>0, <1>2, TogType DEF SpipeWait
<1>3. CASE Poll
  BY <1>3, PollType
<1>4. CASE RoundTog
  BY <1>0, <1>4, TogType DEF RoundTog
<1>5. CASE TogDone
  <2>1. budget' \in Nat
    BY <1>0, <1>5 DEF TogDone, FramesInv, TypeOK
  <2>2. /\ pc' = "accept"
        /\ UNCHANGED <<bsd, tbl, cnt, idx, evs, frames, int_pack, open, fdOf, nacc, clvars,
                       incoming, toutgoing, tasks, dbvars, history>>
    BY <1>5 DEF TogDone
  <2> QED BY <2>1, <2>2 DEF TypeOK, clvars, dbvars, history
<1>6. CASE Accept
  BY <1>0, <1>6, AcceptType
<1>7. CASE ScanBegin
  BY <1>7, ConstFacts DEF ScanBegin, TypeOK, clvars, dbvars, history
<1>8. CASE Scan
  BY <1>0, <1>8, ScanType
<1>9. CASE ScanEnd
  BY <1>9, ScanEndType
<1>10. CASE RoundEnd
  BY <1>10 DEF RoundEnd, TypeOK, clvars, dbvars, history
<1>11. ASSUME NEW i \in Slots, Timeout(i) PROVE TypeOK'
  BY <1>11, TimeoutType
<1>12. ASSUME NEW p \in PPs, PPStep(p) PROVE TypeOK'
  BY <1>0, <1>12, PPStepType
<1>13. CASE Connect
  <2>1. came' \in 0 .. MaxConns /\ nacc' \in 0 .. came'
    BY <1>13, ConstFacts DEF Connect, TypeOK
  <2> QED BY <1>13, <2>1 DEF Connect, TypeOK, spvars, dbvars, history
<1>14. ASSUME NEW c \in Conns, Hangup(c) PROVE TypeOK'
  BY <1>14 DEF Hangup, TypeOK, spvars, dbvars, history
<1>15. ASSUME NEW c \in Conns, NEW k \in Kinds, ClientSend(c, k) PROVE TypeOK'
  <2>1. nsent' \in 0 .. MaxSends
    BY <1>15, ConnsAssumption DEF ClientSend, TypeOK
  <2>2. inbox' \in [Conns -> AllKinds \cup {"none"}]
    BY <1>15, FlagsAssumption DEF ClientSend, TypeOK
  <2> QED BY <1>15, <2>1, <2>2 DEF ClientSend, TypeOK, spvars, dbvars, history
<1>16. CASE UNCHANGED vars
  BY <1>16 DEF TypeOK, vars, spvars, clvars, dbvars, history
<1> QED BY <1>1, <1>2, <1>3, <1>4, <1>5, <1>6, <1>7, <1>8, <1>9, <1>10, <1>11, <1>12, <1>13,
           <1>14, <1>15, <1>16 DEF Next, SPStep, ClientStep

----------------------------------------------------------------------------
(* SP's pending calls. *)

\* A call that is pushed is the closing of a connection, or it is the only one; the one
\* below it has lost its packet.
LEMMA PushFrame ==
  ASSUME TypeOK, FramesInv, PackInv, NEW f \in Frame, NEW pack \in Packs, Call(f, pack),
         f.then = "close" \/ frames = <<>>
  PROVE  /\ frames' # <<>> /\ frames'[1] = f /\ int_pack' = pack /\ hurt \subseteq hurt'
         /\ \A k \in 1 .. Len(frames') : k < Len(frames') => frames'[k].then = "close"
         /\ \A k \in 1 .. Len(frames') : k > 1 => frames'[k].c \in hurt'
         /\ LastFrame' = IF frames = <<>> THEN f ELSE LastFrame
<1>1. /\ frames' # <<>> /\ Len(frames) \in Nat /\ Len(frames') = Len(frames) + 1
      /\ frames'[1] = f
      /\ \A k \in 1 .. Len(frames) : frames'[k + 1] = frames[k]
      /\ int_pack' = pack
      /\ hurt' = IF frames = <<>> THEN hurt ELSE hurt \cup {int_pack.c}
  BY CallFacts
<1>2. frames = <<>> <=> Len(frames) = 0
  BY TypeParts, EmptySeq
<1>3. ASSUME NEW k \in 1 .. Len(frames'), k > 1
      PROVE  k - 1 \in 1 .. Len(frames) /\ frames'[k] = frames[k - 1]
  <2>1. k - 1 \in 1 .. Len(frames) /\ (k - 1) + 1 = k
    BY <1>1, <1>3
  <2> QED BY <1>1, <2>1
<1>4. ASSUME NEW k \in 1 .. Len(frames'), k < Len(frames')
      PROVE  frames'[k].then = "close"
  <2>1. CASE k = 1
    <3>1. frames # <<>>
      BY <1>1, <1>2, <1>4, <2>1
    <3> QED BY <1>1, <2>1, <3>1
  <2>2. CASE k > 1
    <3>1. k - 1 \in 1 .. Len(frames) /\ k - 1 < Len(frames) /\ frames'[k] = frames[k - 1]
      BY <1>1, <1>3, <1>4, <2>2
    <3> QED BY <3>1 DEF FramesInv
  <2> QED BY <1>1, <1>4, <2>1, <2>2
<1>5. ASSUME NEW k \in 1 .. Len(frames'), k > 1
      PROVE  frames'[k].c \in hurt'
  <2>1. k - 1 \in 1 .. Len(frames) /\ frames'[k] = frames[k - 1] /\ frames # <<>>
    BY <1>1, <1>2, <1>3, <1>5
  <2>2. CASE k - 1 > 1
    BY <1>1, <2>1, <2>2 DEF FramesInv
  <2>3. CASE k - 1 = 1
    BY <1>1, <2>1, <2>3 DEF PackInv
  <2> QED BY <1>1, <2>1, <2>2, <2>3
<1>6. LastFrame' = IF frames = <<>> THEN f ELSE LastFrame
  <2>1. CASE frames = <<>>
    BY <1>1, <1>2, <2>1 DEF LastFrame
  <2>2. CASE frames # <<>>
    <3>1. Len(frames) \in 1 .. Len(frames)
      BY <1>1, <1>2, <2>2
    <3> QED BY <1>1, <2>2, <3>1 DEF LastFrame
  <2> QED BY <2>1, <2>2
<1>7. hurt \subseteq hurt'
  BY <1>1
<1> QED BY <1>1, <1>4, <1>5, <1>6, <1>7

\* A call that returns below others was the closing of a connection, and the next one has
\* lost its packet.
LEMMA PopFrame ==
  ASSUME TypeOK, FramesInv, SpipeSend
  PROVE  /\ frames # <<>> /\ frames[1] \in Frame /\ Head(frames) = frames[1]
         /\ hurt \subseteq hurt'
         /\ frames' = <<>> => LastFrame = frames[1]
         /\ frames' # <<>> => /\ frames[1].then = "close"
                              /\ frames'[1].c \in hurt'
                              /\ LastFrame' = LastFrame
         /\ \A k \in 1 .. Len(frames') : k < Len(frames') => frames'[k].then = "close"
         /\ \A k \in 1 .. Len(frames') : k > 1 => frames'[k].c \in hurt'
<1>1. frames # <<>> /\ frames' = Tail(frames) /\ hurt \subseteq hurt'
  BY DEF SpipeSend
<1>2. /\ Head(frames) = frames[1] /\ frames[1] \in Frame
      /\ Len(frames) \in Nat \ {0} /\ Len(frames') = Len(frames) - 1
      /\ frames' = <<>> <=> Len(frames) = 1
      /\ \A k \in 1 .. Len(frames) - 1 : frames'[k] = frames[k + 1]
  BY <1>1, TypeParts, PopFacts
<1>3. \A k \in 1 .. Len(frames') : /\ k + 1 \in 1 .. Len(frames) /\ k + 1 > 1
                                   /\ frames'[k] = frames[k + 1]
                                   /\ k < Len(frames') => k + 1 < Len(frames)
  BY <1>2
<1>4. /\ \A k \in 1 .. Len(frames') : k < Len(frames') => frames'[k].then = "close"
      /\ \A k \in 1 .. Len(frames') : frames'[k].c \in hurt'
  BY <1>1, <1>3 DEF FramesInv
<1>5. frames' = <<>> => LastFrame = frames[1]
  BY <1>2 DEF LastFrame
<1>6. ASSUME frames' # <<>>
      PROVE  frames[1].then = "close" /\ frames'[1].c \in hurt' /\ LastFrame' = LastFrame
  <2>1. Len(frames') \in Nat \ {0} /\ 1 < Len(frames) /\ 1 \in 1 .. Len(frames)
    BY <1>2, <1>6
  <2>2. 1 \in 1 .. Len(frames') /\ Len(frames') \in 1 .. Len(frames')
    BY <2>1
  <2>3. frames[1].then = "close"
    BY <2>1 DEF FramesInv
  <2>4. LastFrame' = LastFrame
    <3>1. Len(frames') + 1 = Len(frames)
      BY <1>2
    <3> QED BY <1>3, <2>2, <3>1 DEF LastFrame
  <2> QED BY <1>4, <2>2, <2>3, <2>4
<1> QED BY <1>1, <1>2, <1>4, <1>5, <1>6

\* The closing of a connection is pushed.
LEMMA PushClose ==
  ASSUME TypeOK, FramesInv, PackInv, NEW i \in Slots, NotifyClosed(i)
  PROVE  /\ frames' # <<>>
         /\ frames'[1] = [then |-> "close", i |-> i, c |-> tbl[i].c]
         /\ int_pack' = Pack("TERM", tbl[i].c, "none")
         /\ hurt \subseteq hurt'
         /\ \A k \in 1 .. Len(frames') : k < Len(frames') => frames'[k].then = "close"
         /\ \A k \in 1 .. Len(frames') : k > 1 => frames'[k].c \in hurt'
         /\ LastFrame' = IF frames = <<>> THEN [then |-> "close", i |-> i, c |-> tbl[i].c]
                                          ELSE LastFrame
BY NotifyFacts, PushFrame

LEMMA FramesStep ==
  ASSUME TypeOK, IInv, [Next]_vars
  PROVE  FramesInv'
<1>0. FramesInv /\ PackInv
  BY DEF IInv
<1>1. CASE SpipeSend
  <2>1. UNCHANGED <<pc, idx, evs, budget>>
    BY <1>1 DEF SpipeSend
  <2>2. pc = "tog" => budget > 0
    BY <1>0 DEF FramesInv
  <2>3. CASE frames' = <<>>
    <3>1. Len(frames') = 0
      BY <2>3
    <3> QED BY <1>0, <1>1, <2>1, <2>2, <2>3, <3>1 DEF FramesInv
  <2>4. CASE frames' # <<>>
    <3>1. /\ frames # <<>> /\ frames[1].then = "close" /\ LastFrame' = LastFrame
          /\ \A k \in 1 .. Len(frames') : k < Len(frames') => frames'[k].then = "close"
          /\ \A k \in 1 .. Len(frames') : k > 1 => frames'[k].c \in hurt'
          /\ Head(frames) = frames[1]
      BY <1>0, <1>1, <2>4, PopFrame
    <3>2. cnt' = cnt \/ cnt' = cnt - 1
      BY <1>1, <3>1 DEF SpipeSend, RemoveEntry
    <3>3. LastFrame.then = "accept" => cnt' < LastFrame.i
      <4>1. LastFrame.i \in Nat /\ cnt \in Nat
        <5>1. LastFrame \in Frame
          BY <3>1, TypeParts, EmptySeq, ElementOfSeq DEF LastFrame
        <5> QED BY <5>1, TypeParts, ConstFacts DEF Frame
      <4>2. LastFrame.then = "accept" => cnt < LastFrame.i
        BY <1>0, <3>1 DEF FramesInv
      <4> QED BY <3>2, <4>1, <4>2
    <3>4. /\ pc \in {"tog", "accept", "scan"}
          /\ pc = "accept" => "accept" \notin evs
          /\ LastFrame.then = "accept" => pc = "accept" /\ LastFrame.i <= MaxTcp
          /\ pc = "scan" => LastFrame.i > idx
      BY <1>0, <3>1 DEF FramesInv
    <3> QED BY <2>1, <2>2, <3>1, <3>3, <3>4 DEF FramesInv
  <2> QED BY <2>3, <2>4
<1>2. ASSUME TogProcess, UNCHANGED <<pc, idx, budget>>, frames # <<>> \/ pc = "tog"
      PROVE  FramesInv'
  <2>1. UNCHANGED <<cnt, evs>>
    BY <1>2 DEF TogProcess
  <2>2. CASE UNCHANGED <<frames, int_pack, hurt>>
    BY <1>0, <1>2, <2>1, <2>2 DEF FramesInv, LastFrame
  <2>3. ASSUME NEW i \in Listed, NotifyClosed(i) PROVE FramesInv'
    <3>1. i \in Slots
      BY DEF Listed
    <3> DEFINE f == [then |-> "close", i |-> i, c |-> tbl[i].c]
    <3>2. /\ frames' # <<>>
          /\ \A k \in 1 .. Len(frames') : k < Len(frames') => frames'[k].then = "close"
          /\ \A k \in 1 .. Len(frames') : k > 1 => frames'[k].c \in hurt'
          /\ LastFrame' = IF frames = <<>> THEN f ELSE LastFrame
      BY <1>0, <2>3, <3>1, PushClose
    <3>3. f.then # "accept"
      OBVIOUS
    <3> HIDE DEF f
    <3> QED BY <1>0, <1>2, <2>1, <3>2, <3>3 DEF FramesInv
  <2> QED BY <1>0, <1>2, <2>2, <2>3, TogFacts DEF IInv
<1>3. CASE Poll
  BY <1>0, <1>3, PollType DEF Poll, FramesInv
<1>4. CASE TogDone
  BY <1>0, <1>4, EmptySeq DEF TogDone, FramesInv
<1>5. CASE Accept
  <2>1. /\ frames = <<>> /\ pc = "accept" /\ pc' = pc /\ cnt' = cnt /\ idx' = idx
        /\ evs' = evs \ {"accept"}
    BY <1>0, <1>5 DEF Accept, FramesInv
  <2>2. CASE UNCHANGED <<frames, hurt>>
    BY <1>0, <2>1, <2>2 DEF FramesInv
  <2>3. CASE /\ ~(cnt + 1 > MaxTcp)
             /\ Call([then |-> "accept", i |-> cnt + 1, c |-> nacc'], Pack("NEW", nacc', "none"))
    <3> DEFINE f == [then |-> "accept", i |-> cnt + 1, c |-> nacc']
    <3>0. nacc < MaxConns /\ nacc' = nacc + 1
      BY <1>5, TypeParts, ConstFacts DEF Accept, IInv, FdInv
    <3>1. f \in Frame /\ Pack("NEW", nacc', "none") \in Packs /\ cnt < cnt + 1 /\ cnt + 1 <= MaxTcp
      BY SMTT(30), <2>3, <3>0, TypeParts, ConstFacts DEF Frame, Packs, Pack
    <3>2. /\ frames' # <<>> /\ LastFrame' = f
          /\ \A k \in 1 .. Len(frames') : k < Len(frames') => frames'[k].then = "close"
          /\ \A k \in 1 .. Len(frames') : k > 1 => frames'[k].c \in hurt'
      BY <1>0, <2>1, <2>3, <3>1, PushFrame
    <3>3. f.then = "accept" /\ f.i = cnt + 1
      OBVIOUS
    <3> HIDE DEF f
    <3> QED BY <2>1, <3>1, <3>2, <3>3 DEF FramesInv
  <2> QED BY <1>5, <2>2, <2>3 DEF Accept
<1>6. CASE ScanBegin
  BY <1>0, <1>6, EmptySeq DEF ScanBegin, FramesInv
<1>7. CASE Scan
  <2>1. PICK i \in Slots :
           /\ i \in 1 .. idx /\ frames = <<>> /\ pc = "scan" /\ idx' = i - 1
           /\ UNCHANGED <<cnt, pc, evs, open, fdOf>>
           /\ \/ UNCHANGED <<frames, int_pack, hurt>>
              \/ /\ Packet(i)
                 /\ Call([then |-> "data", i |-> i, c |-> tbl[i].c],
                         Pack("DATA", tbl[i].c, inbox[tbl[i].c]))
              \/ NotifyClosed(i)
    BY <1>7, ScanFacts
  <2>2. i - 1 < i
    BY <2>1, TypeParts
  <2>3. CASE UNCHANGED <<frames, int_pack, hurt>>
    BY <1>0, <2>1, <2>3, EmptySeq DEF FramesInv
  <2>4. CASE NotifyClosed(i)
    <3> DEFINE f == [then |-> "close", i |-> i, c |-> tbl[i].c]
    <3>1. /\ frames' # <<>> /\ LastFrame' = f
          /\ \A k \in 1 .. Len(frames') : k < Len(frames') => frames'[k].then = "close"
          /\ \A k \in 1 .. Len(frames') : k > 1 => frames'[k].c \in hurt'
      BY <1>0, <2>1, <2>4, PushClose
    <3>2. f.then = "close" /\ f.i = i
      OBVIOUS
    <3> HIDE DEF f
    <3> QED BY <2>1, <2>2, <3>1, <3>2 DEF FramesInv
  <2>5. CASE /\ Packet(i)
             /\ Call([then |-> "data", i |-> i, c |-> tbl[i].c],
                     Pack("DATA", tbl[i].c, inbox[tbl[i].c]))
    <3> DEFINE f == [then |-> "data", i |-> i, c |-> tbl[i].c]
    <3>0. tbl[i].c \in Conns /\ tbl[i].c \in 0 .. MaxConns
      BY <2>5, TypeParts, ConstFacts DEF Packet, IInv, FdInv
    <3>1. f \in Frame /\ Pack("DATA", tbl[i].c, inbox[tbl[i].c]) \in Packs
      <4>1. inbox[tbl[i].c] \in AllKinds \cup {"none"}
        BY <3>0 DEF TypeOK
      <4> QED BY <3>0, <4>1 DEF Frame, Packs, Pack
    <3>2. /\ frames' # <<>> /\ LastFrame' = f
          /\ \A k \in 1 .. Len(frames') : k < Len(frames') => frames'[k].then = "close"
          /\ \A k \in 1 .. Len(frames') : k > 1 => frames'[k].c \in hurt'
      BY <1>0, <2>1, <2>5, <3>1, PushFrame
    <3>3. f.then = "data" /\ f.i = i
      OBVIOUS
    <3> HIDE DEF f
    <3> QED BY <2>1, <2>2, <3>2, <3>3 DEF FramesInv
  <2> QED BY <2>1, <2>3, <2>4, <2>5
<1>8. CASE ScanEnd
  BY <1>0, <1>8, EmptySeq DEF ScanEnd, FramesInv
<1>9. CASE RoundEnd
  BY <1>0, <1>9 DEF RoundEnd, FramesInv
<1>10. ASSUME NEW i \in Slots, Timeout(i) PROVE FramesInv'
  BY <1>0, <1>10, EmptySeq DEF Timeout, FramesInv
<1>11. CASE SPKeeps
  BY <1>0, <1>11 DEF SPKeeps, FramesInv, LastFrame, spvars
<1>12. CASE UNCHANGED vars
  BY <1>0, <1>12 DEF FramesInv, LastFrame, vars, spvars, history
<1> QED BY <1>1, <1>2, <1>3, <1>4, <1>5, <1>6, <1>7, <1>8, <1>9, <1>10, <1>11, <1>12,
           OutsideFacts DEF Next, SPStep, SpipeWait, RoundTog

----------------------------------------------------------------------------
(* What int_pack holds; descriptors. *)

\* What accepting a connection does.
LEMMA AcceptFacts ==
  ASSUME TypeOK, FramesInv, FdInv, Accept
  PROVE  /\ frames = <<>> /\ pc = "accept" /\ nacc' = nacc + 1 /\ nacc' \in Conns
         /\ nacc' <= came /\ evs' = evs \ {"accept"} /\ hurt' = hurt
         /\ UNCHANGED <<bsd, pc, cnt, idx, clvars, incoming, toutgoing, tasks, dbvars,
                        ended, late, doubled, timed, asked>>
         /\ \/ UNCHANGED <<tbl, frames, int_pack, open, fdOf>>
            \/ /\ cnt + 1 \in Slots /\ cnt + 1 <= MaxTcp
               /\ open' = open \cup {nacc'}
               /\ fdOf'[nacc'] # NoFd /\ \A c \in open : fdOf[c] # fdOf'[nacc']
               /\ \A c \in Conns : c # nacc' => fdOf'[c] = fdOf[c]
               /\ tbl'[cnt + 1] = [c |-> nacc', fd |-> fdOf'[nacc'], started |-> 2, rev |-> FALSE]
               /\ \A k \in Slots : k # cnt + 1 => tbl'[k] = tbl[k]
               /\ frames' # <<>>
               /\ frames'[1] = [then |-> "accept", i |-> cnt + 1, c |-> nacc']
               /\ LastFrame' = frames'[1]
               /\ int_pack' = Pack("NEW", nacc', "none")
<1>1. nacc < came /\ nacc < MaxConns /\ nacc' = nacc + 1 /\ frames = <<>> /\ pc = "accept"
  BY TypeParts, ConstFacts DEF Accept, FdInv, FramesInv
<1>2. nacc' \in Conns /\ nacc' <= came
  BY SMTT(30), <1>1, TypeParts, ConstFacts
<1>3. LowestFd \in 1 .. MaxConns /\ \A c \in open : fdOf[c] # LowestFd
  BY <1>1, LowestFdIsFree
<1>4. /\ evs' = evs \ {"accept"}
      /\ UNCHANGED <<bsd, pc, cnt, idx, clvars, incoming, toutgoing, tasks, dbvars,
                     ended, late, doubled, timed, asked>>
  BY DEF Accept
<1>5. CASE cnt + 1 > MaxTcp
  BY <1>1, <1>2, <1>4, <1>5 DEF Accept
<1>6. CASE ~(cnt + 1 > MaxTcp)
  <2> DEFINE f == [then |-> "accept", i |-> cnt + 1, c |-> nacc']
             e == [c |-> nacc', fd |-> LowestFd, started |-> 2, rev |-> FALSE]
  <2>1. /\ open' = open \cup {nacc'}
        /\ fdOf' = [fdOf EXCEPT ![nacc'] = LowestFd]
        /\ tbl' = [tbl EXCEPT ![cnt + 1] = e]
        /\ Call(f, Pack("NEW", nacc', "none"))
    BY <1>6 DEF Accept
  <2>2. cnt + 1 \in Slots /\ cnt + 1 <= MaxTcp
    BY <1>6, TypeParts, ConstFacts
  <2>3. f \in Frame /\ Pack("NEW", nacc', "none") \in Packs
    BY <1>2, <2>2, ConstFacts DEF Frame, Packs, Pack
  <2>4. /\ frames' # <<>> /\ frames'[1] = f /\ int_pack' = Pack("NEW", nacc', "none")
        /\ hurt' = hurt /\ Len(frames') = Len(frames) + 1 /\ Len(frames) = 0
    BY <1>1, <2>1, <2>3, CallFacts, EmptySeq
  <2>5. LastFrame' = frames'[1]
    BY <2>4 DEF LastFrame
  <2>6. fdOf'[nacc'] = LowestFd /\ \A c \in Conns : c # nacc' => fdOf'[c] = fdOf[c]
    BY <1>2, <2>1, TypeParts
  <2>7. tbl'[cnt + 1] = e /\ \A k \in Slots : k # cnt + 1 => tbl'[k] = tbl[k]
    BY <2>1, <2>2, TypeParts
  <2>8. LowestFd # NoFd
    BY <1>3, ConstFacts
  <2> QED BY <1>1, <1>2, <1>3, <1>4, <2>1, <2>2, <2>4, <2>5, <2>6, <2>7, <2>8
<1> QED BY <1>5, <1>6

LEMMA PackStep ==
  ASSUME TypeOK, IInv, [Next]_vars
  PROVE  PackInv'
<1>0. FramesInv /\ PackInv /\ FdInv /\ ListedInv /\ CauseInv
  BY DEF IInv
<1>1. CASE SpipeSend
  <2>1. frames # <<>> /\ fdOf' = fdOf /\ (frames' # <<>> => int_pack' = int_pack)
    BY <1>1 DEF SpipeSend
  <2>2. frames' # <<>> => frames'[1].c \in hurt'
    BY <1>0, <1>1, PopFrame
  <2> QED BY <1>0, <2>1, <2>2 DEF PackInv
<1>2. ASSUME NEW i \in Listed, NotifyClosed(i), UNCHANGED fdOf PROVE PackInv'
  <2>1. i \in Slots /\ tbl[i].c \in Conns /\ fdOf[tbl[i].c] # NoFd
    BY <1>0 DEF ListedInv, Listed
  <2>2. /\ frames'[1] = [then |-> "close", i |-> i, c |-> tbl[i].c]
        /\ int_pack' = Pack("TERM", tbl[i].c, "none")
    BY <1>0, <1>2, <2>1, PushClose
  <2> QED BY <1>2, <2>1, <2>2 DEF PackInv, Pack
<1>3. ASSUME TogProcess PROVE PackInv'
  <2>1. fdOf' = fdOf
    BY <1>3 DEF TogProcess
  <2>2. CASE UNCHANGED <<frames, int_pack, hurt>>
    BY <1>0, <2>1, <2>2 DEF PackInv
  <2> QED BY <1>0, <1>2, <1>3, <2>1, <2>2, TogFacts
<1>4. CASE Accept
  <2>1. CASE UNCHANGED <<tbl, frames, int_pack, open, fdOf>>
    BY <1>0, <1>4, <2>1, AcceptFacts DEF PackInv
  <2>2. CASE /\ fdOf'[nacc'] # NoFd
             /\ frames'[1] = [then |-> "accept", i |-> cnt + 1, c |-> nacc']
             /\ int_pack' = Pack("NEW", nacc', "none")
    <3>1. nacc' \in Conns
      BY <1>0, <1>4, AcceptFacts
    <3> QED BY <2>2, <3>1 DEF PackInv, Pack
  <2> QED BY <1>0, <1>4, <2>1, <2>2, AcceptFacts
<1>5. CASE Scan
  <2>1. PICK i \in Slots :
           /\ frames = <<>> /\ fdOf' = fdOf
           /\ \/ UNCHANGED <<frames, int_pack, hurt>>
              \/ /\ Packet(i) /\ inbox[tbl[i].c] # "keepalive"
                 /\ Call([then |-> "data", i |-> i, c |-> tbl[i].c],
                         Pack("DATA", tbl[i].c, inbox[tbl[i].c]))
              \/ i <= cnt /\ NotifyClosed(i)
    BY <1>5, ScanFacts
  <2>2. CASE UNCHANGED <<frames, int_pack, hurt>>
    BY <1>0, <2>1, <2>2 DEF PackInv
  <2>3. CASE i <= cnt /\ NotifyClosed(i)
    BY <1>2, <2>1, <2>3 DEF Listed
  <2>4. CASE /\ Packet(i) /\ inbox[tbl[i].c] # "keepalive"
             /\ Call([then |-> "data", i |-> i, c |-> tbl[i].c],
                     Pack("DATA", tbl[i].c, inbox[tbl[i].c]))
    <3> DEFINE f == [then |-> "data", i |-> i, c |-> tbl[i].c]
    <3>0. tbl[i].c \in Conns /\ tbl[i].c \in 0 .. MaxConns /\ fdOf[tbl[i].c] # NoFd
      BY <1>0, <2>4, TypeParts, ConstFacts DEF Packet, FdInv
    <3>1. inbox[tbl[i].c] \in {"auth", "cookie", "snac", "junk"}
      <4>1. inbox[tbl[i].c] \in AllKinds \cup {"none"}
        BY <3>0 DEF TypeOK
      <4>2. inbox[tbl[i].c] \notin {"none", "broken", "keepalive"}
        BY <2>4 DEF Packet
      <4> QED BY <4>1, <4>2 DEF AllKinds
    <3>2. f \in Frame /\ Pack("DATA", tbl[i].c, inbox[tbl[i].c]) \in Packs
      BY <3>0, <3>1 DEF Frame, Packs, Pack, AllKinds
    <3>3. frames'[1] = f /\ int_pack' = Pack("DATA", tbl[i].c, inbox[tbl[i].c])
      BY <2>4, <3>2, CallFacts
    <3> QED BY <2>1, <3>0, <3>1, <3>3 DEF PackInv, Pack
  <2> QED BY <2>1, <2>2, <2>3, <2>4
<1>6. CASE UNCHANGED <<frames, int_pack, hurt, fdOf>>
  BY <1>0, <1>6 DEF PackInv
<1>7. CASE Poll \/ TogDone \/ ScanBegin \/ ScanEnd \/ RoundEnd \/ \E i \in Slots : Timeout(i)
  BY <1>6, <1>7 DEF Poll, TogDone, ScanBegin, ScanEnd, RoundEnd, Timeout, history
<1>8. CASE SPKeeps
  BY <1>6, <1>8 DEF SPKeeps, spvars
<1>9. CASE UNCHANGED vars
  BY <1>6, <1>9 DEF vars, spvars, history
<1> QED BY <1>1, <1>3, <1>4, <1>5, <1>7, <1>8, <1>9, OutsideFacts
           DEF Next, SPStep, SpipeWait, RoundTog

\* Removing an entry keeps the table and the descriptors consistent.
LEMMA RemoveKeepsFd ==
  ASSUME TypeOK, FdInv, NEW i \in Slots, NEW c, RemoveEntry(i, c), UNCHANGED <<fdOf, nacc, evs, came>>
  PROVE  FdInv'
<1>1. CASE i > cnt \/ tbl[i].c # c
  BY <1>1 DEF FdInv, RemoveEntry
<1>2. CASE ~(i > cnt \/ tbl[i].c # c)
  <2>0. i <= cnt /\ tbl[i].c = c
    BY <1>2, TypeParts, ConstFacts
  <2>1. /\ cnt \in Slots /\ tbl'[cnt].c = tbl[cnt].c /\ tbl'[cnt].fd = NoFd
        /\ i # cnt => tbl'[i] = tbl[cnt]
        /\ \A k \in Slots : k # i /\ k # cnt => tbl'[k] = tbl[k]
        /\ open' = IF tbl[i].fd = NoFd THEN open ELSE open \ {c}
    BY <2>0, RemoveEntryFacts
  <2>2. ASSUME NEW k \in Slots, tbl'[k].fd # NoFd
        PROVE  /\ k # cnt
               /\ \E j \in Slots : /\ j # i /\ tbl'[k] = tbl[j]
                                   /\ IF k = i THEN j = cnt ELSE j = k
    <3>1. k # cnt
      BY <2>1, <2>2
    <3> QED BY <2>1, <2>2, <3>1
  <2>3. ASSUME NEW k \in Slots, tbl'[k].fd # NoFd
        PROVE  tbl'[k].c \in open' /\ fdOf[tbl'[k].c] = tbl'[k].fd
    <3>1. PICK j \in Slots : j # i /\ tbl'[k] = tbl[j]
      BY <2>2, <2>3
    <3>2. tbl[j].c \in open /\ fdOf[tbl[j].c] = tbl[j].fd
      BY <2>3, <3>1 DEF FdInv
    <3>3. tbl[i].fd # NoFd => tbl[j].c # tbl[i].c
      BY <2>3, <3>1 DEF FdInv
    <3> QED BY <2>0, <2>1, <3>1, <3>2, <3>3
  <2>4. ASSUME NEW k \in Slots, NEW l \in Slots, tbl'[k].fd # NoFd, tbl'[l].fd # NoFd,
               tbl'[k].c = tbl'[l].c
        PROVE  k = l
    <3>1. PICK j \in Slots : j # i /\ tbl'[k] = tbl[j] /\ IF k = i THEN j = cnt ELSE j = k
      BY <2>2, <2>4
    <3>2. PICK m \in Slots : m # i /\ tbl'[l] = tbl[m] /\ IF l = i THEN m = cnt ELSE m = l
      BY <2>2, <2>4
    <3>3. j = m
      BY <2>4, <3>1, <3>2 DEF FdInv
    <3>4. k # cnt /\ l # cnt
      BY <2>2, <2>4
    <3> QED BY <3>1, <3>2, <3>3, <3>4
  <2>5. open' \subseteq open
    BY <2>1
  <2> QED BY <2>3, <2>4, <2>5 DEF FdInv
<1> QED BY <1>1, <1>2

LEMMA FdStep ==
  ASSUME TypeOK, IInv, [Next]_vars
  PROVE  FdInv'
<1>0. FramesInv /\ PackInv /\ FdInv /\ CauseInv
  BY DEF IInv
<1>1. ASSUME Untouched, UNCHANGED <<fdOf, open, nacc, came>>, evs' = evs
      PROVE  FdInv'
  BY <1>0, <1>1 DEF FdInv, Untouched
<1>2. CASE SpipeSend
  <2>1. UNCHANGED <<fdOf, nacc, evs, came>>
    BY <1>2 DEF SpipeSend, clvars
  <2>2. CASE UNCHANGED <<tbl, open>>
    BY <1>0, <2>1, <2>2 DEF FdInv
  <2>3. CASE RemoveEntry(Head(frames).i, Head(frames).c)
    <3>1. Head(frames).i \in Slots
      BY <1>0, <1>2, PopFrame DEF Frame
    <3> QED BY <1>0, <2>1, <2>3, <3>1, RemoveKeepsFd
  <2> QED BY <1>2, <2>2, <2>3 DEF SpipeSend
<1>3. ASSUME TogProcess PROVE FdInv'
  <2>1. UNCHANGED <<fdOf, open, nacc, came>> /\ evs' = evs
    BY <1>3 DEF TogProcess, clvars
  <2> QED BY <1>0, <1>1, <1>3, <2>1, TogFacts
<1>4. CASE Poll
  <2>1. \A k \in Slots : tbl'[k].c = tbl[k].c /\ tbl'[k].fd = tbl[k].fd
    <3>1. \A e \in Entry, b \in BOOLEAN : [e EXCEPT !.rev = b].c = e.c /\ [e EXCEPT !.rev = b].fd = e.fd
      BY DEF Entry
    <3> DEFINE ready == {i \in Listed : tbl[i].fd # NoFd /\ Readable(tbl[i].c)}
    <3>2. tbl' = [i \in Slots |-> IF i \in Listed THEN [tbl[i] EXCEPT !.rev = i \in ready]
                                                  ELSE tbl[i]]
      BY <1>4 DEF Poll
    <3>3. \A i \in Slots : (i \in ready) \in BOOLEAN
      OBVIOUS
    <3> HIDE DEF ready
    <3> QED BY <3>1, <3>2, <3>3, TypeParts
  <2>2. /\ "accept" \in evs' => nacc < came
        /\ UNCHANGED <<fdOf, open, nacc, came>>
    BY <1>4, TypeParts DEF Poll, clvars
  <2> QED BY <1>0, <2>1, <2>2 DEF FdInv
<1>5. CASE Accept
  <2>1. nacc' = nacc + 1 /\ nacc' \in Conns /\ "accept" \notin evs'
    BY <1>0, <1>5, AcceptFacts
  <2>2. \A c \in Conns : fdOf[c] # NoFd => c <= nacc /\ c # nacc'
    BY <1>0, <2>1, TypeParts, ConstFacts DEF FdInv
  <2>3. nacc' \notin open
    BY <1>0, <2>2, TypeParts DEF FdInv
  <2>4. CASE UNCHANGED <<tbl, open, fdOf>>
    <3>1. \A c \in Conns : fdOf[c] # NoFd => c <= nacc'
      BY <2>1, <2>2, TypeParts, ConstFacts
    <3> QED BY <1>0, <2>1, <2>4, <3>1 DEF FdInv
  <2>5. CASE /\ cnt + 1 \in Slots
             /\ open' = open \cup {nacc'}
             /\ fdOf'[nacc'] # NoFd /\ \A c \in open : fdOf[c] # fdOf'[nacc']
             /\ \A c \in Conns : c # nacc' => fdOf'[c] = fdOf[c]
             /\ tbl'[cnt + 1] = [c |-> nacc', fd |-> fdOf'[nacc'], started |-> 2, rev |-> FALSE]
             /\ \A k \in Slots : k # cnt + 1 => tbl'[k] = tbl[k]
    <3>1. ASSUME NEW c \in Conns, fdOf'[c] # NoFd PROVE c <= nacc'
      <4>1. CASE c = nacc'
        BY <4>1, ConstFacts
      <4>2. CASE c # nacc'
        <5>1. c <= nacc
          BY <2>2, <2>5, <3>1, <4>2
        <5> QED BY <2>1, <5>1, TypeParts, ConstFacts
      <4> QED BY <4>1, <4>2
    <3>2. \A c \in open : c \in Conns /\ c # nacc' /\ fdOf'[c] = fdOf[c] /\ fdOf[c] # NoFd
      BY <1>0, <2>3, <2>5, TypeParts DEF FdInv
    <3>3. \A c, d \in open' : fdOf'[c] = fdOf'[d] => c = d
      BY <1>0, <2>5, <3>2 DEF FdInv
    <3>4. \A k \in Slots : k # cnt + 1 /\ tbl'[k].fd # NoFd =>
            tbl'[k] = tbl[k] /\ tbl[k].c \in open /\ fdOf[tbl[k].c] = tbl[k].fd
      BY <1>0, <2>5 DEF FdInv
    <3>5. tbl'[cnt + 1].c = nacc' /\ tbl'[cnt + 1].fd = fdOf'[nacc']
      BY <2>5
    <3>6. \A k \in Slots : tbl'[k].fd # NoFd =>
            tbl'[k].c \in open' /\ fdOf'[tbl'[k].c] = tbl'[k].fd
      BY <2>5, <3>2, <3>4, <3>5
    <3>7. ASSUME NEW k \in Slots, NEW l \in Slots, tbl'[k].fd # NoFd, tbl'[l].fd # NoFd,
                 tbl'[k].c = tbl'[l].c
          PROVE  k = l
      <4>1. CASE k # cnt + 1 /\ l # cnt + 1
        BY <1>0, <3>4, <3>7, <4>1 DEF FdInv
      <4>2. CASE k = cnt + 1 \/ l = cnt + 1
        BY <2>3, <3>4, <3>5, <3>7, <4>2
      <4> QED BY <4>1, <4>2
    <3>8. \A c \in open' : fdOf'[c] # NoFd
      BY <2>5, <3>2
    <3> QED BY <2>1, <3>1, <3>3, <3>6, <3>7, <3>8 DEF FdInv
  <2> QED BY <1>0, <1>5, <2>4, <2>5, AcceptFacts
<1>6. CASE Scan
  <2>1. Untouched /\ UNCHANGED <<fdOf, open, nacc, came>> /\ evs' = evs
    BY <1>6, ScanFacts
  <2> QED BY <1>1, <2>1
<1>7. CASE ScanEnd
  <2>1. \A k \in Slots : \/ tbl'[k].c = tbl[k].c /\ tbl'[k].fd = tbl[k].fd
                         \/ tbl'[k].fd = NoFd
    <3>1. \A e \in Entry : [e EXCEPT !.rev = FALSE].c = e.c /\ [e EXCEPT !.rev = FALSE].fd = e.fd
      BY DEF Entry
    <3>2. tbl' = [i \in Slots |-> IF i \in Listed THEN [tbl[i] EXCEPT !.rev = FALSE] ELSE Blank]
      BY <1>7 DEF ScanEnd
    <3>3. Blank.fd = NoFd
      BY DEF Blank
    <3> QED BY <3>1, <3>2, <3>3, TypeParts
  <2>2. evs' = {} /\ UNCHANGED <<fdOf, open, nacc, came>>
    BY <1>7 DEF ScanEnd, clvars
  <2> QED BY <1>0, <2>1, <2>2 DEF FdInv
<1>8. ASSUME NEW i \in Slots, Timeout(i) PROVE FdInv'
  <2>1. RemoveEntry(i, tbl[i].c) /\ UNCHANGED <<fdOf, nacc, evs, came>>
    BY <1>8 DEF Timeout, clvars
  <2> QED BY <1>0, <2>1, RemoveKeepsFd
<1>9. ASSUME UNCHANGED <<tbl, fdOf, open, nacc, evs>>, came \in Nat, came' = came \/ came' = came + 1
      PROVE  FdInv'
  BY <1>0, <1>9, TypeParts DEF FdInv
<1>10. CASE TogDone \/ ScanBegin \/ RoundEnd
  BY <1>9, <1>10, TypeParts DEF TogDone, ScanBegin, RoundEnd, clvars
<1>11. CASE ClientStep \/ \E p \in PPs : PPStep(p)
  <2>1. UNCHANGED <<tbl, fdOf, open, nacc, evs>>
    BY <1>11, OutsideFacts DEF SPKeeps, spvars
  <2>2. came' = came \/ came' = came + 1
    BY <1>11 DEF ClientStep, Connect, Hangup, ClientSend, PPStep, PPTake, PPReply,
       CloseConnection, PPOffline, PPCookie, PPInsert, clvars
  <2> QED BY <1>9, <2>1, <2>2, TypeParts
<1>12. CASE UNCHANGED vars
  BY <1>9, <1>12, TypeParts DEF vars, spvars, clvars
<1> QED BY <1>2, <1>3, <1>4, <1>5, <1>6, <1>7, <1>8, <1>10, <1>11, <1>12
           DEF Next, SPStep, SpipeWait, RoundTog

----------------------------------------------------------------------------
(* Every open connection is listed. *)

\* A call is pushed that is no acceptance.
PushedQuietly ==
  /\ frames' # <<>> /\ frames'[1].then # "accept" /\ hurt \subseteq hurt'
  /\ frames # <<>> => frames[1].c \in hurt' /\ LastFrame' = LastFrame
  /\ frames = <<>> => LastFrame'.then # "accept"
LEMMA ClosePushedQuietly ==
  ASSUME TypeOK, FramesInv, PackInv, NEW i \in Slots, NotifyClosed(i)
  PROVE  PushedQuietly
<1> DEFINE f == [then |-> "close", i |-> i, c |-> tbl[i].c]
<1>1. /\ frames' # <<>> /\ frames'[1] = f /\ hurt \subseteq hurt'
      /\ LastFrame' = IF frames = <<>> THEN f ELSE LastFrame
  BY PushClose
<1>2. frames # <<>> => frames[1].c \in hurt'
  BY DEF NotifyClosed, Call, PackInv
<1>3. f.then = "close"
  OBVIOUS
<1> HIDE DEF f
<1> QED BY <1>1, <1>2, <1>3 DEF PushedQuietly

SameNames == \A k \in Slots : tbl'[k].c = tbl[k].c /\ tbl'[k].fd = tbl[k].fd
LEMMA ListedSame ==
  ASSUME TypeOK, ListedInv, SameNames, UNCHANGED <<cnt, open, fdOf>>,
         UNCHANGED <<frames, hurt>> \/ PushedQuietly
  PROVE  ListedInv'
<1>0. hurt \subseteq hurt'
  BY DEF PushedQuietly
<1>1. \A c \in Conns : c \notin hurt' => (Accepting(c) => Accepting(c)') /\ (Accepting(c)' => Accepting(c))
  BY DEF PushedQuietly, Accepting
<1>2. cnt + 1 \in Slots /\ Listed \subseteq Slots
  BY TypeParts, ConstFacts DEF Listed
<1>3. ASSUME NEW c \in open' \ hurt'
      PROVE  \E i \in Slots : /\ tbl'[i].c = c /\ tbl'[i].fd # NoFd
                              /\ i <= cnt' \/ (i = cnt' + 1 /\ Accepting(c)')
  <2>1. c \in open \ hurt /\ c \in Conns
    BY <1>0, <1>3, TypeParts
  <2>2. PICK i \in Slots : /\ tbl[i].c = c /\ tbl[i].fd # NoFd
                           /\ i <= cnt \/ (i = cnt + 1 /\ Accepting(c))
    BY <2>1 DEF ListedInv
  <2> QED BY <1>1, <1>3, <2>1, <2>2 DEF SameNames
<1>4. ASSUME NEW c \in Conns, Accepting(c)', c \notin hurt'
      PROVE  tbl'[cnt' + 1].c = c /\ tbl'[cnt' + 1].fd # NoFd
  BY <1>0, <1>1, <1>2, <1>4 DEF ListedInv, SameNames
<1>5. hurt' = {} => \A i \in Listed' : tbl'[i].fd # NoFd
  BY <1>0, <1>2 DEF ListedInv, SameNames, Listed
<1>6. ASSUME NEW i \in Slots,
             i <= cnt' \/ (frames' # <<>> /\ LastFrame'.then = "accept" /\ i <= LastFrame'.i)
      PROVE  tbl'[i].c \in Conns /\ fdOf'[tbl'[i].c] # NoFd
  <2>1. i <= cnt \/ (frames # <<>> /\ LastFrame.then = "accept" /\ i <= LastFrame.i)
    BY <1>6 DEF PushedQuietly, LastFrame
  <2> QED BY <2>1 DEF ListedInv, SameNames
<1> QED BY <1>3, <1>4, <1>5, <1>6 DEF ListedInv

\* A call that ends, or none at all.
Popped == \/ frames' = <<>>
          \/ frames # <<>> /\ frames' # <<>> /\ LastFrame' = LastFrame /\ frames'[1].c \in hurt'
LEMMA RemoveKeepsListed ==
  ASSUME TypeOK, FdInv, ListedInv, NEW i \in Slots, NEW c, RemoveEntry(i, c),
         fdOf' = fdOf, hurt \subseteq hurt', frames = <<>> \/ frames[1].then = "close", Popped
  PROVE  ListedInv'
<1>0. cnt \in Nat /\ Slots \subseteq Nat
  BY TypeParts, ConstFacts
<1>1. /\ \A d : ~Accepting(d)
      /\ \A d : Accepting(d)' => d \in hurt'
  BY DEF Accepting, Popped
<1>2. \A d \in open \ hurt : \E j \in Slots : tbl[j].c = d /\ tbl[j].fd # NoFd /\ j <= cnt
  BY <1>1 DEF ListedInv
<1>3. \A k : frames' # <<>> /\ LastFrame'.then = "accept" /\ k <= LastFrame'.i =>
               frames # <<>> /\ LastFrame.then = "accept" /\ k <= LastFrame.i
  BY DEF Popped
<1>4. CASE i > cnt \/ tbl[i].c # c
  <2>1. UNCHANGED <<tbl, cnt, open>>
    BY <1>4 DEF RemoveEntry
  <2>2. \A d \in open' \ hurt' : \E j \in Slots : tbl'[j].c = d /\ tbl'[j].fd # NoFd /\ j <= cnt'
    BY <1>2, <2>1
  <2>3. hurt' = {} => \A k \in Listed' : tbl'[k].fd # NoFd
    BY <2>1 DEF ListedInv, Listed
  <2>4. \A k \in Slots :
          k <= cnt' \/ (frames' # <<>> /\ LastFrame'.then = "accept" /\ k <= LastFrame'.i) =>
            tbl'[k].c \in Conns /\ fdOf'[tbl'[k].c] # NoFd
    BY <1>3, <2>1 DEF ListedInv
  <2> QED BY <1>1, <2>2, <2>3, <2>4 DEF ListedInv
<1>5. CASE ~(i > cnt \/ tbl[i].c # c)
  <2>0. i <= cnt /\ tbl[i].c = c
    BY <1>0, <1>5
  <2>1. /\ cnt \in Slots /\ cnt' = cnt - 1
        /\ tbl'[cnt].c = tbl[cnt].c /\ tbl'[cnt].fd = NoFd
        /\ i # cnt => tbl'[i] = tbl[cnt]
        /\ \A k \in Slots : k # i /\ k # cnt => tbl'[k] = tbl[k]
        /\ open' = IF tbl[i].fd = NoFd THEN open ELSE open \ {c}
    BY <2>0, RemoveEntryFacts
  <2>2. ASSUME NEW d \in open' \ hurt'
        PROVE  \E j \in Slots : tbl'[j].c = d /\ tbl'[j].fd # NoFd /\ j <= cnt'
    <3>1. d \in open \ hurt
      BY <2>1, <2>2
    <3>2. PICK j \in Slots : tbl[j].c = d /\ tbl[j].fd # NoFd /\ j <= cnt
      BY <1>2, <3>1
    <3>3. j # i
      BY <2>0, <2>1, <2>2, <3>2
    <3>4. CASE j = cnt
      <4>1. i # cnt /\ tbl'[i] = tbl[cnt] /\ i <= cnt - 1
        BY <1>0, <2>0, <2>1, <3>3, <3>4
      <4> QED BY <2>1, <3>2, <3>4, <4>1
    <3>5. CASE j # cnt
      <4>1. tbl'[j] = tbl[j] /\ j <= cnt - 1
        BY <1>0, <2>1, <3>2, <3>3, <3>5
      <4> QED BY <2>1, <3>2, <4>1
    <3> QED BY <3>4, <3>5
  <2>3. ASSUME hurt' = {}, NEW k \in Listed' PROVE tbl'[k].fd # NoFd
    <3>1. k \in Slots /\ k <= cnt - 1 /\ k <= cnt /\ k # cnt
      BY <1>0, <2>1, <2>3 DEF Listed
    <3>2. \A j \in Slots : j <= cnt => tbl[j].fd # NoFd
      BY <2>3 DEF ListedInv, Listed
    <3>3. CASE k = i
      <4>1. tbl'[k] = tbl[cnt] /\ cnt <= cnt
        BY <1>0, <2>1, <3>1, <3>3
      <4> QED BY <2>1, <3>2, <4>1
    <3>4. CASE k # i
      BY <2>1, <3>1, <3>2, <3>4
    <3> QED BY <3>3, <3>4
  <2>4. ASSUME NEW k \in Slots,
               k <= cnt' \/ (frames' # <<>> /\ LastFrame'.then = "accept" /\ k <= LastFrame'.i)
        PROVE  tbl'[k].c \in Conns /\ fdOf'[tbl'[k].c] # NoFd
    <3>1. k <= cnt \/ (frames # <<>> /\ LastFrame.then = "accept" /\ k <= LastFrame.i)
      BY <1>0, <1>3, <2>1, <2>4
    <3>2. tbl'[k].c \in {tbl[k].c, tbl[cnt].c}
      BY <2>1
    <3>3. tbl[k].c \in Conns /\ fdOf[tbl[k].c] # NoFd
      BY <3>1 DEF ListedInv
    <3>4. tbl[cnt].c \in Conns /\ fdOf[tbl[cnt].c] # NoFd
      BY <1>0, <2>1 DEF ListedInv
    <3> QED BY <3>2, <3>3, <3>4
  <2> QED BY <1>1, <2>2, <2>3, <2>4 DEF ListedInv
<1> QED BY <1>4, <1>5

LEMMA ListedStep ==
  ASSUME TypeOK, IInv, [Next]_vars
  PROVE  ListedInv'
<1>0. FramesInv /\ PackInv /\ FdInv /\ ListedInv /\ CauseInv
  BY DEF IInv
<1>1. CASE SpipeSend
  <2> DEFINE f == Head(frames)
  <2>1. /\ frames # <<>> /\ frames[1] \in Frame /\ f = frames[1] /\ hurt \subseteq hurt'
        /\ frames' = <<>> => LastFrame = frames[1]
        /\ frames' # <<>> => /\ frames[1].then = "close" /\ frames'[1].c \in hurt'
                             /\ LastFrame' = LastFrame
    BY <1>0, <1>1, PopFrame
  <2>2. Popped /\ fdOf' = fdOf
    BY <1>1, <2>1 DEF Popped, SpipeSend
  <2>3. CASE f.then = "close"
    <3>1. RemoveEntry(f.i, f.c) /\ f.i \in Slots
      BY <1>1, <2>1, <2>3 DEF SpipeSend, Frame
    <3> QED BY <1>0, <2>1, <2>2, <2>3, <3>1, RemoveKeepsListed
  <2>4. CASE f.then = "accept"
    <3>1. cnt' = cnt + 1 /\ UNCHANGED <<tbl, open, hurt>> /\ frames' = <<>> /\ LastFrame = f
      BY <1>1, <2>1, <2>4 DEF SpipeSend
    <3>2. cnt < f.i /\ f.i \in Nat /\ cnt \in Nat /\ Slots \subseteq Nat
      BY SMTT(30), <1>0, <2>1, <2>4, <3>1, TypeParts, ConstFacts DEF FramesInv, Frame
    <3>3. \A c \in open' \ hurt' : \E i \in Slots : tbl'[i].c = c /\ tbl'[i].fd # NoFd /\ i <= cnt'
      <4>1. \A i \in Slots : i <= cnt \/ i = cnt + 1 => i <= cnt + 1
        BY <3>2
      <4> QED BY <1>0, <3>1, <4>1 DEF ListedInv
    <3>4. ASSUME hurt' = {}, NEW i \in Listed' PROVE tbl'[i].fd # NoFd
      <4>1. i \in Slots /\ (i <= cnt \/ i = cnt + 1)
        BY <3>1, <3>2, <3>4 DEF Listed
      <4>2. Accepting(frames[1].c) /\ frames[1].c \in Conns
        BY <1>0, <2>1, <2>4, <3>1, <3>4 DEF Accepting, PackInv
      <4> QED BY <1>0, <3>1, <3>4, <4>1, <4>2 DEF ListedInv, Listed
    <3>5. ASSUME NEW i \in Slots, i <= cnt'
          PROVE  tbl'[i].c \in Conns /\ fdOf'[tbl'[i].c] # NoFd
      <4>1. i <= f.i
        BY <3>1, <3>2, <3>5
      <4> QED BY <1>0, <2>1, <2>2, <2>4, <3>1, <4>1 DEF ListedInv
    <3> QED BY <3>1, <3>3, <3>4, <3>5 DEF ListedInv, Accepting
  <2>5. CASE f.then = "data"
    <3>1. UNCHANGED <<tbl, cnt, open, hurt>> /\ frames' = <<>>
      BY <1>1, <2>1, <2>5 DEF SpipeSend
    <3>2. \A d : ~Accepting(d) /\ ~Accepting(d)'
      BY <2>1, <2>5, <3>1 DEF Accepting
    <3> QED BY <1>0, <2>2, <3>1, <3>2 DEF ListedInv, Listed
  <2> HIDE DEF f
  <2> QED BY <1>1, <2>1, <2>3, <2>4, <2>5 DEF Frame
<1>2. ASSUME TogProcess PROVE ListedInv'
  <2>1. SameNames /\ UNCHANGED <<cnt, open, fdOf>>
    BY <1>0, <1>2, TogFacts DEF SameNames, Untouched, TogProcess
  <2>2. UNCHANGED <<frames, hurt>> \/ PushedQuietly
    BY <1>0, <1>2, TogFacts, ClosePushedQuietly DEF Listed
  <2> QED BY <1>0, <2>1, <2>2, ListedSame
<1>3. CASE Poll
  <2>1. SameNames
    <3>1. \A e \in Entry, b \in BOOLEAN : [e EXCEPT !.rev = b].c = e.c /\ [e EXCEPT !.rev = b].fd = e.fd
      BY DEF Entry
    <3> DEFINE ready == {i \in Listed : tbl[i].fd # NoFd /\ Readable(tbl[i].c)}
    <3>2. tbl' = [i \in Slots |-> IF i \in Listed THEN [tbl[i] EXCEPT !.rev = i \in ready]
                                                  ELSE tbl[i]]
      BY <1>3 DEF Poll
    <3>3. \A i \in Slots : (i \in ready) \in BOOLEAN
      OBVIOUS
    <3> HIDE DEF ready
    <3> QED BY <3>1, <3>2, <3>3, TypeParts DEF SameNames
  <2> QED BY <1>0, <1>3, <2>1, ListedSame DEF Poll, history
<1>4. CASE Accept
  <2>1. CASE UNCHANGED <<tbl, frames, int_pack, open, fdOf>>
    <3>1. SameNames /\ UNCHANGED <<cnt, open, fdOf, frames, hurt>>
      BY <1>0, <1>4, <2>1, AcceptFacts DEF SameNames
    <3> QED BY <1>0, <3>1, ListedSame
  <2>2. CASE /\ cnt + 1 \in Slots
             /\ open' = open \cup {nacc'}
             /\ fdOf'[nacc'] # NoFd
             /\ \A c \in Conns : c # nacc' => fdOf'[c] = fdOf[c]
             /\ tbl'[cnt + 1] = [c |-> nacc', fd |-> fdOf'[nacc'], started |-> 2, rev |-> FALSE]
             /\ \A k \in Slots : k # cnt + 1 => tbl'[k] = tbl[k]
             /\ frames' # <<>>
             /\ frames'[1] = [then |-> "accept", i |-> cnt + 1, c |-> nacc']
             /\ LastFrame' = frames'[1]
    <3>1. /\ frames = <<>> /\ nacc' = nacc + 1 /\ nacc' \in Conns /\ hurt' = hurt /\ cnt' = cnt
          /\ cnt \in Nat /\ Slots \subseteq Nat
      BY <1>0, <1>4, AcceptFacts, TypeParts, ConstFacts
    <3>2. /\ tbl'[cnt + 1].c = nacc' /\ tbl'[cnt + 1].fd = fdOf'[nacc']
          /\ frames'[1].then = "accept" /\ frames'[1].c = nacc' /\ frames'[1].i = cnt + 1
      BY <2>2
    <3>3. \A d : (Accepting(d)' <=> d = nacc') /\ ~Accepting(d)
      BY <2>2, <3>1, <3>2 DEF Accepting
    <3>4. ASSUME NEW c \in open' \ hurt'
          PROVE  \E i \in Slots : /\ tbl'[i].c = c /\ tbl'[i].fd # NoFd
                                  /\ i <= cnt' \/ (i = cnt' + 1 /\ Accepting(c)')
      <4>1. CASE c = nacc'
        BY <2>2, <3>1, <3>2, <3>3, <4>1
      <4>2. CASE c # nacc'
        <5>1. PICK i \in Slots : tbl[i].c = c /\ tbl[i].fd # NoFd /\ i <= cnt
          BY <1>0, <2>2, <3>1, <3>3, <3>4, <4>2 DEF ListedInv
        <5>2. i # cnt + 1
          BY <3>1, <5>1
        <5> QED BY <2>2, <3>1, <5>1, <5>2
      <4> QED BY <4>1, <4>2
    <3>5. ASSUME hurt' = {}, NEW i \in Listed' PROVE tbl'[i].fd # NoFd
      <4>1. i \in Slots /\ i \in Listed /\ i # cnt + 1
        BY <3>1, <3>5 DEF Listed
      <4> QED BY <1>0, <2>2, <3>1, <3>5, <4>1 DEF ListedInv
    <3>6. ASSUME NEW i \in Slots, i <= cnt' \/ i <= cnt + 1
          PROVE  tbl'[i].c \in Conns /\ fdOf'[tbl'[i].c] # NoFd
      <4>1. CASE i = cnt + 1
        BY <2>2, <3>1, <3>2, <4>1
      <4>2. CASE i # cnt + 1
        <5>1. i <= cnt /\ tbl'[i] = tbl[i]
          BY <2>2, <3>1, <3>6, <4>2
        <5>2. tbl[i].c \in Conns /\ fdOf[tbl[i].c] # NoFd
          BY <1>0, <5>1 DEF ListedInv
        <5>3. tbl[i].c # nacc'
          BY SMTT(30), <1>0, <3>1, <5>2, TypeParts, ConstFacts DEF FdInv
        <5> QED BY <2>2, <5>1, <5>2, <5>3
      <4> QED BY <4>1, <4>2
    <3>7. \A c \in Conns : Accepting(c)' /\ c \notin hurt' =>
                             tbl'[cnt' + 1].c = c /\ tbl'[cnt' + 1].fd # NoFd
      BY <2>2, <3>1, <3>2, <3>3
    <3>8. LastFrame'.i = cnt + 1
      BY <2>2, <3>2
    <3> QED BY <3>4, <3>5, <3>6, <3>7, <3>8 DEF ListedInv
  <2> QED BY <1>0, <1>4, <2>1, <2>2, AcceptFacts
<1>5. CASE Scan
  <2>1. PICK i \in Slots :
           /\ frames = <<>> /\ Untouched /\ UNCHANGED <<cnt, open, fdOf>>
           /\ \/ UNCHANGED <<frames, int_pack, hurt>>
              \/ Call([then |-> "data", i |-> i, c |-> tbl[i].c],
                      Pack("DATA", tbl[i].c, inbox[tbl[i].c]))
              \/ NotifyClosed(i)
    BY <1>5, ScanFacts
  <2>2. SameNames
    BY <2>1 DEF SameNames, Untouched
  <2>3. CASE Call([then |-> "data", i |-> i, c |-> tbl[i].c],
                  Pack("DATA", tbl[i].c, inbox[tbl[i].c]))
    <3> DEFINE f == [then |-> "data", i |-> i, c |-> tbl[i].c]
    <3>1. frames' = <<f>> \o <<>> /\ hurt' = hurt
      BY <2>1, <2>3 DEF Call
    <3>2. f \in {f} /\ <<>> \in Seq({f})
      OBVIOUS
    <3>3. frames' # <<>> /\ Len(frames') = 1 /\ frames'[1] = f
      <4> HIDE DEF f
      <4> QED BY <3>1, <3>2, PushFacts, EmptySeq
    <3>4. f.then = "data"
      OBVIOUS
    <3> HIDE DEF f
    <3>5. PushedQuietly
      BY <2>1, <3>1, <3>3, <3>4 DEF PushedQuietly, LastFrame
    <3> QED BY <1>0, <2>1, <2>2, <3>5, ListedSame
  <2>4. CASE NotifyClosed(i)
    BY <1>0, <2>1, <2>2, <2>4, ClosePushedQuietly, ListedSame
  <2>5. CASE UNCHANGED <<frames, int_pack, hurt>>
    BY <1>0, <2>1, <2>2, <2>5, ListedSame
  <2> QED BY <2>1, <2>3, <2>4, <2>5
<1>6. CASE ScanEnd
  <2>1. /\ \A k \in Listed : tbl'[k].c = tbl[k].c /\ tbl'[k].fd = tbl[k].fd
        /\ Listed \subseteq Slots
    <3>1. \A e \in Entry : [e EXCEPT !.rev = FALSE].c = e.c /\ [e EXCEPT !.rev = FALSE].fd = e.fd
      BY DEF Entry
    <3>2. tbl' = [i \in Slots |-> IF i \in Listed THEN [tbl[i] EXCEPT !.rev = FALSE] ELSE Blank]
      BY <1>6 DEF ScanEnd
    <3> QED BY <3>1, <3>2, TypeParts DEF Listed
  <2>2. frames = <<>> /\ UNCHANGED <<cnt, open, fdOf, frames, hurt>>
    BY <1>6 DEF ScanEnd, history
  <2>3. \A d : ~Accepting(d) /\ ~Accepting(d)'
    BY <2>2 DEF Accepting
  <2>4. \A i \in Slots : i \in Listed <=> i <= cnt
    BY DEF Listed
  <2>5. Listed' = Listed
    BY <2>2 DEF Listed
  <2>6. \A c \in open' \ hurt' : \E i \in Slots : tbl'[i].c = c /\ tbl'[i].fd # NoFd /\ i <= cnt'
    BY <1>0, <2>1, <2>2, <2>3, <2>4 DEF ListedInv
  <2>7. \A i \in Slots : i <= cnt' => tbl'[i].c \in Conns /\ fdOf'[tbl'[i].c] # NoFd
    BY <1>0, <2>1, <2>2, <2>4 DEF ListedInv
  <2>8. hurt' = {} => \A i \in Listed' : tbl'[i].fd # NoFd
    BY <1>0, <2>1, <2>2, <2>5 DEF ListedInv
  <2> QED BY <2>2, <2>3, <2>6, <2>7, <2>8 DEF ListedInv
<1>7. ASSUME NEW i \in Slots, Timeout(i) PROVE ListedInv'
  <2>1. frames = <<>>
    BY <1>0, <1>7 DEF Timeout, FramesInv
  <2>2. RemoveEntry(i, tbl[i].c) /\ fdOf' = fdOf /\ hurt' = hurt /\ frames' = frames
    BY <1>7 DEF Timeout
  <2> QED BY <1>0, <2>1, <2>2, RemoveKeepsListed DEF Popped
<1>8. CASE UNCHANGED <<tbl, cnt, open, fdOf, frames, hurt>>
  BY <1>0, <1>8, ListedSame DEF SameNames
<1>9. CASE TogDone \/ ScanBegin \/ RoundEnd
  BY <1>8, <1>9 DEF TogDone, ScanBegin, RoundEnd, history
<1>10. CASE SPKeeps
  BY <1>8, <1>10 DEF SPKeeps, spvars
<1>11. CASE UNCHANGED vars
  BY <1>8, <1>11 DEF vars, spvars, history
<1> QED BY <1>1, <1>2, <1>3, <1>4, <1>5, <1>6, <1>7, <1>9, <1>10, <1>11, OutsideFacts
           DEF Next, SPStep, SpipeWait, RoundTog

----------------------------------------------------------------------------
(* Why connections are closed. *)

\* What clients and packet processors do to what SP looks at.
LEMMA OutsideCauses ==
  ASSUME TypeOK, WorkInv, ClientStep \/ \E p \in PPs : PPStep(p)
  PROVE  /\ gone \subseteq gone' /\ asked \subseteq asked'
         /\ \A c \in Conns : inbox[c] # "none" => inbox'[c] = inbox[c]
<1>1. ASSUME NEW p \in PPs, PPStep(p)
      PROVE  /\ gone \subseteq gone' /\ asked \subseteq asked'
             /\ \A c \in Conns : inbox[c] # "none" => inbox'[c] = inbox[c]
  BY <1>1 DEF PPStep, PPTake, PPReply, CloseConnection, PPOffline, PPCookie, PPInsert, clvars,
              history
<1>2. CASE ClientStep
  <2>1. CASE Connect
    BY <2>1 DEF Connect, history
  <2>2. ASSUME NEW c \in Conns, Hangup(c) PROVE gone \subseteq gone' /\ UNCHANGED <<inbox, asked>>
    BY <2>2 DEF Hangup, history
  <2>3. ASSUME NEW c \in Conns, NEW k \in Kinds, ClientSend(c, k)
        PROVE  /\ UNCHANGED <<gone, asked>>
               /\ \A d \in Conns : inbox[d] # "none" => inbox'[d] = inbox[d]
    BY <2>3 DEF ClientSend, history, TypeOK
  <2> QED BY <1>2, <2>1, <2>2, <2>3 DEF ClientStep
<1> QED BY <1>1, <1>2

LEMMA AskedStep ==
  ASSUME TypeOK, IInv, [Next]_vars
  PROVE  AskedInv'
<1>0. AskedInv /\ CauseInv /\ WorkInv
  BY DEF IInv, CauseInv
<1>1. CASE UNCHANGED <<toutgoing, asked>>
  BY <1>0, <1>1 DEF AskedInv
<1>2. ASSUME TogProcess PROVE AskedInv'
  <2>1. toutgoing # <<>> /\ toutgoing' = Tail(toutgoing) /\ asked' = asked
    BY <1>0, <1>2, TogFacts DEF TogProcess
  <2>2. /\ Len(toutgoing) \in Nat \ {0} /\ Len(toutgoing') = Len(toutgoing) - 1
        /\ \A k \in 1 .. Len(toutgoing) - 1 : toutgoing'[k] = toutgoing[k + 1]
    BY <2>1, TypeParts, PopFacts
  <2>3. \A j \in 1 .. Len(toutgoing') : /\ j + 1 \in 1 .. Len(toutgoing)
                                        /\ toutgoing'[j] = toutgoing[j + 1]
    BY <2>2
  <2> QED BY <1>0, <2>1, <2>3 DEF AskedInv
<1>3. ASSUME NEW p \in PPs, NEW evt \in {"DATA", "RDY", "TERM"}, tasks[p].todo # <<>>,
             WriteBack(Pack(evt, Op(p).c, "none")), asked \subseteq asked',
             evt = "TERM" => Op(p).c \in asked'
      PROVE  AskedInv'
  <2> DEFINE m == Pack(evt, Op(p).c, "none")
  <2>1. m \in Packs
    BY <1>0, <1>3, OpFacts, ConstFacts DEF Pack, Packs
  <2>2. m.evt = evt /\ m.c = Op(p).c
    BY DEF Pack
  <2> HIDE DEF m
  <2>3. \A j \in 1 .. Len(toutgoing') :
              toutgoing'[j] = m \/ (j \in 1 .. Len(toutgoing) /\ toutgoing'[j] = toutgoing[j])
    BY <1>3, <2>1, WriteBackType DEF m
  <2> QED BY <1>0, <1>3, <2>2, <2>3 DEF AskedInv
<1>4. ASSUME NEW p \in PPs, PPReply(p) PROVE AskedInv'
  <2>1. /\ tasks[p].todo # <<>> /\ Op(p).evt \in {"DATA", "RDY"}
        /\ WriteBack(Pack(Op(p).evt, Op(p).c, "none")) /\ asked' = asked
    BY <1>4 DEF PPReply, Doing, history
  <2> QED BY <1>3, <2>1
<1>5. ASSUME NEW p \in PPs, CloseConnection(p) PROVE AskedInv'
  <2>1. CASE UNCHANGED <<toutgoing, asked>>
    BY <1>1, <2>1
  <2>2. CASE WriteBack(Pack("TERM", Op(p).c, "none")) /\ asked' = asked \cup {Op(p).c}
    <3>1. tasks[p].todo # <<>>
      BY <1>5 DEF CloseConnection, Doing
    <3> QED BY <1>3, <2>2, <3>1
  <2> QED BY <1>5, <2>1, <2>2 DEF CloseConnection
<1>6. ASSUME NEW p \in PPs, PPTake(p) \/ PPOffline(p) \/ PPCookie(p) \/ PPInsert(p)
      PROVE  AskedInv'
  BY <1>1, <1>6 DEF PPTake, PPOffline, PPCookie, PPInsert, history
<1>7. CASE ClientStep
  BY <1>1, <1>7 DEF ClientStep, Connect, Hangup, ClientSend, history
<1>8. CASE \/ SpipeSend \/ Poll \/ TogDone \/ Accept \/ ScanBegin \/ Scan \/ ScanEnd \/ RoundEnd
           \/ \E i \in Slots : Timeout(i)
  BY <1>1, <1>8 DEF SpipeSend, Poll, TogDone, Accept, ScanBegin, Scan, ScanEnd, RoundEnd, Timeout,
                    history
<1>9. CASE UNCHANGED vars
  BY <1>1, <1>9 DEF vars, history
<1> QED BY <1>2, <1>4, <1>5, <1>6, <1>7, <1>8, <1>9
           DEF Next, SPStep, SpipeWait, RoundTog, PPStep

LEMMA ClosingStep ==
  ASSUME TypeOK, IInv, [Next]_vars
  PROVE  ClosingInv'
<1>0. FramesInv /\ PackInv /\ FdInv /\ ListedInv /\ CauseInv /\ ClosingInv /\ MarksInv /\ WorkInv
  BY DEF IInv, CauseInv
<1>1. CASE SpipeSend
  <2>1. frames' # <<>> => frames'[1].c \in hurt'
    BY <1>0, <1>1, PopFrame
  <2> QED BY <2>1 DEF ClosingInv
<1>2. CASE frames' = <<>>
  BY <1>2 DEF ClosingInv
<1>3. ASSUME SameNames, UNCHANGED <<frames, hurt>>, gone \subseteq gone', asked \subseteq asked',
             \A c \in Conns : inbox[c] # "none" => inbox'[c] = inbox[c]
      PROVE  ClosingInv'
  <2>1. frames # <<>> => frames[1].i \in Slots
    <3>1. frames # <<>> => frames[1] \in Frame
      BY TypeParts, PopFacts
    <3> QED BY <3>1 DEF Frame
  <2> QED BY <1>0, <1>3, <2>1 DEF ClosingInv, SameNames, CauseOf
<1>4. ASSUME TogProcess PROVE ClosingInv'
  <2>1. SameNames /\ UNCHANGED <<gone, asked, inbox>>
    BY <1>0, <1>4, TogFacts DEF SameNames, Untouched, TogProcess, clvars
  <2>2. CASE UNCHANGED <<frames, int_pack, hurt>>
    BY <1>3, <2>1, <2>2
  <2>3. ASSUME NEW i \in Listed, NotifyClosed(i), tbl[i].c \in gone \cup asked PROVE ClosingInv'
    <3>1. i \in Slots /\ tbl[i].c \in Conns
      BY <1>0 DEF Listed, ListedInv
    <3>2. frames'[1].c = tbl[i].c
      <4>1. frames'[1] = [then |-> "close", i |-> i, c |-> tbl[i].c]
        BY <1>0, <2>3, <3>1, PushClose
      <4> QED BY <4>1
    <3> QED BY <2>1, <2>3, <3>1, <3>2 DEF ClosingInv, CauseOf
  <2> QED BY <1>0, <1>4, <2>2, <2>3, TogFacts
<1>5. CASE Accept
  <2>1. frames = <<>>
    BY <1>0, <1>5, AcceptFacts
  <2>2. frames' # <<>> => frames'[1].then # "close"
    <3>1. CASE UNCHANGED frames
      BY <2>1, <3>1
    <3>2. CASE frames'[1] = [then |-> "accept", i |-> cnt + 1, c |-> nacc']
      BY <3>2
    <3> QED BY <1>0, <1>5, <3>1, <3>2, AcceptFacts
  <2> QED BY <2>2 DEF ClosingInv
<1>6. CASE Scan
  <2>1. PICK i \in Slots :
           /\ i \in 1 .. idx /\ tbl[i].rev /\ frames = <<>> /\ pc = "scan" /\ Untouched
           /\ UNCHANGED <<gone, asked>>
           /\ \/ UNCHANGED <<frames, int_pack, hurt>>
              \/ Call([then |-> "data", i |-> i, c |-> tbl[i].c],
                      Pack("DATA", tbl[i].c, inbox[tbl[i].c]))
              \/ ~Packet(i) /\ UNCHANGED inbox /\ NotifyClosed(i)
    BY <1>6, ScanFacts
  <2>2. CASE UNCHANGED <<frames, int_pack, hurt>>
    BY <1>2, <2>1, <2>2
  <2>3. CASE Call([then |-> "data", i |-> i, c |-> tbl[i].c],
                  Pack("DATA", tbl[i].c, inbox[tbl[i].c]))
    <3> DEFINE f == [then |-> "data", i |-> i, c |-> tbl[i].c]
    <3>1. frames' = <<f>> \o <<>>
      BY <2>1, <2>3 DEF Call
    <3>2. f \in {f} /\ <<>> \in Seq({f})
      OBVIOUS
    <3>3. frames'[1] = f
      <4> HIDE DEF f
      <4> QED BY <3>1, <3>2, PushFacts
    <3> QED BY <3>3 DEF ClosingInv
  <2>4. CASE ~Packet(i) /\ UNCHANGED inbox /\ NotifyClosed(i)
    <3>1. frames'[1].c = tbl[i].c /\ frames'[1].i = i /\ hurt \subseteq hurt'
      <4>1. frames'[1] = [then |-> "close", i |-> i, c |-> tbl[i].c] /\ hurt \subseteq hurt'
        BY <1>0, <2>4, PushClose
      <4> QED BY <4>1
    <3>2. tbl'[i].c = tbl[i].c /\ tbl'[i].fd = tbl[i].fd
      BY <2>1 DEF Untouched
    <3>3. CASE tbl[i].fd = NoFd
      BY <3>1, <3>2, <3>3 DEF ClosingInv
    <3>4. CASE tbl[i].fd # NoFd
      <4>1. tbl[i].c \in Conns
        BY <1>0, <3>4, TypeParts DEF FdInv
      <4>2. inbox[tbl[i].c] = "broken" \/ inbox[tbl[i].c] = "none"
        BY <2>4, <3>4 DEF Packet
      <4>3. MarkIsFresh(i)
        BY <1>0, <2>1 DEF MarksInv
      <4>4. tbl[i].c \notin hurt' => CauseOf(tbl[i].c)
        BY <2>1, <3>1, <3>4, <4>2, <4>3 DEF MarkIsFresh, CauseOf
      <4> QED BY <2>1, <2>4, <3>1, <4>1, <4>4 DEF ClosingInv, CauseOf
    <3> QED BY <3>3, <3>4
  <2> QED BY <2>1, <2>2, <2>3, <2>4
<1>7. CASE \/ Poll \/ TogDone \/ ScanBegin \/ ScanEnd \/ RoundEnd \/ \E i \in Slots : Timeout(i)
  <2>1. frames' = frames /\ (frames = <<>> \/ pc \in {"poll", "timeouts"})
    BY <1>7 DEF Poll, TogDone, ScanBegin, ScanEnd, RoundEnd, Timeout
  <2> QED BY <1>0, <1>2, <2>1 DEF FramesInv
<1>8. CASE ClientStep \/ \E p \in PPs : PPStep(p)
  <2>1. SameNames /\ UNCHANGED <<frames, hurt>>
    BY <1>8, OutsideFacts DEF SPKeeps, spvars, SameNames
  <2> QED BY <1>0, <1>3, <1>8, <2>1, OutsideCauses
<1>9. CASE UNCHANGED vars
  BY <1>3, <1>9 DEF vars, spvars, clvars, history, SameNames
<1> QED BY <1>1, <1>4, <1>5, <1>6, <1>7, <1>8, <1>9 DEF Next, SPStep, SpipeWait, RoundTog

LEMMA MarksStep ==
  ASSUME TypeOK, IInv, [Next]_vars
  PROVE  MarksInv'
<1>0. FramesInv /\ PackInv /\ FdInv /\ ListedInv /\ CauseInv /\ MarksInv /\ WorkInv
  BY DEF IInv, CauseInv
<1>a. idx \in Nat /\ cnt \in Nat /\ Slots \subseteq Nat /\ 1 .. idx \subseteq Slots
      /\ 1 .. cnt \subseteq Slots
  BY TypeParts, ConstFacts
<1>1. ASSUME NEW k \in Slots, MarkIsFresh(k), tbl'[k].c = tbl[k].c, tbl'[k].fd = tbl[k].fd,
             tbl'[k].rev = tbl[k].rev, hurt \subseteq hurt', gone \subseteq gone',
             \A c \in Conns : inbox[c] # "none" => inbox'[c] = inbox[c]
      PROVE  MarkIsFresh(k)'
  <2>1. tbl[k].fd # NoFd => tbl[k].c \in Conns
    BY <1>0, TypeParts DEF FdInv
  <2> QED BY <1>1, <2>1 DEF MarkIsFresh
<1>2. ASSUME Untouched, UNCHANGED <<pc, idx>>, hurt \subseteq hurt', gone \subseteq gone',
             \A c \in Conns : inbox[c] # "none" => inbox'[c] = inbox[c]
      PROVE  MarksInv'
  <2>1. \A k \in Slots : MarkIsFresh(k) => MarkIsFresh(k)'
    BY <1>1, <1>2 DEF Untouched
  <2> QED BY <1>0, <1>2, <1>a, <2>1 DEF MarksInv, Untouched
<1>3. CASE SpipeSend
  <2>0. PICK f \in Frame : f = Head(frames)
    BY <1>0, <1>3, PopFrame
  <2>1. /\ frames # <<>> /\ frames[1] \in Frame /\ f = frames[1] /\ hurt \subseteq hurt'
        /\ frames' = <<>> => LastFrame = frames[1]
    BY <1>0, <1>3, <2>0, PopFrame
  <2>2. UNCHANGED <<pc, idx, inbox, gone>>
    BY <1>3 DEF SpipeSend, clvars
  <2>3. CASE tbl' = tbl
    BY <1>2, <2>1, <2>2, <2>3, TypeParts DEF Untouched
  <2>4. CASE RemoveEntry(f.i, f.c) /\ ~(f.i > cnt \/ tbl[f.i].c # f.c)
    <3>0. f.i \in Slots
      BY DEF Frame
    <3>1. f.i \in Slots /\ f.i <= cnt /\ tbl[f.i].c = f.c
      <4>1. f.i \in Nat /\ cnt \in Nat
        BY <1>a, <3>0
      <4>2. ~(f.i > cnt) /\ tbl[f.i].c = f.c
        BY <2>4
      <4> QED BY <3>0, <4>1, <4>2
    <3>2. /\ cnt \in Slots /\ cnt' = cnt - 1
          /\ tbl'[cnt].c = tbl[cnt].c /\ tbl'[cnt].fd = NoFd
          /\ f.i # cnt => tbl'[f.i] = tbl[cnt]
          /\ \A k \in Slots : k # f.i /\ k # cnt => tbl'[k] = tbl[k]
      BY <2>4, <3>1, RemoveEntryFacts
    <3>3. ASSUME NEW k \in Slots, k # f.i \/ f.i = cnt, MarkIsFresh(k) PROVE MarkIsFresh(k)'
      <4>1. CASE k = cnt
        BY <3>2, <4>1 DEF MarkIsFresh
      <4>2. CASE k # cnt
        BY <1>1, <2>1, <2>2, <3>2, <3>3, <4>2
      <4> QED BY <4>1, <4>2
    <3>4. ASSUME f.i # cnt, MarkIsFresh(cnt) \/ tbl[cnt].c \in hurt' PROVE MarkIsFresh(f.i)'
      <4>1. tbl'[f.i] = tbl[cnt]
        BY <3>2, <3>4
      <4>2. tbl[cnt].fd # NoFd => tbl[cnt].c \in Conns
        BY <1>0, <3>2, TypeParts DEF FdInv
      <4> QED BY <2>1, <2>2, <3>1, <3>4, <4>1, <4>2 DEF MarkIsFresh
    <3>5. CASE pc \in {"tog", "accept"}
      <4>1. \A k \in Slots : MarkIsFresh(k)
        BY <1>0, <3>5 DEF MarksInv
      <4>2. \A k \in Slots : MarkIsFresh(k)'
        BY <3>2, <3>3, <3>4, <4>1
      <4> QED BY <2>2, <3>5, <4>2 DEF MarksInv
    <3>6. CASE pc = "scan"
      <4>1. \A k \in 1 .. idx : MarkIsFresh(k)
        BY <1>0, <3>6 DEF MarksInv
      <4>2. ASSUME NEW k \in 1 .. idx PROVE MarkIsFresh(k)'
        <5>1. CASE k # f.i \/ f.i = cnt
          BY <1>a, <3>3, <4>1, <5>1
        <5>2. CASE k = f.i /\ f.i # cnt
          <6>1. frames' # <<>>
            <7>1. frames' = <<>> => f.i > idx
              BY <1>0, <2>1, <3>6 DEF FramesInv
            <7> QED BY <1>a, <4>2, <5>2, <7>1
          <6>2. f.i < cnt /\ cnt' < cnt
            BY <1>a, <3>1, <3>2, <5>2
          <6>3. f.then = "close"
            BY <1>0, <1>3, <2>1, <6>1, PopFrame
          <6>4. tbl[cnt].c \in hurt'
            BY <1>3, <2>0, <6>1, <6>2, <6>3 DEF SpipeSend
          <6> QED BY <3>4, <5>2, <6>4
        <5> QED BY <5>1, <5>2
      <4> QED BY <2>2, <3>6, <4>2 DEF MarksInv
    <3>7. pc \in {"tog", "accept", "scan"}
      BY <1>0, <2>1 DEF FramesInv
    <3> QED BY <3>5, <3>6, <3>7
  <2>5. tbl' = tbl \/ (RemoveEntry(f.i, f.c) /\ ~(f.i > cnt \/ tbl[f.i].c # f.c))
    BY <1>3, <2>0 DEF SpipeSend, RemoveEntry
  <2> QED BY <2>3, <2>4, <2>5
<1>4. ASSUME TogProcess, UNCHANGED <<pc, idx>> PROVE MarksInv'
  <2>1. Untouched /\ UNCHANGED <<gone, inbox>>
    BY <1>0, <1>4, TogFacts DEF TogProcess, clvars
  <2>2. hurt \subseteq hurt'
    <3>1. \A i \in Slots : NotifyClosed(i) => hurt \subseteq hurt'
      BY DEF NotifyClosed, Call
    <3> QED BY <1>0, <1>4, <3>1, TogFacts DEF Listed
  <2> QED BY <1>2, <1>4, <2>1, <2>2
<1>5. CASE Poll
  <2> DEFINE ready == {i \in Listed : tbl[i].fd # NoFd /\ Readable(tbl[i].c)}
  <2>1. \A e \in Entry, b \in BOOLEAN :
          [e EXCEPT !.rev = b].c = e.c /\ [e EXCEPT !.rev = b].fd = e.fd /\ [e EXCEPT !.rev = b].rev = b
    BY DEF Entry
  <2>2. tbl' = [i \in Slots |-> IF i \in Listed THEN [tbl[i] EXCEPT !.rev = i \in ready]
                                                ELSE tbl[i]]
    BY <1>5 DEF Poll
  <2>3. \A i \in Slots : (i \in ready) \in BOOLEAN
    OBVIOUS
  <2>4. \A i \in ready : inbox[tbl[i].c] # "none" \/ tbl[i].c \in gone
    BY DEF Readable
  <2>5. pc' \in {"tog", "accept"} /\ UNCHANGED <<inbox, gone>> /\ pc = "poll"
    BY <1>5 DEF Poll, clvars
  <2>6. \A i \in Slots : ~tbl[i].rev
    BY <1>0, <2>5 DEF MarksInv
  <2> HIDE DEF ready
  <2>7. ASSUME NEW i \in Slots PROVE MarkIsFresh(i)'
    <3>1. CASE i \in Listed
      <4>1. tbl'[i].c = tbl[i].c /\ (tbl'[i].rev => i \in ready)
        BY <2>1, <2>2, <2>3, <3>1, TypeParts
      <4> QED BY <2>4, <2>5, <4>1 DEF MarkIsFresh
    <3>2. CASE i \notin Listed
      BY <2>2, <2>6, <3>2 DEF MarkIsFresh
    <3> QED BY <3>1, <3>2
  <2> QED BY <2>5, <2>7 DEF MarksInv
<1>6. CASE TogDone \/ ScanBegin
  <2>1. \A k \in Slots : MarkIsFresh(k)
    BY <1>0, <1>6 DEF TogDone, ScanBegin, MarksInv
  <2>2. UNCHANGED <<tbl, inbox, gone, hurt>> /\ pc' \in {"accept", "scan"}
        /\ (pc' = "scan" => idx' = cnt)
    BY <1>6 DEF TogDone, ScanBegin, clvars, history
  <2>3. \A k \in Slots : MarkIsFresh(k)'
    BY <2>1, <2>2 DEF MarkIsFresh
  <2> QED BY <1>a, <2>2, <2>3 DEF MarksInv
<1>7. CASE Accept
  <2>1. /\ pc = "accept" /\ pc' = pc /\ hurt' = hurt /\ UNCHANGED <<inbox, gone>>
    BY <1>0, <1>7, AcceptFacts DEF clvars
  <2>2. \A k \in Slots : MarkIsFresh(k)
    BY <1>0, <2>1 DEF MarksInv
  <2>3. ASSUME NEW k \in Slots PROVE tbl'[k] = tbl[k] \/ ~tbl'[k].rev
    <3>1. CASE UNCHANGED tbl
      BY <3>1
    <3>2. CASE /\ tbl'[cnt + 1] = [c |-> nacc', fd |-> fdOf'[nacc'], started |-> 2, rev |-> FALSE]
               /\ \A j \in Slots : j # cnt + 1 => tbl'[j] = tbl[j]
      BY <3>2
    <3> QED BY <1>0, <1>7, <3>1, <3>2, AcceptFacts
  <2>4. \A k \in Slots : MarkIsFresh(k)'
    BY <2>1, <2>2, <2>3 DEF MarkIsFresh
  <2> QED BY <2>1, <2>4 DEF MarksInv
<1>8. CASE Scan
  <2>1. PICK i \in Slots :
           /\ i \in 1 .. idx /\ frames = <<>> /\ pc = "scan" /\ pc' = pc /\ idx' = i - 1
           /\ Untouched /\ UNCHANGED gone
           /\ \/ Packet(i) /\ inbox' = [inbox EXCEPT ![tbl[i].c] = "none"]
              \/ UNCHANGED inbox
           /\ \/ UNCHANGED <<frames, int_pack, hurt>>
              \/ Call([then |-> "data", i |-> i, c |-> tbl[i].c],
                      Pack("DATA", tbl[i].c, inbox[tbl[i].c]))
              \/ NotifyClosed(i)
    BY <1>8, ScanFacts
  <2>2. hurt' = hurt
    BY <2>1 DEF Call, NotifyClosed
  <2>3. \A k \in 1 .. idx' : k \in 1 .. idx /\ k # i /\ k \in Slots
    BY <1>a, <2>1
  <2>4. ASSUME NEW k \in 1 .. idx' PROVE MarkIsFresh(k)'
    <3>1. MarkIsFresh(k)
      BY <1>0, <2>1, <2>3, <2>4 DEF MarksInv
    <3>2. /\ tbl'[k].c = tbl[k].c /\ tbl'[k].fd = tbl[k].fd /\ tbl'[k].rev = tbl[k].rev
      BY <2>1, <2>3, <2>4 DEF Untouched
    <3>3. ASSUME tbl[k].fd # NoFd PROVE inbox'[tbl[k].c] = inbox[tbl[k].c]
      <4>1. CASE UNCHANGED inbox
        BY <4>1
      <4>2. CASE Packet(i) /\ inbox' = [inbox EXCEPT ![tbl[i].c] = "none"]
        <5>1. tbl[k].c # tbl[i].c /\ tbl[k].c \in Conns
          BY <1>0, <2>3, <2>4, <3>3, <4>2, TypeParts DEF Packet, FdInv
        <5> QED BY <4>2, <5>1 DEF TypeOK
      <4> QED BY <2>1, <4>1, <4>2
    <3> QED BY <2>1, <2>2, <3>1, <3>2, <3>3 DEF MarkIsFresh
  <2> QED BY <2>1, <2>4 DEF MarksInv
<1>9. CASE ScanEnd
  <2>1. \A e \in Entry : [e EXCEPT !.rev = FALSE].rev = FALSE
    BY DEF Entry
  <2>2. tbl' = [i \in Slots |-> IF i \in Listed THEN [tbl[i] EXCEPT !.rev = FALSE] ELSE Blank]
    BY <1>9 DEF ScanEnd
  <2>3. \A i \in Slots : ~tbl'[i].rev
    BY <2>1, <2>2, TypeParts DEF Blank
  <2>4. pc' = "timeouts"
    BY <1>9 DEF ScanEnd
  <2> QED BY <2>3, <2>4 DEF MarksInv
<1>10. CASE RoundEnd
  BY <1>0, <1>10 DEF RoundEnd, MarksInv
<1>11. ASSUME NEW i \in Slots, Timeout(i) PROVE MarksInv'
  <2>1. pc = "timeouts" /\ pc' = pc /\ i <= cnt /\ RemoveEntry(i, tbl[i].c)
    BY <1>11 DEF Timeout, Listed
  <2>2. /\ cnt \in Slots /\ tbl'[cnt].rev = tbl[cnt].rev
        /\ i # cnt => tbl'[i] = tbl[cnt]
        /\ \A k \in Slots : k # i /\ k # cnt => tbl'[k] = tbl[k]
    BY <2>1, RemoveEntryFacts
  <2>3. \A k \in Slots : ~tbl[k].rev
    BY <1>0, <2>1 DEF MarksInv
  <2>4. \A k \in Slots : ~tbl'[k].rev
    BY <2>2, <2>3
  <2> QED BY <2>1, <2>4 DEF MarksInv
<1>12. CASE ClientStep \/ \E p \in PPs : PPStep(p)
  <2>1. UNCHANGED <<pc, idx, tbl, hurt>>
    BY <1>12, OutsideFacts DEF SPKeeps, spvars
  <2> QED BY <1>0, <1>2, <1>12, <2>1, OutsideCauses, TypeParts DEF Untouched
<1>13. CASE UNCHANGED vars
  BY <1>2, <1>13, TypeParts DEF vars, spvars, clvars, history, Untouched
<1> QED BY <1>3, <1>4, <1>5, <1>6, <1>7, <1>8, <1>9, <1>10, <1>11, <1>12, <1>13
           DEF Next, SPStep, SpipeWait, RoundTog

----------------------------------------------------------------------------
(* The packet processors' side. *)

\* A connection that had a descriptor once is known for good.
LEMMA KnownKept ==
  ASSUME TypeOK, IInv, [Next]_vars, NEW c \in Known
  PROVE  c \in Known'
<1>0. FramesInv /\ FdInv
  BY DEF IInv
<1>1. CASE fdOf' = fdOf
  BY <1>1 DEF Known
<1>2. CASE Accept
  <2>1. c <= nacc /\ nacc' = nacc + 1 /\ c \in Nat
    BY <1>0, <1>2, AcceptFacts, ConstFacts DEF Known, FdInv
  <2>2. c # nacc'
    <3>1. nacc \in Nat
      BY TypeParts
    <3> QED BY <2>1, <3>1
  <2>3. CASE fdOf' = fdOf
    BY <1>1, <2>3
  <2>4. CASE \A d \in Conns : d # nacc' => fdOf'[d] = fdOf[d]
    BY <2>2, <2>4 DEF Known
  <2> QED BY <1>0, <1>2, <2>3, <2>4, AcceptFacts
<1>3. fdOf' = fdOf \/ Accept
  BY OutsideFacts DEF Next, SPStep, SpipeSend, SpipeWait, RoundTog, TogProcess, Poll, TogDone,
     ScanBegin, Scan, ScanEnd, RoundEnd, Timeout, SPKeeps, vars
<1> QED BY <1>1, <1>2, <1>3

\* The operations of a handler are on known connections.
LEMMA HandlerWork ==
  ASSUME TypeOK, WorkInv, NEW c \in Known, NEW what \in {"auth", "cookie", "snac", "junk"},
         NEW h \in Handlers(c, what)
  PROVE  \A k \in 1 .. Len(h) : OpOn(Known, h[k])
<1>0. \A d, v : d \in Known /\ v \in Uins =>
        /\ \A e : OpOn(Known, Do(e, d, v))
        /\ OpOn(Known, Do("DATA", d, 0)) /\ OpOn(Known, Do("CLOSE", d, 0))
  BY DEF Do, OpOn
<1>1. OpOn(Known, Do("DATA", c, 0)) /\ OpOn(Known, Do("CLOSE", c, 0))
  BY DEF Do, OpOn
<1>2. CASE what = "auth"
  <2>1. Handlers(c, what) = UNION {Authorize(c, u) : u \in Uins}
    BY <1>2 DEF Handlers
  <2>2. PICK u \in Uins : h \in Authorize(c, u)
    BY <2>1
  <2>3. OpOn(Known, Do("COOKIE", c, u)) /\ OpOn(Known, Do("OFFLINE", c, u))
    BY <1>0
  <2>4. CASE h = <<Do("DATA", c, 0), Do("CLOSE", c, 0)>>
    <3> HIDE DEF OpOn
    <3> QED BY <1>1, <2>4
  <2>5. CASE h = <<Do("COOKIE", c, u), Do("DATA", c, 0)>>
    <3> HIDE DEF OpOn
    <3> QED BY <1>1, <2>3, <2>5
  <2>6. ASSUME NEW r \in UserOf(u),
               h = <<Do("DATA", r.c, 0), Do("OFFLINE", c, u), Do("COOKIE", c, u), Do("DATA", c, 0)>>
        PROVE  \A k \in 1 .. Len(h) : OpOn(Known, h[k])
    <3>1. OpOn(Known, Do("DATA", r.c, 0))
      BY DEF UserOf, WorkInv, OpOn, Do
    <3> HIDE DEF OpOn
    <3> QED BY <1>1, <2>3, <2>6, <3>1
  <2> QED BY <2>2, <2>4, <2>5, <2>6 DEF Authorize, Failed
<1>3. CASE what = "cookie"
  <2>1. h \in Signon(c) /\ cookies \subseteq Uins
    BY <1>3 DEF Handlers, TypeOK
  <2>2. CASE h = <<Do("CLOSE", c, 0)>>
    <3> HIDE DEF OpOn
    <3> QED BY <1>1, <2>2
  <2>3. ASSUME NEW u \in Uins, h = <<Do("UNCOOKIE", c, u), Do("INSERT", c, u)>>
        PROVE  \A k \in 1 .. Len(h) : OpOn(Known, h[k])
    <3>1. OpOn(Known, Do("UNCOOKIE", c, u)) /\ OpOn(Known, Do("INSERT", c, u))
      BY <1>0
    <3> HIDE DEF OpOn
    <3> QED BY <2>3, <3>1
  <2> QED BY <2>1, <2>2, <2>3 DEF Signon
<1>4. CASE what \in {"snac", "junk"}
  <2>1. h = <<Do("DATA", c, 0)>> \/ h = <<Do("CLOSE", c, 0)>>
    BY <1>4 DEF Handlers
  <2>2. CASE h = <<Do("DATA", c, 0)>>
    <3> HIDE DEF OpOn
    <3> QED BY <1>1, <2>2
  <2>3. CASE h = <<Do("CLOSE", c, 0)>>
    <3> HIDE DEF OpOn
    <3> QED BY <1>1, <2>3
  <2> QED BY <2>1, <2>2, <2>3
<1> QED BY <1>2, <1>3, <1>4

LEMMA ThenWork ==
  ASSUME TypeOK, WorkInv, NEW p \in PPs, NEW todo, Then(p, todo),
         \A k \in 1 .. Len(todo) : OpOn(Known, todo[k])
  PROVE  \A q \in PPs : \A k \in 1 .. Len(tasks'[q].todo) : OpOn(Known, tasks'[q].todo[k])
<1>1. tasks'[p].todo = todo /\ \A q \in PPs : q # p => tasks'[q] = tasks[q]
  BY DEF Then, Rest, TypeOK
<1>2. \A q \in PPs : \A k \in 1 .. Len(tasks[q].todo) : OpOn(Known, tasks[q].todo[k])
  BY DEF WorkInv
<1> QED BY <1>1, <1>2

LEMMA WorkStep ==
  ASSUME TypeOK, IInv, [Next]_vars
  PROVE  WorkInv'
<1>0. FramesInv /\ PackInv /\ FdInv /\ WorkInv
  BY DEF IInv
<1>1. Known \subseteq Known'
  BY KnownKept
<1>2. ASSUME \A j \in 1 .. Len(incoming') : MessageOn(Known, incoming'[j]),
             \A p \in PPs : \A k \in 1 .. Len(tasks'[p].todo) : OpOn(Known, tasks'[p].todo[k]),
             \A r \in online' : r.c \in Known
      PROVE  WorkInv'
  <2>1. \A m : MessageOn(Known, m) => MessageOn(Known', m)
    BY <1>1 DEF MessageOn
  <2>2. \A op : OpOn(Known, op) => OpOn(Known', op)
    BY <1>1 DEF OpOn
  <2> QED BY <1>1, <1>2, <2>1, <2>2 DEF WorkInv
<1>3. CASE UNCHANGED <<incoming, tasks, online>>
  BY <1>0, <1>2, <1>3 DEF WorkInv
<1>4. CASE SpipeSend
  <2>1. /\ frames # <<>> /\ incoming' = Append(incoming, int_pack)
        /\ tasks' = tasks /\ online' = online
    BY <1>4 DEF SpipeSend, dbvars
  <2>2. MessageOn(Known, int_pack)
    BY <1>0, <2>1 DEF PackInv, MessageOn, Known
  <2>3. /\ Len(incoming') = Len(incoming) + 1 /\ incoming'[Len(incoming) + 1] = int_pack
        /\ \A k \in 1 .. Len(incoming) : incoming'[k] = incoming[k]
    BY <2>1, TypeParts, QueueFacts
  <2>4. \A j \in 1 .. Len(incoming') : j \in 1 .. Len(incoming) \/ j = Len(incoming) + 1
    BY <2>3, TypeParts
  <2> QED BY <1>0, <1>2, <2>1, <2>2, <2>3, <2>4 DEF WorkInv
<1>5. ASSUME NEW p \in PPs, NEW todo, Then(p, todo), UNCHANGED incoming,
             \A k \in 1 .. Len(todo) : OpOn(Known, todo[k]),
             \A r \in online' : r.c \in Known
      PROVE  WorkInv'
  BY <1>0, <1>2, <1>5, ThenWork DEF WorkInv
<1>6. ASSUME NEW p \in PPs, tasks[p].todo # <<>>, Advance(p), UNCHANGED incoming,
             online' \subseteq online
      PROVE  WorkInv'
  <2>1. \A k \in 1 .. Len(Tail(tasks[p].todo)) : OpOn(Known, Tail(tasks[p].todo)[k])
    BY <1>0, <1>6, OpFacts
  <2>2. \A r \in online' : r.c \in Known
    BY <1>0, <1>6 DEF WorkInv
  <2> QED BY <1>5, <1>6, <2>1, <2>2 DEF Advance
<1>7. ASSUME NEW p \in PPs, PPReply(p) \/ CloseConnection(p) \/ PPOffline(p) \/ PPCookie(p)
      PROVE  WorkInv'
  <2>1. tasks[p].todo # <<>> /\ Advance(p) /\ UNCHANGED incoming
    BY <1>7 DEF PPReply, CloseConnection, PPOffline, PPCookie, Doing
  <2>2. online' \subseteq online
    BY <1>7 DEF PPReply, CloseConnection, PPOffline, PPCookie, MoveOffline, dbvars
  <2> QED BY <1>6, <2>1, <2>2
<1>8. ASSUME NEW p \in PPs, PPInsert(p) PROVE WorkInv'
  <2>1. /\ tasks[p].todo # <<>> /\ UNCHANGED incoming
        /\ online' = online \cup {[c |-> Op(p).c, uin |-> Op(p).uin]}
        /\ Then(p, IF Op(p).uin \notin odb
               THEN <<Do("RDY", Op(p).c, 0)>>
               ELSE <<Do("DATA", Op(p).c, 0), Do("CLOSE", Op(p).c, 0), Do("CLOSE", Op(p).c, 0)>>)
    BY <1>8 DEF PPInsert, Doing
  <2>2. Op(p).c \in Known
    BY <1>0, <2>1, OpFacts DEF OpOn
  <2>3. \A r \in online' : r.c \in Known
    BY <1>0, <2>1, <2>2 DEF WorkInv
  <2>4. /\ OpOn(Known, Do("DATA", Op(p).c, 0)) /\ OpOn(Known, Do("CLOSE", Op(p).c, 0))
        /\ OpOn(Known, Do("RDY", Op(p).c, 0))
    BY <2>2 DEF OpOn, Do
  <2>5. CASE Then(p, <<Do("RDY", Op(p).c, 0)>>)
    <3>1. \A k \in 1 .. Len(<<Do("RDY", Op(p).c, 0)>>) : OpOn(Known, <<Do("RDY", Op(p).c, 0)>>[k])
      BY <2>4
    <3> QED BY <1>5, <2>1, <2>3, <2>5, <3>1
  <2>6. CASE Then(p, <<Do("DATA", Op(p).c, 0), Do("CLOSE", Op(p).c, 0), Do("CLOSE", Op(p).c, 0)>>)
    <3> DEFINE s == <<Do("DATA", Op(p).c, 0), Do("CLOSE", Op(p).c, 0), Do("CLOSE", Op(p).c, 0)>>
    <3>1. \A k \in 1 .. Len(s) : OpOn(Known, s[k])
      BY <2>4
    <3> QED BY <1>5, <2>1, <2>3, <2>6, <3>1
  <2> QED BY <2>1, <2>5, <2>6
<1>9. ASSUME NEW p \in PPs, PPTake(p) PROVE WorkInv'
  <2> DEFINE m == Head(incoming)
  <2>1. incoming # <<>> /\ incoming' = Tail(incoming) /\ online' = online
    BY <1>9 DEF PPTake, dbvars
  <2>2. /\ m = incoming[1] /\ Len(incoming) \in Nat \ {0} /\ Len(incoming') = Len(incoming) - 1
        /\ \A k \in 1 .. Len(incoming) - 1 : incoming'[k] = incoming[k + 1]
    BY <2>1, TypeParts, PopFacts
  <2>3. 1 \in 1 .. Len(incoming)
        /\ \A j \in 1 .. Len(incoming') : j + 1 \in 1 .. Len(incoming) /\ incoming'[j] = incoming[j + 1]
    BY <2>2
  <2>4. /\ MessageOn(Known, m)
        /\ \A j \in 1 .. Len(incoming') : MessageOn(Known, incoming'[j])
    BY <1>0, <2>2, <2>3 DEF WorkInv
  <2>5. m.c \in Known /\ (m.evt = "DATA" => m.what \in {"auth", "cookie", "snac", "junk"})
    BY <2>4 DEF MessageOn
  <2>6. ASSUME NEW todo, tasks' = [tasks EXCEPT ![p] = [c |-> m.c, todo |-> todo]],
               \A k \in 1 .. Len(todo) : OpOn(Known, todo[k])
        PROVE  WorkInv'
    <3>1. tasks'[p].todo = todo /\ \A q \in PPs : q # p => tasks'[q] = tasks[q]
      BY <2>6 DEF TypeOK
    <3>2. \A q \in PPs : \A k \in 1 .. Len(tasks'[q].todo) : OpOn(Known, tasks'[q].todo[k])
      BY <1>0, <2>6, <3>1 DEF WorkInv
    <3> QED BY <1>0, <1>2, <2>1, <2>4, <3>2 DEF WorkInv
  <2>7. CASE tasks' = [tasks EXCEPT ![p] = [c |-> m.c, todo |-> <<Do("DATA", m.c, 0)>>]]
    <3>1. OpOn(Known, Do("DATA", m.c, 0))
      BY <2>5 DEF OpOn, Do
    <3>2. \A k \in 1 .. Len(<<Do("DATA", m.c, 0)>>) : OpOn(Known, <<Do("DATA", m.c, 0)>>[k])
      BY <3>1
    <3> QED BY <2>6, <2>7, <3>2
  <2>8. ASSUME NEW r \in SessionOf(m.c),
               tasks' = [tasks EXCEPT ![p] = [c |-> m.c, todo |-> <<Do("OFFLINE", m.c, r.uin)>>]]
        PROVE  WorkInv'
    <3>1. OpOn(Known, Do("OFFLINE", m.c, r.uin))
      BY <2>5 DEF OpOn, Do, SessionOf, TypeOK
    <3>2. \A k \in 1 .. Len(<<Do("OFFLINE", m.c, r.uin)>>) :
            OpOn(Known, <<Do("OFFLINE", m.c, r.uin)>>[k])
      BY <3>1
    <3> QED BY <2>6, <2>8, <3>2
  <2>9. CASE tasks' = tasks
    BY <1>0, <1>2, <2>1, <2>4, <2>9 DEF WorkInv
  <2>10. ASSUME m.evt = "DATA", NEW h \in Handlers(m.c, m.what),
                tasks' = [tasks EXCEPT ![p] = [c |-> m.c, todo |-> h]]
         PROVE  WorkInv'
    <3>1. \A k \in 1 .. Len(h) : OpOn(Known, h[k])
      <4> HIDE DEF m
      <4> QED BY <1>0, <2>5, <2>10, HandlerWork
    <3> QED BY <2>6, <2>10, <3>1
  <2> QED BY <1>9, <2>7, <2>8, <2>9, <2>10 DEF PPTake
<1>10. CASE ClientStep
  BY <1>3, <1>10 DEF ClientStep, Connect, Hangup, ClientSend, dbvars
<1>11. CASE \/ SpipeWait \/ RoundTog \/ Poll \/ TogDone \/ Accept \/ ScanBegin \/ Scan \/ ScanEnd
            \/ RoundEnd \/ \E i \in Slots : Timeout(i)
  BY <1>3, <1>11 DEF SpipeWait, RoundTog, TogProcess, Poll, TogDone, Accept, ScanBegin, Scan,
     ScanEnd, RoundEnd, Timeout, dbvars
<1>12. CASE UNCHANGED vars
  BY <1>3, <1>12 DEF vars, dbvars
<1> QED BY <1>4, <1>7, <1>8, <1>9, <1>10, <1>11, <1>12 DEF Next, SPStep, PPStep

LEMMA SessionStep ==
  ASSUME TypeOK, IInv, [Next]_vars
  PROVE  SessionInv'
<1>0. FramesInv /\ PackInv /\ FdInv /\ WorkInv /\ SessionInv /\ CauseInv
  BY DEF IInv
<1>1. ASSUME UNCHANGED <<fdOf, incoming>>, open \subseteq open' \cup timed', timed \subseteq timed',
             hurt \subseteq hurt', ended \subseteq ended', online' \subseteq online, doubled' = doubled
      PROVE  SessionInv'
  <2>1. \A c : TermIn(c) => TermIn(c)'
    BY <1>1 DEF TermIn
  <2> QED BY <1>0, <1>1, <2>1 DEF SessionInv
<1>2. CASE SpipeSend
  <2>1. /\ frames # <<>> /\ incoming' = Append(incoming, int_pack)
        /\ UNCHANGED <<fdOf, timed, ended, online, doubled>> /\ hurt \subseteq hurt'
    BY <1>2 DEF SpipeSend, dbvars
  <2>2. /\ Len(incoming') = Len(incoming) + 1 /\ incoming'[Len(incoming) + 1] = int_pack
        /\ \A k \in 1 .. Len(incoming) : incoming'[k] = incoming[k]
    BY <2>1, TypeParts, QueueFacts
  <2>3. /\ \A j \in 1 .. Len(incoming) : j \in 1 .. Len(incoming')
        /\ Len(incoming) + 1 \in 1 .. Len(incoming')
    BY <2>2, TypeParts
  <2>4. \A c : TermIn(c) => TermIn(c)'
    BY <2>2, <2>3 DEF TermIn
  <2>6. ASSUME NEW c \in open \ open' PROVE c \in hurt \/ TermIn(c)'
    <3>1. Head(frames).then = "close" /\ c = Head(frames).c
      BY <1>2, <2>6 DEF SpipeSend, RemoveEntry
    <3>2. Head(frames) = frames[1]
      BY <1>0, <1>2, PopFrame
    <3>3. c \notin hurt => int_pack.c = c /\ int_pack.evt = "TERM"
      BY <1>0, <2>1, <3>1, <3>2 DEF PackInv
    <3> QED BY <2>2, <2>3, <3>3 DEF TermIn
  <2> QED BY <1>0, <2>1, <2>4, <2>6 DEF SessionInv
<1>3. ASSUME TogProcess PROVE SessionInv'
  <2>1. hurt \subseteq hurt'
    <3>1. \A i \in Slots : NotifyClosed(i) => hurt \subseteq hurt'
      BY DEF NotifyClosed, Call
    <3> QED BY <1>0, <1>3, <3>1, TogFacts DEF Listed
  <2> QED BY <1>1, <1>3, <2>1 DEF TogProcess, dbvars
<1>4. CASE Accept
  <2>1. hurt' = hurt /\ UNCHANGED <<incoming, timed, ended, online, doubled>>
    BY <1>0, <1>4, AcceptFacts DEF dbvars
  <2>2. \A c : TermIn(c) => TermIn(c)'
    BY <2>1 DEF TermIn
  <2>3. CASE UNCHANGED <<open, fdOf>>
    BY <1>0, <2>1, <2>2, <2>3 DEF SessionInv
  <2>4. CASE /\ open' = open \cup {nacc'}
             /\ \A c \in Conns : c # nacc' => fdOf'[c] = fdOf[c]
    BY <1>0, <2>1, <2>2, <2>4 DEF SessionInv
  <2> QED BY <1>0, <1>4, <2>3, <2>4, AcceptFacts
<1>5. CASE Scan
  <2>1. hurt \subseteq hurt' /\ UNCHANGED <<fdOf, open, incoming, dbvars, ended, doubled, timed>>
    <3>1. PICK i \in Slots :
             /\ UNCHANGED <<fdOf, open, incoming, dbvars, ended, doubled, timed>>
             /\ \/ UNCHANGED <<frames, int_pack, hurt>>
                \/ Call([then |-> "data", i |-> i, c |-> tbl[i].c],
                        Pack("DATA", tbl[i].c, inbox[tbl[i].c]))
                \/ NotifyClosed(i)
      BY <1>5, ScanFacts
    <3> QED BY <3>1 DEF NotifyClosed, Call
  <2> QED BY <1>1, <2>1 DEF dbvars
<1>6. CASE Poll \/ TogDone \/ ScanBegin \/ ScanEnd \/ RoundEnd
  BY <1>1, <1>6 DEF Poll, TogDone, ScanBegin, ScanEnd, RoundEnd, history, dbvars
<1>7. ASSUME NEW i \in Slots, Timeout(i) PROVE SessionInv'
  <2>1. open \subseteq open' \cup timed' /\ timed \subseteq timed'
    BY <1>7 DEF Timeout, RemoveEntry
  <2> QED BY <1>1, <1>7, <2>1 DEF Timeout, dbvars
<1>8. ASSUME NEW p \in PPs, PPTake(p) PROVE SessionInv'
  <2> DEFINE m == Head(incoming)
  <2>1. /\ incoming # <<>> /\ incoming' = Tail(incoming)
        /\ UNCHANGED <<fdOf, open, timed, hurt, online, doubled>>
        /\ ended' = IF m.evt = "TERM" THEN ended \cup {m.c} ELSE ended
    BY <1>8 DEF PPTake, dbvars
  <2>2. /\ m = incoming[1] /\ Len(incoming) \in Nat \ {0} /\ Len(incoming') = Len(incoming) - 1
        /\ \A k \in 1 .. Len(incoming) - 1 : incoming'[k] = incoming[k + 1]
    BY <2>1, TypeParts, PopFacts
  <2>3. ASSUME NEW j \in 1 .. Len(incoming), j # 1
        PROVE  j - 1 \in 1 .. Len(incoming') /\ incoming'[j - 1] = incoming[j]
    <3>1. j - 1 \in 1 .. Len(incoming) - 1 /\ (j - 1) + 1 = j
      BY <2>2, <2>3
    <3> QED BY <2>2, <3>1
  <2>4. \A c : TermIn(c) => TermIn(c)' \/ c \in ended'
    BY <2>1, <2>2, <2>3 DEF TermIn
  <2>5. ended \subseteq ended'
    BY <2>1
  <2> QED BY <1>0, <2>1, <2>4, <2>5 DEF SessionInv
<1>9. ASSUME NEW p \in PPs, PPReply(p) \/ CloseConnection(p) \/ PPOffline(p) \/ PPCookie(p)
      PROVE  SessionInv'
  <2>1. online' \subseteq online
    BY <1>9 DEF PPReply, CloseConnection, PPOffline, PPCookie, MoveOffline, dbvars
  <2> QED BY <1>1, <1>9, <2>1 DEF PPReply, CloseConnection, PPOffline, PPCookie, history
<1>10. ASSUME NEW p \in PPs, PPInsert(p) PROVE SessionInv'
  <2>1. /\ UNCHANGED <<fdOf, open, timed, hurt, ended, incoming>>
        /\ online' = online \cup {[c |-> Op(p).c, uin |-> Op(p).uin]}
    BY <1>10 DEF PPInsert
  <2>2. PICK n : n = [c |-> Op(p).c, uin |-> Op(p).uin]
    OBVIOUS
  <2>3. n.c = Op(p).c /\ n.uin = Op(p).uin
    BY <2>2
  <2>4. doubled' = LET others == UserOf(n.uin) \cup SessionOf(n.c)
                   IN  IF others = {} THEN doubled
                       ELSE doubled \cup {n.uin} \cup {r.uin : r \in others}
    BY <1>10, <2>3 DEF PPInsert
  <2>5. doubled \subseteq doubled'
    BY <2>4
  <2>6. \A r \in online : r.uin = n.uin \/ r.c = n.c => r.uin \in doubled' /\ n.uin \in doubled'
    BY <2>4 DEF UserOf, SessionOf
  <2>7. ASSUME NEW r \in online', NEW s \in online', r # s, r.uin = s.uin \/ r.c = s.c
        PROVE  r.uin \in doubled'
    <3>1. CASE r \in online /\ s \in online
      BY <1>0, <2>5, <2>7, <3>1 DEF SessionInv
    <3>2. CASE r = n /\ s \in online
      BY <2>6, <2>7, <3>2
    <3>3. CASE r \in online /\ s = n
      BY <2>6, <2>7, <3>3
    <3> QED BY <2>1, <2>2, <2>7, <3>1, <3>2, <3>3
  <2>8. \A c : TermIn(c) => TermIn(c)'
    BY <2>1 DEF TermIn
  <2> QED BY <1>0, <2>1, <2>7, <2>8 DEF SessionInv
<1>11. CASE ClientStep
  BY <1>1, <1>11 DEF ClientStep, Connect, Hangup, ClientSend, dbvars, history
<1>12. CASE UNCHANGED vars
  BY <1>1, <1>12 DEF vars, dbvars, history
<1> QED BY <1>2, <1>3, <1>4, <1>5, <1>6, <1>7, <1>8, <1>9, <1>10, <1>11, <1>12
           DEF Next, SPStep, SpipeWait, RoundTog, PPStep

\* The whole invariant holds at the start, and every step preserves it.
LEMMA InitInv ==
  ASSUME Init
  PROVE  TypeOK /\ IInv
<1> USE ConstFacts
<1>1. /\ bsd \in BOOLEAN /\ frames = <<>> /\ incoming = <<>> /\ toutgoing = <<>>
      /\ open = {} /\ online = {} /\ hurt = {} /\ evs = {} /\ cnt = 0 /\ pc = "poll"
      /\ idx = 0 /\ budget = 0 /\ came = 0 /\ nacc = 0 /\ nsent = 0 /\ gone = {}
      /\ int_pack = NoPack /\ odb = {} /\ cookies = Uins
      /\ ended = {} /\ late = {} /\ doubled = {} /\ timed = {} /\ asked = {}
  BY FlagsAssumption DEF Init
<1>2. /\ tbl \in [Slots -> Entry] /\ \A i \in Slots : tbl[i].fd = NoFd /\ ~tbl[i].rev
  BY DEF Init, Blank, Entry
<1>3. /\ fdOf \in [Conns -> 0 .. MaxConns] /\ \A c \in Conns : fdOf[c] = NoFd
  BY DEF Init
<1>4. inbox \in [Conns -> AllKinds \cup {"none"}]
  BY DEF Init
<1>5. /\ tasks \in [PPs -> [c : 0 .. MaxConns, todo : Seq(Ops)]]
      /\ \A p \in PPs : tasks[p].todo = <<>>
  <2>1. Rest \in [c : 0 .. MaxConns, todo : Seq(Ops)] /\ Rest.todo = <<>>
    BY DEF Rest
  <2> QED BY <2>1 DEF Init
<1>6. /\ frames \in Seq([then : {"close", "accept", "data"}, i : Slots, c : 0 .. MaxConns])
      /\ incoming \in Seq(Packs) /\ toutgoing \in Seq(Packs)
      /\ Len(frames) = 0 /\ Len(incoming) = 0 /\ Len(toutgoing) = 0 /\ PipeCap \in Nat
  BY <1>1, PipesAssumption
<1>7. int_pack \in Packs
  BY <1>1 DEF NoPack, Packs
<1>8. TypeOK
  <2>1. nsent \in 0 .. MaxSends
    BY <1>1, ConnsAssumption
  <2>2. Len(incoming) <= PipeCap /\ Len(toutgoing) <= PipeCap
    BY <1>6
  <2> QED BY <1>1, <1>2, <1>3, <1>4, <1>5, <1>6, <1>7, <2>1, <2>2 DEF TypeOK, Entry
<1>9. Listed = {}
  BY <1>1 DEF Listed
<1>10. FramesInv
  BY <1>1, <1>6 DEF FramesInv
<1>11. PackInv /\ FdInv
  BY <1>1, <1>2, <1>3 DEF PackInv, FdInv
<1>12. ListedInv
  BY <1>1, <1>2, <1>9 DEF ListedInv, Accepting
<1>13. CauseInv
  BY <1>1, <1>2, <1>6 DEF CauseInv, AskedInv, ClosingInv, MarksInv
<1>14. WorkInv
  <2>1. \A p \in PPs : Len(tasks[p].todo) = 0
    BY <1>5
  <2> QED BY <1>1, <1>6, <2>1 DEF WorkInv
<1>15. SessionInv
  BY <1>1, <1>3 DEF SessionInv
<1> QED BY <1>8, <1>10, <1>11, <1>12, <1>13, <1>14, <1>15 DEF IInv

LEMMA InvStep ==
  ASSUME TypeOK, IInv, [Next]_vars
  PROVE  TypeOK' /\ IInv'
<1>1. FramesInv /\ PackInv /\ FdInv /\ ListedInv /\ CauseInv /\ WorkInv /\ SessionInv
  BY DEF IInv
<1>2. TypeOK'
  BY <1>1, TypeStep
<1>3. FramesInv' /\ PackInv' /\ FdInv' /\ ListedInv'
  BY <1>1, FramesStep, PackStep, FdStep, ListedStep
<1>4. AskedInv' /\ ClosingInv' /\ MarksInv'
  BY <1>1, AskedStep, ClosingStep, MarksStep DEF IInv
<1>5. WorkInv' /\ SessionInv'
  BY <1>1, WorkStep, SessionStep
<1> QED BY <1>2, <1>3, <1>4, <1>5 DEF IInv, CauseInv

LEMMA Invariance == Spec => [](TypeOK /\ IInv)
<1>1. Init => TypeOK /\ IInv
  BY InitInv
<1>2. (TypeOK /\ IInv) /\ [Next]_vars => (TypeOK /\ IInv)'
  BY InvStep
<1> QED BY <1>1, <1>2, PTL DEF Spec

----------------------------------------------------------------------------
(* The theorems. *)

\* Between rounds the connection table is exact: every connection SP holds open, but for
\* those a wait for the pipe disturbed, has one entry and one only, whatever entries
\* close_socket_index_r has moved; and if nothing was disturbed it lists nothing else.
THEOREM TableStaysExact == Spec => []TableIsExact
<1>1. TypeOK /\ IInv => TableIsExact
  <2> SUFFICES ASSUME TypeOK, IInv, pc = "poll"
               PROVE  /\ \A c \in open \ hurt : Cardinality(EntriesOf(c)) = 1
                      /\ \A i \in Listed : tbl[i].c \in open \/ hurt # {}
    BY DEF TableIsExact
  <2>1. frames = <<>> /\ FdInv /\ ListedInv
    BY DEF IInv, FramesInv
  <2>2. ASSUME NEW c \in open \ hurt PROVE Cardinality(EntriesOf(c)) = 1
    <3>1. PICK i \in Listed : tbl[i].c = c /\ tbl[i].fd # NoFd
      BY <2>1 DEF ListedInv, Accepting, Listed
    <3>2. i \in Slots /\ fdOf[c] = tbl[i].fd
      BY <2>1, <3>1 DEF FdInv, Listed
    <3>3. i \in EntriesOf(c)
      BY <3>1, <3>2 DEF EntriesOf
    <3>4. \A j \in EntriesOf(c) : j = i
      BY <2>1, <3>1, <3>2 DEF FdInv, EntriesOf, Listed
    <3>5. EntriesOf(c) = {i}
      BY <3>3, <3>4
    <3> QED BY <3>5, FS_Singleton
  <2>3. ASSUME NEW i \in Listed PROVE tbl[i].c \in open \/ hurt # {}
    BY <2>1 DEF ListedInv, FdInv, Listed
  <2> QED BY <2>2, <2>3
<1> QED BY <1>1, Invariance, PTL

\* A reply that tog_process writes to an entry is for the connection behind its
\* descriptor, although descriptors are used again and entries move.
THEOREM RepliesReachTheirOwner == Spec => []RepliesFindTheirOwner
<1>1. TypeOK /\ IInv => RepliesFindTheirOwner
  BY DEF IInv, FdInv, RepliesFindTheirOwner, Matches, Listed
<1> QED BY <1>1, Invariance, PTL

\* SP closes a connection only for a reason: its client left or broke the protocol, a
\* packet processor asked for it, it timed out, or a wait for the pipe disturbed it.
THEOREM ClosingsHaveCauses == Spec => ClosedForCause
<1> DEFINE Reason(c) == c \in gone \cup asked \cup timed' \cup hurt' \/ inbox[c] = "broken"
           Step == \A c \in open \ open' : Reason(c)
<1>1. ASSUME TypeOK, IInv, [Next]_vars PROVE Step
  <2>1. CASE SpipeSend
    <3>1. /\ frames # <<>> /\ hurt \subseteq hurt'
          /\ Head(frames).then # "close" => open' = open
          /\ Head(frames).then = "close" => RemoveEntry(Head(frames).i, Head(frames).c)
      BY <2>1 DEF SpipeSend
    <3>2. Head(frames) = frames[1] /\ CauseInv
      <4>1. frames \in Seq(Frame)
        BY <1>1, TypeParts
      <4>2. Head(frames) = frames[1]
        BY <3>1, <4>1, PopFacts
      <4> QED BY <1>1, <4>2 DEF IInv
    <3>3. ASSUME NEW c \in open \ open' PROVE Reason(c)
      <4>1. /\ frames[1].then = "close" /\ c = frames[1].c
            /\ tbl[frames[1].i].c = c /\ tbl[frames[1].i].fd # NoFd
        BY <3>1, <3>2, <3>3 DEF RemoveEntry
      <4>2. c \in hurt \/ CauseOf(c)
        BY <3>1, <3>2, <4>1 DEF CauseInv, ClosingInv
      <4> QED BY <3>1, <4>2 DEF CauseOf
    <3> QED BY <3>3
  <2>2. ASSUME NEW i \in Slots, Timeout(i) PROVE Step
    <3>1. open \ open' \subseteq {tbl[i].c} /\ tbl[i].c \in timed'
      BY <2>2 DEF Timeout, RemoveEntry
    <3> QED BY <3>1
  <2>3. CASE ClientStep \/ \E p \in PPs : PPStep(p)
    BY <2>3, OutsideFacts DEF SPKeeps
  <2>4. CASE Accept
    <3>1. open \subseteq open'
      BY <2>4 DEF Accept
    <3> QED BY <3>1
  <2>5. CASE TogProcess
    BY <2>5 DEF TogProcess
  <2>6. CASE Poll \/ TogDone \/ ScanBegin \/ Scan \/ ScanEnd \/ RoundEnd \/ UNCHANGED vars
    <3>1. open' = open
      BY <2>6 DEF Poll, TogDone, ScanBegin, Scan, ScanEnd, RoundEnd, vars
    <3> QED BY <3>1
  <2> HIDE DEF Step
  <2> QED BY <1>1, <2>1, <2>2, <2>3, <2>4, <2>5, <2>6 DEF Next, SPStep, SpipeWait, RoundTog
<1>2. TypeOK /\ IInv /\ [Next]_vars => [Step]_vars
  BY <1>1
<1> QED BY <1>2, Invariance, PTL DEF Spec, ClosedForCause

\* Every step keeps the sessions without a connection explained.
LEMMA GhostsStep ==
  ASSUME TypeOK, IInv, GhostsAreKnown, [Next]_vars
  PROVE  GhostsAreKnown'
<1> DEFINE Gone(r) == r.c \in timed \cup late \cup hurt \/ r.uin \in doubled
           Ending(r) == \E p \in PPs : tasks[p].todo = <<Do("OFFLINE", r.c, r.uin)>>
           Explained(r) == r.c \in open \/ Gone(r) \/ TermIn(r.c) \/ Ending(r)
<1>0. /\ FramesInv /\ PackInv /\ WorkInv /\ SessionInv /\ FdInv
      /\ \A r \in online : Explained(r)
  BY DEF IInv, GhostsAreKnown, TermOnItsWay, TermIn
<1>1. (\A r \in online' : Explained(r)') => GhostsAreKnown'
  BY DEF GhostsAreKnown, TermOnItsWay, TermIn
<1>2. ASSUME open \subseteq open' \cup timed', timed \subseteq timed', hurt \subseteq hurt',
             UNCHANGED <<incoming, tasks, online, late, doubled>>
      PROVE  GhostsAreKnown'
  <2>1. \A r : (TermIn(r.c) => TermIn(r.c)') /\ (Ending(r) => Ending(r)')
    BY <1>2 DEF TermIn
  <2> QED BY <1>0, <1>1, <1>2, <2>1
<1>3. CASE SpipeSend
  <2>1. /\ frames # <<>> /\ incoming' = Append(incoming, int_pack) /\ hurt \subseteq hurt'
        /\ UNCHANGED <<tasks, timed, online, late, doubled>>
    BY <1>3 DEF SpipeSend, dbvars
  <2>2. /\ Len(incoming') = Len(incoming) + 1 /\ incoming'[Len(incoming) + 1] = int_pack
        /\ \A k \in 1 .. Len(incoming) : incoming'[k] = incoming[k]
    BY <2>1, TypeParts, QueueFacts
  <2>3. /\ \A j \in 1 .. Len(incoming) : j \in 1 .. Len(incoming')
        /\ Len(incoming) + 1 \in 1 .. Len(incoming')
    BY <2>2, TypeParts
  <2>4. \A c : TermIn(c) => TermIn(c)'
    BY <2>2, <2>3 DEF TermIn
  <2>5. ASSUME NEW c \in open \ open' PROVE c \in hurt \/ TermIn(c)'
    <3>1. Head(frames).then = "close" /\ c = Head(frames).c
      BY <1>3, <2>5 DEF SpipeSend, RemoveEntry
    <3>2. Head(frames) = frames[1]
      BY <1>0, <1>3, PopFrame
    <3>3. c \notin hurt => int_pack.c = c /\ int_pack.evt = "TERM"
      BY <1>0, <2>1, <3>1, <3>2 DEF PackInv
    <3> QED BY <2>2, <2>3, <3>3 DEF TermIn
  <2>6. \A r : Ending(r) => Ending(r)'
    BY <2>1
  <2> QED BY <1>0, <1>1, <2>1, <2>4, <2>5, <2>6
<1>4. ASSUME TogProcess PROVE GhostsAreKnown'
  <2>1. hurt \subseteq hurt'
    <3>1. \A i \in Slots : NotifyClosed(i) => hurt \subseteq hurt'
      BY DEF NotifyClosed, Call
    <3>2. CauseInv
      BY DEF IInv
    <3> QED BY <1>4, <3>1, <3>2, TogFacts DEF Listed
  <2> QED BY <1>2, <1>4, <2>1 DEF TogProcess, dbvars
<1>5. CASE Accept
  <2>1. open \subseteq open' /\ hurt \subseteq hurt'
    BY <1>5 DEF Accept, Call
  <2> QED BY <1>2, <1>5, <2>1 DEF Accept, dbvars
<1>6. CASE Scan
  <2>1. hurt \subseteq hurt'
    BY <1>0, <1>6, ScanFacts DEF NotifyClosed, Call
  <2> QED BY <1>2, <1>6, <2>1 DEF Scan, dbvars
<1>7. CASE Poll \/ TogDone \/ ScanBegin \/ ScanEnd \/ RoundEnd
  BY <1>2, <1>7 DEF Poll, TogDone, ScanBegin, ScanEnd, RoundEnd, history, dbvars
<1>8. ASSUME NEW i \in Slots, Timeout(i) PROVE GhostsAreKnown'
  <2>1. open \subseteq open' \cup timed' /\ timed \subseteq timed'
    BY <1>8 DEF Timeout, RemoveEntry
  <2> QED BY <1>2, <1>8, <2>1 DEF Timeout, dbvars
<1>9. CASE ClientStep
  BY <1>2, <1>9 DEF ClientStep, Connect, Hangup, ClientSend, dbvars, history, spvars
<1>10. ASSUME NEW p \in PPs, NEW t, tasks' = [tasks EXCEPT ![p] = t],
              \A r : tasks[p].todo # <<Do("OFFLINE", r.c, r.uin)>>
       PROVE  \A r : Ending(r) => Ending(r)'
  <2>1. \A q \in PPs : q # p => tasks'[q] = tasks[q]
    BY <1>10 DEF TypeOK
  <2> QED BY <1>10, <2>1
<1>11. ASSUME NEW p \in PPs, PPTake(p) PROVE GhostsAreKnown'
  <2> DEFINE m == Head(incoming)
  <2>1. /\ incoming # <<>> /\ incoming' = Tail(incoming) /\ tasks[p] = Rest
        /\ UNCHANGED <<open, timed, hurt, online, late, doubled>>
    BY <1>11 DEF PPTake, dbvars, spvars
  <2>2. /\ m = incoming[1] /\ Len(incoming) \in Nat \ {0} /\ Len(incoming') = Len(incoming) - 1
        /\ \A k \in 1 .. Len(incoming) - 1 : incoming'[k] = incoming[k + 1]
    BY <2>1, TypeParts, PopFacts
  <2>3. ASSUME NEW j \in 1 .. Len(incoming), j # 1
        PROVE  j - 1 \in 1 .. Len(incoming') /\ incoming'[j - 1] = incoming[j]
    <3>1. j - 1 \in 1 .. Len(incoming) - 1 /\ (j - 1) + 1 = j
      BY <2>2, <2>3
    <3> QED BY <2>2, <3>1
  <2>4. \A c : TermIn(c) => TermIn(c)' \/ (m.evt = "TERM" /\ m.c = c)
    BY <2>1, <2>2, <2>3 DEF TermIn
  <2>5. \A r : Ending(r) => Ending(r)'
    <3>1. tasks[p].todo = <<>>
      BY <2>1 DEF Rest
    <3>2. \A r : tasks[p].todo # <<Do("OFFLINE", r.c, r.uin)>>
      BY <3>1
    <3>3. CASE tasks' = tasks
      BY <3>3
    <3>4. ASSUME NEW t, tasks' = [tasks EXCEPT ![p] = t] PROVE \A r : Ending(r) => Ending(r)'
      BY <1>10, <3>2, <3>4
    <3>5. tasks' = tasks \/ \E t : tasks' = [tasks EXCEPT ![p] = t]
      BY <1>11 DEF PPTake
    <3> QED BY <3>3, <3>4, <3>5
  <2>6. ASSUME NEW r \in online, m.evt = "TERM", r.c = m.c PROVE Explained(r)'
    <3>1. SessionOf(m.c) # {}
      BY <2>6 DEF SessionOf
    <3>2. PICK s \in SessionOf(m.c) :
            tasks' = [tasks EXCEPT ![p] = [c |-> m.c, todo |-> <<Do("OFFLINE", m.c, s.uin)>>]]
      BY <1>11, <2>6, <3>1 DEF PPTake
    <3>3. s \in online /\ s.c = m.c
      BY DEF SessionOf
    <3>4. CASE s = r
      <4>1. tasks'[p].todo = <<Do("OFFLINE", r.c, r.uin)>>
        BY <2>6, <3>2, <3>4 DEF TypeOK
      <4>2. Ending(r)'
        BY <4>1
      <4> QED BY <4>2
    <3>5. CASE s # r
      BY <1>0, <2>1, <2>6, <3>3, <3>5 DEF SessionInv
    <3> QED BY <3>4, <3>5
  <2> QED BY <1>0, <1>1, <2>1, <2>4, <2>5, <2>6
<1>12. ASSUME NEW p \in PPs, NEW op, tasks[p].todo # <<>>, Op(p) = op, op.evt # "OFFLINE"
       PROVE  \A r : tasks[p].todo # <<Do("OFFLINE", r.c, r.uin)>>
  <2>1. \A r : tasks[p].todo = <<Do("OFFLINE", r.c, r.uin)>> => Op(p).evt = "OFFLINE"
    BY DEF Op, Do
  <2> QED BY <1>12, <2>1
<1>13. ASSUME NEW p \in PPs, PPReply(p) \/ CloseConnection(p) \/ PPCookie(p)
       PROVE  GhostsAreKnown'
  <2>1. /\ online' \subseteq online /\ UNCHANGED <<open, timed, hurt, incoming, late, doubled>>
        /\ tasks[p].todo # <<>> /\ Op(p).evt # "OFFLINE"
        /\ \E t : tasks' = [tasks EXCEPT ![p] = t]
    BY <1>13 DEF PPReply, CloseConnection, PPCookie, MoveOffline, Doing, Advance, Then, dbvars,
       history
  <2>2. \A r : Ending(r) => Ending(r)'
    BY <1>10, <1>12, <2>1
  <2>3. \A c : TermIn(c) => TermIn(c)'
    BY <2>1 DEF TermIn
  <2> QED BY <1>0, <1>1, <2>1, <2>2, <2>3
<1>14. ASSUME NEW p \in PPs, PPOffline(p) PROVE GhostsAreKnown'
  <2>1. /\ UNCHANGED <<open, timed, hurt, incoming, late, doubled>>
        /\ \E t : tasks' = [tasks EXCEPT ![p] = t]
        /\ MoveOffline(Op(p).uin)
    BY <1>14 DEF PPOffline, Advance, Then, history
  <2>2. \A c : TermIn(c) => TermIn(c)'
    BY <2>1 DEF TermIn
  <2>3. ASSUME NEW r \in online, r \in online' PROVE Explained(r)'
    <3>1. CASE r.uin = Op(p).uin
      <4>1. r \in UserOf(Op(p).uin)
        BY <2>3, <3>1 DEF UserOf
      <4>2. PICK s \in UserOf(Op(p).uin) : online' = online \ {s}
        BY <2>1, <4>1 DEF MoveOffline
      <4>3. s \in online /\ s.uin = r.uin /\ s # r
        BY <2>3, <3>1, <4>2 DEF UserOf
      <4> QED BY <1>0, <2>1, <2>3, <4>3 DEF SessionInv
    <3>2. CASE r.uin # Op(p).uin
      <4>1. tasks[p].todo # <<Do("OFFLINE", r.c, r.uin)>>
        BY <3>2 DEF Op, Do
      <4>2. \A q \in PPs : q # p => tasks'[q] = tasks[q]
        BY <2>1 DEF TypeOK
      <4>3. Ending(r) => Ending(r)'
        BY <4>1, <4>2
      <4> QED BY <1>0, <2>1, <2>2, <2>3, <4>3
    <3> QED BY <3>1, <3>2
  <2>4. online' \subseteq online
    BY <2>1 DEF MoveOffline
  <2> QED BY <1>1, <2>3, <2>4
<1>15. ASSUME NEW p \in PPs, PPInsert(p) PROVE GhostsAreKnown'
  <2>1. PICK n : n = [c |-> Op(p).c, uin |-> Op(p).uin]
    OBVIOUS
  <2>2. n.c = Op(p).c
    BY <2>1
  <2>3. /\ UNCHANGED <<open, timed, hurt, ended, incoming>>
        /\ online' = online \cup {n}
        /\ late' = IF n.c \in ended THEN late \cup {n.c} ELSE late
        /\ doubled \subseteq doubled'
        /\ tasks[p].todo # <<>> /\ Op(p).evt = "INSERT"
        /\ \E t : tasks' = [tasks EXCEPT ![p] = t]
    BY <1>15, <2>1, <2>2 DEF PPInsert, Doing, Then
  <2>4. \A r : Ending(r) => Ending(r)'
    BY <1>10, <1>12, <2>3
  <2>5. \A c : TermIn(c) => TermIn(c)'
    BY <2>3 DEF TermIn
  <2>6. n.c \in Conns /\ fdOf[n.c] # NoFd
    <3>1. tasks[p].todo \in Seq(Ops)
      BY DEF TypeOK
    <3>2. Op(p) = tasks[p].todo[1] /\ 1 \in 1 .. Len(tasks[p].todo)
      BY <2>3, <3>1, PopFacts DEF Op
    <3>3. OpOn(Known, Op(p))
      BY <1>0, <3>2 DEF WorkInv
    <3> QED BY <2>2, <3>3 DEF OpOn, Known
  <2>7. n.c \in open' \cup timed' \cup hurt' \cup late' \/ TermIn(n.c)'
    BY <1>0, <2>3, <2>5, <2>6 DEF SessionInv
  <2>8. Explained(n)'
    BY <2>7
  <2>9. ASSUME NEW r \in online PROVE Explained(r)'
    BY <1>0, <2>3, <2>4, <2>5
  <2> QED BY <1>1, <2>3, <2>8, <2>9
<1>16. CASE UNCHANGED vars
  BY <1>2, <1>16 DEF vars, dbvars, history
<1> QED BY <1>3, <1>4, <1>5, <1>6, <1>7, <1>8, <1>9, <1>11, <1>13, <1>14, <1>15, <1>16
           DEF Next, SPStep, SpipeWait, RoundTog, PPStep

\* A record outlives its connection only while the SOCK_TERM that ends the session is on
\* its way, or for good in the five cases GhostsAreKnown names: nothing else that may happen
\* between SP, its pipes and the packet processors leaves a ghost.
THEOREM GhostsExplained == Spec => []GhostsAreKnown
<1>1. Init => GhostsAreKnown
  BY DEF Init, GhostsAreKnown
<1>2. TypeOK /\ IInv /\ GhostsAreKnown /\ [Next]_vars => GhostsAreKnown'
  BY GhostsStep
<1> QED BY <1>1, <1>2, Invariance, PTL DEF Spec

==========================================================================
