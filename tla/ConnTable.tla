----------------------------- MODULE ConnTable -----------------------------
(***************************************************************************)
(* TCP connections of V7 (OSCAR) clients: the compacting array sock_fds /  *)
(* sock_inf of the socket processor SP and its poll loop (sprocess.cpp,    *)
(* sockets-p.cpp, flap.cpp), the incoming and toutgoing pipes, and the     *)
(* packet processors (PPs) that open and end the sessions of these         *)
(* connections (v7_proto/proto_handler.cpp, aim_util.cpp).                 *)
(*                                                                         *)
(* SP sends every message to the PPs from one global packet, int_pack.     *)
(* While it waits for room it writes replies and closes connections, which *)
(* may send from int_pack again: `frames' are its pending calls of         *)
(* spipe_send_packet, innermost first.                                     *)
(***************************************************************************)
EXTENDS Integers, Sequences, FiniteSets

CONSTANTS MaxConns,  \* bound: connections clients open, numbered as accepted (rnd_id)
          MaxTcp,    \* lp_max_tcp_connections
          PPs,       \* packet processors
          Uins,      \* user numbers
          PipeCap,   \* datagrams a full pipe holds
          Kinds,     \* subset of AllKinds: the packets clients send
          MaxSends,  \* bound: packets clients send
          Concurrent,\* lp_v7_accept_concurent: a new login kicks an old session
          Platforms  \* subset of BOOLEAN: TRUE is a system on which sendto to a full
                     \* datagram socket fails (ENOBUFS), FALSE one on which it waits

AllKinds == {"auth", "cookie", "snac", "junk", "keepalive", "broken"}
Conns == 1 .. MaxConns

ASSUME ConnsAssumption == MaxConns \in Nat /\ MaxTcp \in Nat \ {0} /\ MaxSends \in Nat
ASSUME PipesAssumption == PipeCap \in Nat \ {0} /\ PPs # {} /\ 0 \notin Uins
ASSUME FlagsAssumption == Kinds \subseteq AllKinds /\ Platforms \subseteq BOOLEAN
                          /\ Concurrent \in BOOLEAN

VARIABLES bsd,        \* the platform, chosen at the start
          tbl, cnt,   \* sock_fds and sock_inf after the reserved slots, tcp_sock_count
          pc, idx,    \* where SP is in its round, and its scan index
          evs,        \* listening sockets and pipes that poll reported
          budget,     \* nsockets - csockets
          frames, int_pack,
          open, fdOf, \* connections SP holds a descriptor of, and which
          came, nacc, \* connections requested and accepted
          inbox, gone, nsent,            \* the clients' side
          incoming, toutgoing, tasks,    \* pipes, and what the PPs are doing
          online, odb, cookies,          \* records and rows of sessions, login cookies
          hurt, ended, late, doubled, timed, asked   \* what happened to whom (see the actions)

spvars  == <<tbl, cnt, pc, idx, evs, budget, frames, int_pack>>
clvars  == <<came, inbox, gone, nsent>>
dbvars  == <<online, odb, cookies>>
history == <<hurt, ended, late, doubled, timed, asked>>
vars == <<bsd, spvars, open, fdOf, nacc, clvars, incoming, toutgoing, tasks, dbvars, history>>

NoFd   == 0
Slots  == 1 .. MaxTcp + 1
Blank  == [c |-> 0, fd |-> NoFd, started |-> 0, rev |-> FALSE]
NoPack == [evt |-> "none", c |-> 0, what |-> "none"]
Rest   == [c |-> 0, todo |-> <<>>]
Pack(evt, c, what) == [evt |-> evt, c |-> c, what |-> what]

Init ==
  /\ bsd \in Platforms
  /\ tbl = [i \in Slots |-> Blank] /\ cnt = 0
  /\ pc = "poll" /\ idx = 0 /\ evs = {} /\ budget = 0
  /\ frames = <<>> /\ int_pack = NoPack
  /\ open = {} /\ fdOf = [c \in Conns |-> NoFd]
  /\ came = 0 /\ nacc = 0
  /\ inbox = [c \in Conns |-> "none"] /\ gone = {} /\ nsent = 0
  /\ incoming = <<>> /\ toutgoing = <<>>
  /\ tasks = [p \in PPs |-> Rest]
  /\ online = {} /\ odb = {} /\ cookies = Uins
  /\ hurt = {} /\ ended = {} /\ late = {} /\ doubled = {} /\ timed = {} /\ asked = {}

Listed    == {i \in Slots : i <= cnt}
LowestFd  == CHOOSE f \in 1 .. MaxConns :
               /\ \A c \in open : fdOf[c] # f
               /\ \A g \in 1 .. f - 1 : \E c \in open : fdOf[c] = g

\* What poll reports for a connection: a packet, or that the client has closed it.
Readable(c) == c \in open /\ (inbox[c] # "none" \/ c \in gone)

----------------------------------------------------------------------------
(* Clients. *)

Connect ==
  /\ came < MaxConns
  /\ came' = came + 1
  /\ UNCHANGED <<bsd, spvars, open, fdOf, nacc, inbox, gone, nsent, incoming, toutgoing,
                 tasks, dbvars, history>>

\* The next packet follows when SP has read the last one.
ClientSend(c, k) ==
  /\ c \in open \ gone /\ inbox[c] = "none" /\ nsent < MaxSends
  /\ inbox' = [inbox EXCEPT ![c] = k]
  /\ nsent' = nsent + 1
  /\ UNCHANGED <<bsd, spvars, open, fdOf, came, nacc, gone, incoming, toutgoing, tasks,
                 dbvars, history>>

Hangup(c) ==
  /\ c \in open \ gone
  /\ gone' = gone \cup {c}
  /\ UNCHANGED <<bsd, spvars, open, fdOf, came, nacc, inbox, nsent, incoming, toutgoing,
                 tasks, dbvars, history>>

----------------------------------------------------------------------------
(* SP: sending to the PPs. *)

\* spipe_send_packet(int_pack) is called; what int_pack held for an outer call is gone.
Call(frame, pack) ==
  /\ frames' = <<frame>> \o frames
  /\ int_pack' = pack
  /\ hurt' = IF frames = <<>> THEN hurt ELSE hurt \cup {int_pack.c}

\* close_socket_index of entry i, while the rest of SP's state stays.
NotifyClosed(i) ==
  Call([then |-> "close", i |-> i, c |-> tbl[i].c], Pack("TERM", tbl[i].c, "none"))

\* Mutant: the last entry is not moved.
RemoveEntryKeepsLast(i, c) ==
  IF i > cnt \/ tbl[i].c # c
    THEN UNCHANGED <<tbl, cnt, open>>
    ELSE /\ cnt' = cnt - 1
         /\ tbl' = [tbl EXCEPT ![cnt].fd = NoFd]
         /\ open' = IF tbl[i].fd = NoFd THEN open ELSE open \ {c}

\* close_socket_index_r: close, and move the last entry here.
RemoveEntry(i, c) ==
  IF i > cnt \/ tbl[i].c # c
    THEN UNCHANGED <<tbl, cnt, open>>
    ELSE /\ cnt' = cnt - 1
         /\ tbl' = [tbl EXCEPT ![i] = tbl[cnt], ![cnt].fd = NoFd]
         /\ open' = IF tbl[i].fd = NoFd THEN open ELSE open \ {c}

\* sendto found room; the caller goes on.  A connection that is moved while an outer
\* call is pending may be taken for another one by that call.
SpipeSend ==
  /\ frames # <<>> /\ Len(incoming) < PipeCap
  /\ incoming' = Append(incoming, int_pack)
  /\ frames' = Tail(frames)
  /\ int_pack' = IF frames' = <<>> THEN NoPack ELSE int_pack
  /\ LET f == Head(frames)
     IN  \/ /\ f.then = "close"
            /\ RemoveEntry(f.i, f.c)
            /\ hurt' = IF frames' # <<>> /\ cnt' < cnt /\ f.i < cnt
                         THEN hurt \cup {tbl[cnt].c} ELSE hurt
         \/ f.then = "accept" /\ cnt' = cnt + 1 /\ UNCHANGED <<tbl, open, hurt>>
         \/ f.then = "data" /\ UNCHANGED <<tbl, cnt, open, hurt>>
  /\ UNCHANGED <<bsd, pc, idx, evs, budget, fdOf, nacc, clvars, toutgoing, tasks,
                 dbvars, ended, late, doubled, timed, asked>>

\* Mutant: only the descriptor is compared.
MatchesByFd(e, m) == e.fd = fdOf[m.c]

\* Is this the entry a message of a PP is for?
Matches(e, m) == e.fd = fdOf[m.c] /\ e.c = m.c

\* tog_process: one message of the PPs.  SOCK_TERM closes the connection; a reply is
\* written to it, SOCK_RDY ends its startup phase, and a failed write closes it.  A
\* reply whose connection is not found is dropped.
TogProcess ==
  LET m  == Head(toutgoing)
      at == {i \in Listed : Matches(tbl[i], m)}
  IN  /\ toutgoing # <<>>
      /\ toutgoing' = Tail(toutgoing)
      /\ \/ /\ at = {}
            /\ UNCHANGED <<tbl, frames, int_pack, hurt>>
         \/ /\ m.evt = "TERM"
            /\ \E i \in at : NotifyClosed(i)
            /\ UNCHANGED tbl
         \/ /\ m.evt # "TERM"
            /\ \E i \in at :
                 /\ tbl' = IF m.evt = "RDY" THEN [tbl EXCEPT ![i].started = 0] ELSE tbl
                 /\ \/ UNCHANGED <<frames, int_pack, hurt>>
                    \/ m.c \in gone /\ NotifyClosed(i)
      /\ UNCHANGED <<bsd, cnt, evs, fdOf, nacc, clvars, incoming, tasks, dbvars,
                     ended, late, doubled, timed, asked, open>>

\* spipe_send_packet has to wait and looks after the toutgoing pipe meanwhile.
SpipeWait ==
  /\ bsd /\ frames # <<>> /\ Len(incoming) = PipeCap
  /\ TogProcess
  /\ UNCHANGED <<pc, idx, budget>>

----------------------------------------------------------------------------
(* SP: one round of process_socket. *)

\* poll returns: what is ready is marked, in the entries and in evs.
Poll ==
  LET ready == {i \in Listed : tbl[i].fd # NoFd /\ Readable(tbl[i].c)}
      es == (IF toutgoing # <<>> THEN {"tog"} ELSE {})
              \cup (IF came > nacc THEN {"accept"} ELSE {})
  IN  /\ pc = "poll"
      /\ ready # {} \/ es # {}
      /\ tbl' = [i \in Slots |-> IF i \in Listed THEN [tbl[i] EXCEPT !.rev = i \in ready]
                                                 ELSE tbl[i]]
      /\ evs' = es
      /\ budget' = Cardinality(ready) + Cardinality(es)
      /\ pc' = IF toutgoing # <<>> THEN "tog" ELSE "accept"
      /\ UNCHANGED <<bsd, cnt, idx, frames, int_pack, open, fdOf, nacc, clvars, incoming,
                     toutgoing, tasks, dbvars, history>>

RoundTog ==
  /\ pc = "tog" /\ frames = <<>>
  /\ TogProcess
  /\ UNCHANGED <<pc, idx, budget>>

TogDone ==
  /\ pc = "tog" /\ frames = <<>> /\ toutgoing = <<>>
  /\ budget' = budget - 1
  /\ pc' = "accept"
  /\ UNCHANGED <<bsd, tbl, cnt, idx, evs, frames, int_pack, open, fdOf, nacc, clvars,
                 incoming, toutgoing, tasks, dbvars, history>>

\* aim_accept_connect: with a full table the connection is closed at once; otherwise
\* an entry is filled behind the last one, and counted when SOCK_NEW has been sent.
Accept ==
  /\ pc = "accept" /\ "accept" \in evs /\ budget > 0
  /\ nacc' = nacc + 1
  /\ budget' = budget - 1
  /\ evs' = evs \ {"accept"}
  /\ IF cnt + 1 > MaxTcp
       THEN UNCHANGED <<tbl, frames, int_pack, open, fdOf, hurt>>
       ELSE /\ open' = open \cup {nacc'}
            /\ fdOf' = [fdOf EXCEPT ![nacc'] = LowestFd]
            /\ tbl' = [tbl EXCEPT ![cnt + 1] =
                         [c |-> nacc', fd |-> LowestFd, started |-> 2, rev |-> FALSE]]
            /\ Call([then |-> "accept", i |-> cnt + 1, c |-> nacc'],
                    Pack("NEW", nacc', "none"))
  /\ UNCHANGED <<bsd, pc, cnt, idx, clvars, incoming, toutgoing, tasks, dbvars,
                 ended, late, doubled, timed, asked>>

\* check_accepted_connections begins at the end of the table.
ScanBegin ==
  /\ pc = "accept" /\ frames = <<>>
  /\ "accept" \notin evs \/ budget = 0
  /\ idx' = cnt
  /\ pc' = "scan"
  /\ UNCHANGED <<bsd, tbl, cnt, evs, budget, frames, int_pack, open, fdOf, nacc, clvars,
                 incoming, toutgoing, tasks, dbvars, history>>

\* flap_recv_packet of entry i: is what its socket holds a packet?
Packet(i) == /\ tbl[i].fd # NoFd
             /\ inbox[tbl[i].c] \notin {"none", "broken"}

\* Mutant: the events that poll reported are not looked at.
MarkedAnyway == 1 .. idx

\* The entries poll has marked, from the scan index down.
Marked == {i \in 1 .. idx : tbl[i].rev}

\* check_accepted_connections and tcp_process of the next marked entry downwards: a
\* keepalive is consumed, a packet goes to the PPs, anything else closes the connection -
\* an empty socket, too.
Scan ==
  LET i == CHOOSE j \in Marked : \A k \in Marked : k <= j
      e == tbl[i]
      k == inbox[e.c]
  IN  /\ pc = "scan" /\ frames = <<>> /\ Marked # {} /\ budget > 0
      /\ idx' = i - 1
      /\ budget' = budget - 1
      /\ IF Packet(i)
           THEN /\ inbox' = [inbox EXCEPT ![e.c] = "none"]
                /\ tbl' = [tbl EXCEPT ![i].started = IF @ = 2 THEN 1 ELSE @]
                /\ IF k = "keepalive"
                     THEN UNCHANGED <<frames, int_pack, hurt>>
                     ELSE Call([then |-> "data", i |-> i, c |-> e.c], Pack("DATA", e.c, k))
           ELSE /\ IF i > cnt THEN UNCHANGED <<frames, int_pack, hurt>> ELSE NotifyClosed(i)
                /\ UNCHANGED <<tbl, inbox>>
      /\ UNCHANGED <<bsd, cnt, pc, evs, open, fdOf, came, nacc, gone, nsent, incoming,
                     toutgoing, tasks, dbvars, ended, late, doubled, timed, asked>>

\* The marks, and what is left behind the table, are not looked at again.
ScanEnd ==
  /\ pc = "scan" /\ frames = <<>> /\ (Marked = {} \/ budget = 0)
  /\ pc' = "timeouts" /\ idx' = 0 /\ evs' = {} /\ budget' = 0
  /\ tbl' = [i \in Slots |-> IF i \in Listed THEN [tbl[i] EXCEPT !.rev = FALSE] ELSE Blank]
  /\ UNCHANGED <<bsd, cnt, frames, int_pack, open, fdOf, nacc,
                 clvars, incoming, toutgoing, tasks, dbvars, history>>

\* check_sockets_timeout: a connection still in its startup phase is closed, without a
\* word to the PPs.
Timeout(i) ==
  /\ pc = "timeouts" /\ i \in Listed /\ tbl[i].started # 0
  /\ RemoveEntry(i, tbl[i].c)
  /\ timed' = timed \cup {tbl[i].c}
  /\ UNCHANGED <<bsd, pc, idx, evs, budget, frames, int_pack, fdOf, nacc, clvars, incoming,
                 toutgoing, tasks, dbvars, hurt, ended, late, doubled, asked>>

RoundEnd ==
  /\ pc = "timeouts"
  /\ pc' = "poll"
  /\ UNCHANGED <<bsd, tbl, cnt, idx, evs, budget, frames, int_pack, open, fdOf, nacc,
                 clvars, incoming, toutgoing, tasks, dbvars, history>>

----------------------------------------------------------------------------
(* Packet processors.  A handler is the list of what it does, in order; only what    *)
(* touches the pipes, the records or the cookies is listed.                          *)

Do(evt, c, uin) == [evt |-> evt, c |-> c, uin |-> uin]
SessionOf(c) == {r \in online : r.c = c}
UserOf(u)    == {r \in online : r.uin = u}

\* Mutant: the record stays.
MoveOfflineKeepsRecord(u) == odb' = odb \ {u} /\ UNCHANGED online

\* move_user_offline(u): the first record of u in the array, whichever that is, and the
\* row.
MoveOffline(u) ==
  /\ odb' = odb \ {u}
  /\ IF UserOf(u) = {} THEN UNCHANGED online ELSE \E r \in UserOf(u) : online' = online \ {r}

Failed(c) == <<Do("DATA", c, 0), Do("CLOSE", c, 0)>>

\* process_authorize_packet: who may log in gets a cookie; another V7 session of his
\* is told and ends.
Authorize(c, u) ==
  {Failed(c)} \cup
  IF UserOf(u) = {} THEN {<<Do("COOKIE", c, u), Do("DATA", c, 0)>>}
  ELSE IF Concurrent
    THEN {<<Do("DATA", r.c, 0), Do("OFFLINE", c, u), Do("COOKIE", c, u), Do("DATA", c, 0)>> :
            r \in UserOf(u)}
  ELSE {Failed(c)}

\* process_cookie_packet: the cookie is looked up, deleted, and a session begins.
Signon(c) == {<<Do("CLOSE", c, 0)>>}
             \cup {<<Do("UNCOOKIE", c, u), Do("INSERT", c, u)>> : u \in cookies}

\* handle_aim_proto for a client's packet; a snac is answered, anything unknown ends
\* the connection.
Handlers(c, what) ==
  CASE what = "auth"   -> UNION {Authorize(c, u) : u \in Uins}
    [] what = "cookie" -> Signon(c)
    [] what = "snac"   -> {<<Do("DATA", c, 0)>>}
    [] what = "junk"   -> {<<Do("CLOSE", c, 0)>>}

\* A PP takes the next message.
PPTake(p) ==
  LET m == Head(incoming)
  IN  /\ tasks[p] = Rest /\ incoming # <<>>
      /\ incoming' = Tail(incoming)
      /\ ended' = IF m.evt = "TERM" THEN ended \cup {m.c} ELSE ended
      /\ \/ /\ m.evt = "NEW"
            /\ tasks' = [tasks EXCEPT ![p] = [c |-> m.c, todo |-> <<Do("DATA", m.c, 0)>>]]
         \/ /\ m.evt = "TERM"
            /\ \E r \in SessionOf(m.c) :
                 tasks' = [tasks EXCEPT ![p] =
                             [c |-> m.c, todo |-> <<Do("OFFLINE", m.c, r.uin)>>]]
         \/ /\ m.evt = "TERM" /\ SessionOf(m.c) = {}
            /\ UNCHANGED tasks
         \/ /\ m.evt = "DATA"
            /\ \E h \in Handlers(m.c, m.what) :
                 tasks' = [tasks EXCEPT ![p] = [c |-> m.c, todo |-> h]]
      /\ UNCHANGED <<bsd, spvars, open, fdOf, nacc, clvars, toutgoing, dbvars, hurt, late,
                     doubled, timed, asked>>

Op(p)     == Head(tasks[p].todo)
Doing(p, evts) == tasks[p].todo # <<>> /\ Op(p).evt \in evts
Then(p, todo)  == tasks' = [tasks EXCEPT ![p] = IF todo = <<>> THEN Rest
                                               ELSE [c |-> tasks[p].c, todo |-> todo]]
Advance(p)     == Then(p, Tail(tasks[p].todo))

\* tcp_writeback_packet, whose result nobody looks at: with a full pipe it waits, or
\* the message is lost.
WriteBack(m) ==
  \/ Len(toutgoing) < PipeCap /\ toutgoing' = Append(toutgoing, m)
  \/ Len(toutgoing) = PipeCap /\ bsd /\ UNCHANGED toutgoing

PPReply(p) ==
  /\ Doing(p, {"DATA", "RDY"})
  /\ WriteBack(Pack(Op(p).evt, Op(p).c, "none"))
  /\ Advance(p)
  /\ UNCHANGED <<bsd, spvars, open, fdOf, nacc, clvars, incoming, dbvars, history>>

\* close_connection(pack): the user of this connection is moved offline, and then SP is
\* not told to close it; it is told if there is none.
CloseConnection(p) ==
  /\ Doing(p, {"CLOSE"})
  /\ Advance(p)
  /\ \/ /\ \E r \in SessionOf(Op(p).c) : MoveOffline(r.uin)
        /\ UNCHANGED <<toutgoing, cookies, asked>>
     \/ /\ SessionOf(Op(p).c) = {}
        /\ WriteBack(Pack("TERM", Op(p).c, "none"))
        /\ asked' = asked \cup {Op(p).c}
        /\ UNCHANGED dbvars
  /\ UNCHANGED <<bsd, spvars, open, fdOf, nacc, clvars, incoming, hurt, ended, late, doubled, timed>>

PPOffline(p) ==
  /\ Doing(p, {"OFFLINE"})
  /\ MoveOffline(Op(p).uin)
  /\ Advance(p)
  /\ UNCHANGED <<bsd, spvars, open, fdOf, nacc, clvars, incoming, toutgoing, cookies, history>>

\* db_cookie_insert after, and db_cookie_delete.
PPCookie(p) ==
  /\ Doing(p, {"COOKIE", "UNCOOKIE"})
  /\ cookies' = IF Op(p).evt = "COOKIE" THEN cookies \cup {Op(p).uin}
                                        ELSE cookies \ {Op(p).uin}
  /\ Advance(p)
  /\ UNCHANGED <<bsd, spvars, open, fdOf, nacc, clvars, incoming, toutgoing, online, odb,
                 history>>

\* db_online_insert: the record, then the row.  The INSERT fails if the user has one;
\* the session then fails, and the connection is closed twice over.  Nothing tests that
\* the connection is still there.
PPInsert(p) ==
  /\ Doing(p, {"INSERT"})
  /\ online' = online \cup {[c |-> Op(p).c, uin |-> Op(p).uin]}
  /\ odb' = odb \cup {Op(p).uin}
  /\ Then(p, IF Op(p).uin \notin odb
               THEN <<Do("RDY", Op(p).c, 0)>>
               ELSE <<Do("DATA", Op(p).c, 0), Do("CLOSE", Op(p).c, 0), Do("CLOSE", Op(p).c, 0)>>)
  /\ late' = IF Op(p).c \in ended THEN late \cup {Op(p).c} ELSE late
  /\ doubled' = LET others == UserOf(Op(p).uin) \cup SessionOf(Op(p).c)
                IN  IF others = {} THEN doubled
                    ELSE doubled \cup {Op(p).uin} \cup {r.uin : r \in others}
  /\ UNCHANGED <<bsd, spvars, open, fdOf, nacc, clvars, incoming, toutgoing, cookies, hurt,
                 ended, timed, asked>>

----------------------------------------------------------------------------
SPStep == \/ SpipeSend \/ SpipeWait
          \/ Poll \/ RoundTog \/ TogDone \/ Accept \/ ScanBegin \/ Scan \/ ScanEnd \/ RoundEnd
          \/ \E i \in Slots : Timeout(i)

PPStep(p) == \/ PPTake(p) \/ PPReply(p) \/ CloseConnection(p)
             \/ PPOffline(p) \/ PPCookie(p) \/ PPInsert(p)

ClientStep == \/ Connect
              \/ \E c \in Conns : Hangup(c) \/ \E k \in Kinds : ClientSend(c, k)

Next == SPStep \/ ClientStep \/ \E p \in PPs : PPStep(p)

Spec == Init /\ [][Next]_vars

----------------------------------------------------------------------------
(* Properties. *)

Packs == [evt : {"none", "NEW", "DATA", "RDY", "TERM"}, c : 0 .. MaxConns,
          what : AllKinds \cup {"none"}]
Ops   == [evt : {"DATA", "RDY", "CLOSE", "OFFLINE", "COOKIE", "UNCOOKIE", "INSERT"},
          c : Conns, uin : Uins \cup {0}]

\* Every variable has its type, and SP's table stays within its limit.
TypeOK ==
  /\ bsd \in BOOLEAN
  /\ tbl \in [Slots -> [c : 0 .. MaxConns, fd : 0 .. MaxConns, started : 0 .. 2, rev : BOOLEAN]]
  /\ cnt \in 0 .. MaxTcp
  /\ pc \in {"poll", "tog", "accept", "scan", "timeouts"}
  /\ idx \in 0 .. MaxTcp /\ evs \subseteq {"tog", "accept"} /\ budget \in Nat
  /\ frames \in Seq([then : {"close", "accept", "data"}, i : Slots, c : 0 .. MaxConns])
  /\ int_pack \in Packs
  /\ open \subseteq Conns /\ fdOf \in [Conns -> 0 .. MaxConns]
  /\ came \in 0 .. MaxConns /\ nacc \in 0 .. came
  /\ inbox \in [Conns -> AllKinds \cup {"none"}] /\ gone \subseteq Conns
  /\ nsent \in 0 .. MaxSends
  /\ incoming \in Seq(Packs) /\ Len(incoming) <= PipeCap
  /\ toutgoing \in Seq(Packs) /\ Len(toutgoing) <= PipeCap
  /\ tasks \in [PPs -> [c : 0 .. MaxConns, todo : Seq(Ops)]]
  /\ online \subseteq [c : Conns, uin : Uins] /\ odb \subseteq Uins /\ cookies \subseteq Uins
  /\ hurt \cup ended \cup late \cup timed \cup asked \subseteq 0 .. MaxConns
  /\ doubled \subseteq Uins

EntriesOf(c) == {i \in Listed : tbl[i].c = c /\ tbl[i].fd = fdOf[c]}

\* Types; and between rounds the table lists every connection SP holds open exactly once, and
\* apart from those nothing but the remains of what a wait for the pipe disturbed.
TableIsExact ==
  /\ TypeOK
  /\ pc = "poll" =>
    /\ \A c \in open \ hurt : Cardinality(EntriesOf(c)) = 1
    /\ \A i \in Listed : tbl[i].c \in open \/ hurt # {}

\* A reply is written only to the connection it was made for, although descriptors are
\* used again and the entry may have moved, or the connection ended, meanwhile.
RepliesFindTheirOwner ==
  toutgoing # <<>> =>
    \A i \in Listed : Matches(tbl[i], Head(toutgoing)) /\ tbl[i].fd # NoFd =>
      \A c \in open : fdOf[c] = tbl[i].fd => c = Head(toutgoing).c

\* SP closes a connection only if its client left or broke the protocol, if a packet
\* processor asked for it, on timeout - or because a wait for the pipe disturbed it.
ClosedForCause ==
  [][\A c \in open \ open' :
       c \in gone \cup asked \cup timed' \cup hurt' \/ inbox[c] = "broken"]_vars

\* A session outlives its connection only while its SOCK_TERM is on the way, or for
\* good in five cases: the connection timed out during the login, which nobody is
\* told; the login was completed after its SOCK_TERM had been handled; the user had two
\* sessions, and the other was ended in its place; two users logged in over one
\* connection, whose end moves one of them offline; or a wait for the pipe overwrote
\* the SOCK_TERM.
TermOnItsWay(r) ==
  \/ \E j \in 1 .. Len(incoming) : incoming[j].evt = "TERM" /\ incoming[j].c = r.c
  \/ \E p \in PPs : tasks[p].todo = <<Do("OFFLINE", r.c, r.uin)>>
GhostsAreKnown ==
  \A r \in online : \/ r.c \in open \cup timed \cup late \cup hurt \/ r.uin \in doubled
                    \/ TermOnItsWay(r)
=============================================================================
