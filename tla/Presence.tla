------------------------------ MODULE Presence ------------------------------
(***************************************************************************)
(* Who is shown to whom: contact, visible and invisible lists              *)
(* (database/contacts_db.cpp), status changes, and the packets that tell a *)
(* client that a contact came or went (isdcore/broadcast.cpp and the       *)
(* handlers of the three protocols).                                       *)
(*                                                                         *)
(* A handler is a program: a sequence of steps, each one access to the     *)
(* shared memory or one SQL statement or one packet, so that the programs  *)
(* of several packet processors interleave.  The queries read the table    *)
(* Online_Users, the packets carry what the shared memory says: a status   *)
(* change writes one and then the other.                                   *)
(*                                                                         *)
(* Left out: the LIMIT of the queries, the contents of the packets, and    *)
(* their loss (EPacket has it): what is sent is seen, in that order.       *)
(***************************************************************************)
EXTENDS Integers, Sequences, FiniteSets

CONSTANTS Users,        \* user numbers
          Subjects,     \* bound: who changes his status and visibility lists
          Viewers,      \* bound: who has a contact list
          PPs,          \* packet processors
          Clients,      \* functions from Users to {"v3", "v5", "v7"}
          MaxJobs       \* bound: logins and requests taken, and statements that fail

ASSUME UsersAssumption == /\ Users \subseteq Nat \ {0}
                          /\ Subjects \subseteq Users /\ Viewers \subseteq Users
                          /\ Clients \subseteq [Users -> {"v3", "v5", "v7"}]
ASSUME BoundsAssumption == MaxJobs \in Nat

VARIABLES proto,     \* the protocol of each user's client
          shm,       \* usr_shm, by user number; sid 0: no record
          rows,      \* Online_Users
          contacts,  \* Online_Contacts: <<ouin, tuin, type>>
          view,      \* view[v][u]: what v's client was told of u
          st,        \* what each packet processor is doing
          excuses,   \* history: why a view may be wrong
          njob

vars == <<proto, shm, rows, contacts, view, st, excuses, njob>>
tables == <<shm, rows, contacts>>

Statuses == {"open", "private"}
Types    == {"normal", "visible", "invisible"}
NoRecord == [sid |-> 0, active |-> FALSE, status |-> "open", cloaded |-> FALSE]
NoRow    == [on |-> FALSE, active |-> FALSE, stat |-> "open"]
Idle     == [prog |-> <<>>, why |-> "", u |-> 0, sid |-> 0, list |-> {}, new |-> "open",
             old |-> "open", got |-> {}, hand |-> 0, saw |-> "open", moved |-> {}]

Online(u)  == shm[u].sid # 0
Listed(u, v, type) == <<u, v, type>> \in contacts

\* ICQ_STATUS_PRIVATE shows a user to his visible list only; the invisible
\* list hides him otherwise.
Hidden(u, v) == IF shm[u].status = "private" THEN ~Listed(u, v, "visible")
                                             ELSE Listed(u, v, "invisible")
Truth(v, u)  == IF Online(u) /\ shm[u].active /\ ~Hidden(u, v) THEN "on" ELSE "off"
Excused(v, u) == {e.why : e \in {x \in excuses : x.v = v /\ x.u = u}}
Excuse(S, why) == {[v |-> x[1], u |-> x[2], why |-> why] : x \in S \cap (Viewers \X Subjects)}
Pairs(u)     == {<<v, u>> : v \in Users \ {u}} \cup {<<u, v>> : v \in Users \ {u}}

Init ==
  /\ proto \in Clients
  /\ shm = [u \in Users |-> NoRecord] /\ rows = [u \in Users |-> NoRow]
  /\ contacts = {} /\ excuses = {}
  /\ view = [v \in Users |-> [u \in Users |-> "off"]]
  /\ st = [p \in PPs |-> Idle]
  /\ njob = 0

----------------------------------------------------------------------------
(* The programs: <<step, argument>> in the order of the code. *)

BroadcastOnline  == <<<<"select", "online">>, <<"tell", "on">>>>
BroadcastOffline == <<<<"select", "all">>, <<"tell", "off">>>>
MoveOfflineTooEarly ==    \* mutant
                    <<<<"wipe", "">>>> \o BroadcastOffline \o <<<<"gone", "">>>>
MoveOffline      == <<<<"wipe", "">>, <<"gone", "">>>> \o BroadcastOffline

\* broadcast_status; the last case is the one the comment at its end calls
\* unreachable.
BroadcastStatus(new, old) ==
  CASE new = "private" /\ old # "private" ->
         <<<<"select", "shown">>, <<"tell", "off">>, <<"select", "chosen">>, <<"tell", "on">>>>
    [] new # "private" -> <<<<"select", "shown">>, <<"tell", "on">>>>
    [] OTHER           -> <<>>

\* The contacts who do not hide from the user, and the private ones who show
\* themselves to him.
Presense    == <<<<"query", "open">>, <<"show", "">>, <<"query", "private">>, <<"show", "">>>>
V3Contact   == <<<<"insert", "normal">>, <<"query", "any">>, <<"show", "">>>>
V5Contact   == <<<<"insert", "normal">>>> \o Presense
V7ContactFlagLate ==      \* mutant
               <<<<"insert", "normal">>, <<"if", "active">>, <<"loaded", "">>>> \o Presense
V7Contact   == <<<<"insert", "normal">>, <<"loaded", "">>, <<"if", "active">>>> \o Presense
V3UserAdd   == <<<<"look", "">>, <<"hand", "">>, <<"insert", "normal">>>>
V5UserAdd   == <<<<"look", "">>, <<"rights", "">>, <<"hand", "">>, <<"insert", "normal">>>>
V7UserAdd   == <<<<"insert", "normal">>, <<"loaded", "">>, <<"if", "active">>,
                 <<"look", "">>, <<"rights", "">>, <<"hand", "">>>>
CliReady    == <<<<"upactive", "">>>> \o BroadcastOnline \o <<<<"if", "cloaded">>>> \o Presense
ReadyAgain  == <<<<"if", "cloaded">>>> \o Presense
SetStatus   == <<<<"setshm", "">>, <<"update", "">>, <<"branch", "">>>>
V7SetStatus(active) == IF active THEN <<<<"update", "">>, <<"branch", "">>>>
                                 ELSE <<<<"update", "">>>>
AddList(type)  == <<<<"insert", type>>>>
OneListOnly(type, other) == <<<<"insert", type>>, <<"clear", other>>>>
ChangeList(op, type) ==
  <<<<op, type>>, <<"need", "">>,
    <<"tell", IF (op = "insert") = (type = "visible") THEN "on" ELSE "off">>>>

----------------------------------------------------------------------------
(* Taking a request *)

At(p, op)  == st[p].prog # <<>> /\ Head(st[p].prog)[1] = op
Arg(p)     == Head(st[p].prog)[2]
IdlePP(p)  == st[p].prog = <<>>
U(p)       == st[p].u
\* The user's data changed: the other handlers under way may not know.
Cut(job)   == IF job.prog = <<>> THEN Idle ELSE job
Moves(p, u, job) == [q \in PPs |-> IF q = p THEN Cut(job)
                                   ELSE IF IdlePP(q) THEN st[q]
                                   ELSE [st[q] EXCEPT !.moved = @ \cup {u}]]
Job(u, why, prog, list) == [Idle EXCEPT !.prog = prog, !.why = why, !.u = u,
                                        !.sid = shm[u].sid, !.list = list]
Take(p, u) == IdlePP(p) /\ Online(u) /\ njob < MaxJobs /\ njob' = njob + 1
Start(p, job) == st' = [st EXCEPT ![p] = Cut(job)]
TakeRest   == <<proto, view, excuses>>

\* A number no handler under way takes for the session of this user.
Sids      == 1 .. Cardinality(PPs) + 1
FreeSids(u) == {n \in Sids : \A p \in PPs : st[p].u = u => st[p].sid # n}
NewSid(u) == {n \in FreeSids(u) : \A m \in FreeSids(u) : n <= m}

\* The row is inserted (OnlineTable has the details); V3 and V5 sessions are
\* active and announced at once.
Login(p, u, status) == \E sid \in NewSid(u) :
  /\ IdlePP(p) /\ ~Online(u) /\ njob < MaxJobs /\ njob' = njob + 1
  /\ shm' = [shm EXCEPT ![u] = [sid |-> sid, active |-> proto[u] # "v7",
                                status |-> status, cloaded |-> FALSE]]
  /\ rows' = [rows EXCEPT ![u] = [on |-> TRUE, active |-> proto[u] # "v7", stat |-> status]]
  /\ view' = [view EXCEPT ![u] = [x \in Users |-> "off"]]
  /\ excuses' = {e \in excuses : e.v # u}
                  \cup Excuse({<<u, x>> : x \in {y \in Users : Listed(u, y, "normal")}}, "leftover")
  /\ st' = Moves(p, u, IF proto[u] = "v7" THEN Idle
                    ELSE [Job(u, "login", BroadcastOnline, {}) EXCEPT !.sid = sid,
                                                                      !.new = status])
  /\ UNCHANGED <<proto, contacts>>

\* move_user_offline: a logoff, an expiry, a closed connection.
Logoff(p, u) ==
  /\ IdlePP(p) /\ Online(u)
  /\ Start(p, Job(u, "logoff", MoveOffline, {}))
  /\ UNCHANGED <<TakeRest, tables, njob>>

Ready(p, u) ==
  /\ proto[u] = "v7" /\ Take(p, u)
  /\ IF shm[u].active
       THEN Start(p, Job(u, "ready", ReadyAgain, Users)) /\ UNCHANGED shm
       ELSE /\ st' = Moves(p, u, Job(u, "ready", CliReady, Users))
            /\ shm' = [shm EXCEPT ![u].active = TRUE]
  /\ UNCHANGED <<TakeRest, rows, contacts>>

\* V3 and V5 handlers work on a copy of the record, V7 ones on the record.
Status(p, u, new) ==
  /\ Take(p, u)
  /\ LET job == [Job(u, "status", IF proto[u] = "v7" THEN V7SetStatus(shm[u].active) ELSE SetStatus, {})
                   EXCEPT !.new = new, !.old = shm[u].status]
     IN IF proto[u] = "v7"
          THEN shm' = [shm EXCEPT ![u].status = new] /\ st' = Moves(p, u, job)
          ELSE Start(p, job) /\ UNCHANGED shm
  /\ UNCHANGED <<TakeRest, rows, contacts>>

Contact(p, v, list) ==
  /\ Take(p, v)
  /\ Start(p, Job(v, "contact", CASE proto[v] = "v3" -> V3Contact
                                  [] proto[v] = "v5" -> V5Contact
                                  [] OTHER           -> V7Contact, list))
  /\ UNCHANGED <<TakeRest, tables>>

UserAdd(p, v, u) ==
  /\ Take(p, v)
  /\ Start(p, Job(v, "useradd", CASE proto[v] = "v3" -> V3UserAdd
                                  [] proto[v] = "v5" -> V5UserAdd
                                  [] OTHER           -> V7UserAdd, {u}))
  /\ UNCHANGED <<TakeRest, tables>>

\* The client has forgotten the contact already.
UserDel(p, v, u) ==
  /\ proto[v] = "v7" /\ Take(p, v)
  /\ Start(p, Job(v, "userdel", <<<<"delete", "normal">>>>, {u}))
  /\ view' = [view EXCEPT ![v][u] = "off"]
  /\ UNCHANGED <<proto, tables, excuses>>

\* Visible and invisible lists.
Lists(p, u, v, type, other) ==
  /\ Take(p, u)
  /\ \/ /\ proto[u] = "v5"
        /\ \/ Start(p, Job(u, "list", AddList(type), {v}))
           \/ \E op \in {"insert", "delete"} :
                Start(p, Job(u, "vilist", ChangeList(op, type), {v}))
     \/ /\ proto[u] = "v7"
        /\ \/ Start(p, Job(u, "list", OneListOnly(type, other), {v}))
           \/ Start(p, Job(u, "list", <<<<"delete", type>>>>, {v}))
  /\ UNCHANGED <<TakeRest, tables>>

TakeOne(p) ==
  \/ \E u \in Users, s \in Statuses : Login(p, u, s) /\ (s = "private" => u \in Subjects)
  \/ \E u \in Users : Logoff(p, u) \/ Ready(p, u)
  \/ \E u \in Subjects, s \in Statuses : Status(p, u, s)
  \/ \E u \in Subjects : \E v \in Users \ {u} :
       Lists(p, u, v, "visible", "invisible") \/ Lists(p, u, v, "invisible", "visible")
  \/ \E v \in Viewers : \E u \in Users \ {v} :
       Contact(p, v, {u}) \/ UserAdd(p, v, u) \/ UserDel(p, v, u)

----------------------------------------------------------------------------
(* The steps *)

Job0(p)    == [st[p] EXCEPT !.prog = Tail(@)]
Next1(p)   == Start(p, Job0(p))
Rest       == <<proto, njob>>
\* The status a V7 handler reads is the record's, at every look.
NewOf(p)   == IF proto[U(p)] = "v7" THEN shm[U(p)].status ELSE st[p].new
\* A V7 handler whose record was emptied works for nobody.
Void(p)    == proto[U(p)] = "v7" /\ shm[U(p)].sid # st[p].sid

\* List changes that nobody is told of.
Silently(p) ==
  IF st[p].why = "list"
    THEN Excuse({<<c[2], U(p)>> : c \in (contacts' \ contacts) \cup (contacts \ contacts')}, "silent")
    ELSE {}
\* V3 and V5 look for a contact before they insert him: he may have moved since.
LookedFirst(p) == IF st[p].why = "useradd" /\ proto[U(p)] # "v7" /\ st[p].moved \cap st[p].list # {}
                    THEN Excuse({<<U(p), t>> : t \in st[p].list}, "lookfirst") ELSE {}
\* The session of the request has ended: its contacts stay for the next one.
Leftover(p) == IF shm[U(p)].sid # st[p].sid /\ At(p, "insert")
                 THEN Excuse({<<U(p), t>> : t \in st[p].list}, "leftover") ELSE {}
WriteLists(p, op, new) ==
  /\ At(p, op)
  /\ contacts' = IF Void(p) /\ op # "wipe" THEN contacts ELSE new
  /\ st' = Moves(p, U(p), Job0(p))
  /\ UNCHANGED <<Rest, shm, rows, view>>
  /\ excuses' = excuses \cup Silently(p) \cup LookedFirst(p) \cup Leftover(p)

Of(p, type) == {<<U(p), v, type>> : v \in st[p].list}
\* db_contact_insert and the three db_contact_delete
Insert(p) == WriteLists(p, "insert", contacts \cup Of(p, Arg(p)))
Delete(p) == WriteLists(p, "delete", contacts \ Of(p, Arg(p)))
Clear(p)  == WriteLists(p, "clear", {c \in contacts : ~(c[1] = U(p) /\ c[3] = Arg(p))})
Wipe(p)   == WriteLists(p, "wipe", {c \in contacts : c[1] # U(p)})

\* db_online_delete
Gone(p) ==
  /\ At(p, "gone")
  /\ shm' = [shm EXCEPT ![U(p)] = NoRecord] /\ rows' = [rows EXCEPT ![U(p)] = NoRow]
  /\ st' = Moves(p, U(p), Job0(p))
  /\ UNCHANGED <<Rest, contacts, view, excuses>>

\* shm_setstatus: the new status of a copy that may be stale by now.
SetShm(p) ==
  /\ At(p, "setshm")
  /\ IF Online(U(p))
       THEN /\ shm' = [shm EXCEPT ![U(p)].status = st[p].new]
            /\ excuses' = excuses \cup IF shm[U(p)].status # st[p].old
                                         THEN Excuse(Pairs(U(p)), "stale") ELSE {}
       ELSE UNCHANGED <<shm, excuses>>
  /\ st' = Moves(p, U(p), Job0(p))
  /\ UNCHANGED <<Rest, rows, contacts, view>>

UpdateRow(p) ==
  /\ At(p, "update") \/ At(p, "upactive")
  /\ rows' = [rows EXCEPT ![U(p)] =
                IF ~@.on \/ Void(p) THEN @
                ELSE IF At(p, "update") THEN [@ EXCEPT !.stat = NewOf(p)]
                ELSE [@ EXCEPT !.active = TRUE]]
  /\ st' = Moves(p, U(p), Job0(p))
  /\ UNCHANGED <<Rest, shm, contacts, view, excuses>>

\* user->cloaded = 1, and the two tests of the V7 handlers
Loaded(p) ==
  /\ At(p, "loaded")
  /\ shm' = IF Void(p) THEN shm ELSE [shm EXCEPT ![U(p)].cloaded = TRUE]
  /\ Next1(p)
  /\ UNCHANGED <<Rest, rows, contacts, view, excuses>>
Test(p) ==
  /\ At(p, "if")
  /\ Start(p, IF ~Void(p) /\ shm[U(p)][Arg(p)] THEN Job0(p) ELSE Idle)
  /\ UNCHANGED <<Rest, tables, view, excuses>>

Branch(p) ==
  /\ At(p, "branch")
  /\ Start(p, [Job0(p) EXCEPT !.prog = IF Void(p) THEN <<>> ELSE BroadcastStatus(NewOf(p), st[p].old)])
  /\ UNCHANGED <<Rest, tables, view, excuses>>

----------------------------------------------------------------------------
(* Telling others: the queries of isdcore/broadcast.cpp *)

\* The rows of a query and the loop over them; no rows, no loop.
Results(p, rs) == Start(p, [Job0(p) EXCEPT !.got = rs, !.prog = IF rs = {} THEN Tail(@) ELSE @])
Done(p, x) == Start(p, [st[p] EXCEPT !.got = @ \ {x}, !.hand = 0,
                                     !.prog = IF st[p].got = {x} THEN Tail(@) ELSE @])

HasMe(u)      == {v \in Users : rows[v].active /\ Listed(v, u, "normal")}
NotHidden(u)  == {v \in HasMe(u) : ~Listed(u, v, "invisible")}
Chosen(u)     == {v \in HasMe(u) : Listed(u, v, "visible")}
Told(u, which, status) ==
  CASE which = "all" -> HasMe(u)
    [] which = "shown" \/ (which = "online" /\ status # "private") -> NotHidden(u)
    [] OTHER -> Chosen(u)

\* A V7 client is being activated: shm_activate_user first, the row second.
Waking(p) == Excuse({<<v, U(p)>> : v \in {x \in Users \ {U(p)} : shm[x].active /\ ~rows[x].active}}, "waking")
Select(p) ==
  /\ At(p, "select")
  /\ Results(p, IF Void(p) /\ Arg(p) # "all" THEN {} ELSE Told(U(p), Arg(p), NewOf(p)))
  /\ excuses' = excuses \cup Waking(p)
  /\ UNCHANGED <<Rest, tables, view>>

\* What a client is told is right at that moment, or there is a reason.
Sees(p, v, u, what) ==
  /\ view' = [view EXCEPT ![v][u] = what]
  /\ excuses' = IF what = Truth(v, u) /\ (Listed(v, u, "normal") \/ st[p].why = "useradd")
                THEN excuses \ {e \in excuses : e.v = v /\ e.u = u}
                ELSE excuses \cup Excuse({<<v, u>>}, IF st[p].moved \cap {u, v} # {} THEN "late"
                                                     ELSE st[p].why)
Unseen == UNCHANGED <<view, excuses>>

Tell(p) ==
  /\ At(p, "tell")
  /\ \E v \in st[p].got :
       /\ Done(p, v)
       /\ \/ Online(v) /\ Sees(p, v, U(p), Arg(p))
          \/ ~Online(v) /\ Unseen
          \* need_notification leaves the address of the session unset
          \/ /\ st[p].why = "vilist"
             /\ excuses' = excuses \cup Excuse({<<v, U(p)>>}, "lost") /\ UNCHANGED view
  /\ UNCHANGED <<Rest, tables>>

\* need_notification
Need(p) ==
  /\ At(p, "need")
  /\ Results(p, {v \in st[p].list : rows[v].on /\ Listed(v, U(p), "normal")})
  /\ UNCHANGED <<Rest, tables, view, excuses>>

----------------------------------------------------------------------------
(* Showing a user his contacts *)

QueryResult(p) ==
  {t \in st[p].list :
     /\ Listed(U(p), t, "normal") /\ rows[t].active
     /\ CASE Arg(p) = "any"  -> TRUE
          [] Arg(p) = "open" -> rows[t].stat # "private" /\ ~Listed(t, U(p), "invisible")
          [] OTHER           -> rows[t].stat = "private" /\ Listed(t, U(p), "visible")}
Split(p) == Excuse({<<U(p), t>> : t \in {x \in st[p].list \ {U(p)} :
                      rows[x].on /\ (rows[x].stat # shm[x].status \/ rows[x].active # shm[x].active)}}, "split")
Query(p) ==
  /\ At(p, "query")
  /\ Results(p, QueryResult(p))
  /\ excuses' = excuses \cup Split(p)
  /\ UNCHANGED <<Rest, tables, view>>

\* A V3 or V5 handler copies the contact's record and then sends it.
Fetch(p) ==
  /\ At(p, "show") /\ st[p].hand = 0
  /\ \E t \in st[p].got :
       IF Online(t) THEN Start(p, [st[p] EXCEPT !.hand = t]) ELSE Done(p, t)
  /\ UNCHANGED <<Rest, tables, view, excuses>>

ToMe(p, t) ==
  IF shm[U(p)].sid = st[p].sid /\ (proto[U(p)] = "v7" => Online(t))
    THEN Sees(p, U(p), t, "on") ELSE Unseen
Show(p) ==
  /\ At(p, "show") /\ st[p].hand # 0
  /\ ToMe(p, st[p].hand)
  /\ Done(p, st[p].hand)
  /\ UNCHANGED <<Rest, tables>>

\* db_online_lookup, db_add_online_lookup
Look(p) ==
  /\ At(p, "look")
  /\ \E t \in st[p].list :
       Start(p, [Job0(p) EXCEPT !.hand = IF Online(t) /\ shm[t].active THEN t ELSE 0,
                                !.saw = shm[t].status])
  /\ UNCHANGED <<Rest, tables, view, excuses>>
Rights(p) ==
  /\ At(p, "rights")
  /\ LET t == st[p].hand
         may == IF st[p].saw = "private" THEN Listed(t, U(p), "visible")
                                         ELSE ~Listed(t, U(p), "invisible")
     IN Start(p, [Job0(p) EXCEPT !.hand = IF t # 0 /\ may THEN t ELSE 0])
  /\ UNCHANGED <<Rest, tables, view, excuses>>
Hand(p) ==
  /\ At(p, "hand")
  /\ IF st[p].hand # 0 THEN ToMe(p, st[p].hand) ELSE Unseen
  /\ Start(p, [Job0(p) EXCEPT !.hand = 0])
  /\ UNCHANGED <<Rest, tables>>

----------------------------------------------------------------------------
(* A statement fails: handle_database_error.  Writes are not repeated, a   *)
(* broadcast or an upload is given up, a V7 client is disconnected.        *)
Writes  == {"insert", "delete", "clear", "wipe", "update", "upactive"}
GivenUp(p) ==
  LET s == st[p] IN
  CASE At(p, "query") -> IF proto[U(p)] = "v7" THEN [s EXCEPT !.prog = MoveOffline, !.why = "logoff"]
                                               ELSE Idle
    [] At(p, "rights") -> [Job0(p) EXCEPT !.hand = 0]
    [] At(p, "select") /\ Arg(p) \in {"online", "all"} -> [s EXCEPT !.prog = Tail(Tail(@))]
    [] OTHER -> Idle
Fail(p) ==
  /\ njob < MaxJobs /\ njob' = njob + 1
  /\ \/ \E op \in Writes : At(p, op) /\ Next1(p)
     \/ \E op \in {"select", "query", "rights", "need"} : At(p, op) /\ Start(p, GivenUp(p))
  /\ excuses' = excuses \cup Excuse(Pairs(U(p)), "error")
  /\ UNCHANGED <<proto, tables, view>>

Step(p) ==
  \/ Insert(p) \/ Delete(p) \/ Clear(p) \/ Wipe(p) \/ Gone(p)
  \/ SetShm(p) \/ UpdateRow(p) \/ Loaded(p) \/ Test(p) \/ Branch(p)
  \/ Select(p) \/ Tell(p) \/ Need(p) \/ Query(p) \/ Fetch(p) \/ Show(p)
  \/ Look(p) \/ Rights(p) \/ Hand(p) \/ Fail(p)

Next == \E p \in PPs : TakeOne(p) \/ Step(p)
Spec == Init /\ [][Next]_vars

----------------------------------------------------------------------------
Settled(v, u) == /\ \A p \in PPs : IdlePP(p)
                 /\ Online(v) /\ shm[v].active /\ Listed(v, u, "normal")
Whys(v) == {"late", "silent", "stale", "split", "lost", "error", "vilist", "leftover"}
           \cup (IF proto[v] = "v3" THEN {"contact", "useradd", "lookfirst"}
                ELSE IF proto[v] = "v5" THEN {"lookfirst"} ELSE {"waking"})

\* The tables hold what their types say; a session is active as soon as its
\* client speaks V3 or V5; only V7 clients have a loaded flag.
TypeOK ==
  /\ shm \in [Users -> [sid : Sids \cup {0}, active : BOOLEAN, status : Statuses, cloaded : BOOLEAN]]
  /\ rows \in [Users -> [on : BOOLEAN, active : BOOLEAN, stat : Statuses]]
  /\ contacts \subseteq Users \X Users \X Types
  /\ view \in [Users -> [Users -> {"on", "off"}]]
  /\ \A u \in Users : rows[u].on = Online(u) /\ (rows[u].active => shm[u].active)

\* Types; and when nothing is under way, a client that has a contact on its list knows
\* that he is there, unless for one of these reasons.
SeesWhoIsThere ==
  /\ TypeOK
  /\ \A v, u \in Users :
    u # v /\ Settled(v, u) /\ Truth(v, u) = "on" /\ view[v][u] = "off" => Excused(v, u) \cap Whys(v) # {}

\* ... and one who is gone or hides is not shown.
HiddenStaysHidden ==
  \A v, u \in Users :
    u # v /\ Settled(v, u) /\ Truth(v, u) = "off" /\ view[v][u] = "on" => Excused(v, u) \cap Whys(v) # {}
=============================================================================
