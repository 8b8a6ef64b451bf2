----------------------------- MODULE Directory -----------------------------
(***************************************************************************)
(* The directory of users in operation: packet processors that save what   *)
(* users say about themselves (the handlers are listed in UserInfo), that  *)
(* delete users, and that give numbers to new ones, statement by statement *)
(* over the table Users_Info_Ext.                                          *)
(*                                                                         *)
(* V3 and V5 handlers copy the session they serve.  V7 handlers keep a     *)
(* pointer into the shared memory and read the number of the user from it  *)
(* at each statement; the place may meanwhile belong to somebody else.     *)
(*                                                                         *)
(* One aspect of a row is looked at in each behaviour (look): what is in a *)
(* column decides nothing.  Values keep the request and the field that     *)
(* they come from.  Left out: the administrator who accepts requests for   *)
(* registration; ranges of numbers (an unknown permission becomes 1).      *)
(***************************************************************************)
EXTENDS UserInfo, Integers, Sequences

CONSTANTS PPs,         \* packet processors
          Users,       \* those with a number to begin with
          Newcomers,   \* those who want one
          Slots,       \* places in the shared memory
          Looks,       \* bound: the aspects of a row looked at
          Accounts,    \* bound: the aspects together with which users come and go
          MaxUin,      \* bound
          MaxRequests, \* bound: requests; one more where users come and go, another to join again
          MaxEvents    \* bound: logins, ends of sessions, repeated packets, statements that fail; one fewer

Everyone == Users \cup Newcomers
Uins     == 0..MaxUin

ASSUME UsersAssumption == IsFiniteSet(Users) /\ Cardinality(Users) <= MaxUin /\ Users \cap Newcomers = {}
ASSUME SlotsAssumption == Slots \subseteq Nat
ASSUME BoundsAssumption == MaxUin \in Nat /\ MaxRequests \in Nat /\ MaxEvents \in Nat
ASSUME LooksAssumption == Looks \subseteq Aspects /\ Accounts \subseteq Looks

VARIABLES look,     \* the columns looked at
          rows,     \* Users_Info_Ext: the registered numbers, whose they are and what is stored
          pending,  \* register_requests: whether it exists, and what is in it
          slot,     \* the sessions: who, with which protocol
          st,       \* what each packet processor is doing
          sent,     \* history: the requests to save, in the order they arrived
          told,     \* history: for each field, the last request that its owner knows is stored under his number
          number,   \* history: the number that each user knows to be his, 0: none
          why,      \* history: why a field may not be as its owner was told
          odd,      \* history: why a row may hold what is not its owner's
          hasty,    \* history: why the number of a newcomer may not be his
          nsent,    \* bound
          nevent    \* bound

data == <<rows, pending>>
past == <<sent, told, number, why, odd, hasty>>
vars == <<look, data, slot, st, past, nsent, nevent>>

-----------------------------------------------------------------------------
(* Data.                                                                   *)

Value(n, f)  == [nr |-> n, of |-> f]          \* field f of request n; 0: as registered
NoValue(src) == Value(-1, src)
NoRow  == [who |-> "none"]
Free   == [who |-> "none", nr |-> 0]
Fresh(p) == [who |-> p, val |-> [c \in look |-> Value(0, c)]]

Session(p, nr, u, proto) == [who |-> p, nr |-> nr, uin |-> u, proto |-> proto]

Known(u) == rows[u] # NoRow
Top(S)   == IF S = {} THEN 0 ELSE CHOOSE u \in S : \A v \in S : v <= u
Online(p) == {s \in Slots : slot[s].who = p}

\* A handler as far as the aspect goes.
Seen(h, a) == [at |-> a, proto |-> h.proto, reply |-> h.reply, toolong |-> h.toolong, about |-> h.about /\ "notes" \in a,
               reads |-> h.reads, fields |-> h.fields \cap a, flags |-> h.flags \cap a, spoils |-> h.spoils \cap a,
               nothing |-> DOMAIN h.writes = {}, writes |-> Restrict(h.writes, DOMAIN h.writes \cap a)]
Touches(h) == h.fields \cup h.spoils \cup DOMAIN h.writes
Handlers == {h \in UNION {{Seen(k, a) : k \in Saving} : a \in Looks} : Touches(h) # {}}

-----------------------------------------------------------------------------
(* Packet processors.                                                      *)

Idle == [job |-> "idle", todo |-> <<>>]
Doing(q, step) == st[q].todo # <<>> /\ Head(st[q].todo) = step
UinOfPlace(q) == IF slot[st[q].slot] = Free THEN 0 ELSE slot[st[q].slot].uin

\* The user of the session: copied at the start, or read through the pointer.
Uin(q) == IF st[q].h.proto # "v7" THEN st[q].uin
          ELSE IF slot[st[q].slot] = Free THEN 0 ELSE slot[st[q].slot].uin
Same(q) == slot[st[q].slot].nr = st[q].nr
Then(t) == IF Len(t.todo) = 1 THEN Idle ELSE [t EXCEPT !.todo = Tail(@)]
GoOn(q) == st' = [st EXCEPT ![q] = Then(@)]
\* a statement failed (or matched nothing): no further statement, the answer says so
GiveUp(q) == st' = [st EXCEPT ![q] = IF "answer" \in Range(@.todo) THEN [@ EXCEPT !.ok = FALSE, !.todo = <<"answer">>]
                                     ELSE Idle]

Request(more) == nsent < (IF look \in Accounts THEN MaxRequests + more ELSE MaxRequests) /\ nsent' = nsent + 1
Event   == nevent < (IF look \in Accounts THEN MaxEvents - 1 ELSE MaxEvents) /\ nevent' = nevent + 1

\* the reasons r for fields F of user p
Because(w, p, F, r) == [w EXCEPT ![p] = [f \in look |-> IF f \in F THEN @[f] \cup r ELSE @[f]]]

-----------------------------------------------------------------------------
(* Saving.                                                                 *)

StepsNoNotes(h, refused, about) ==
  IF h.reply = "first" THEN <<"answer", "write">>
  ELSE IF refused \/ h.nothing THEN <<"answer">>
  ELSE (IF h.reads THEN <<"read">> ELSE <<>>) \o <<"write", "answer">>

Steps(h, refused, about) ==
  LET notes == IF h.about /\ about THEN <<"about">> ELSE <<>> IN
  IF h.reply = "first" THEN <<"answer", "write">>
  ELSE IF refused \/ h.nothing THEN notes \o <<"answer">>
  ELSE (IF h.reads THEN <<"read">> ELSE <<>>) \o notes \o <<"write", "answer">>

\* other requests of p that are being dealt with and have a field in common with this one
Crossing(p, h) == (UNION {Touches(st[x].h) : x \in {y \in PPs : st[y].job = "save" /\ st[y].who = p}}) \cap Touches(h)

\* Request n of user p, in the session at place s; junk: the fields that were not read.
Begin(q, n, p, s, h, long, junk, again) ==
  LET refused == long /\ h.toolong = "refuse" IN
  st' = [st EXCEPT ![q] =
          [job |-> "save", n |-> n, who |-> p, uin |-> slot[s].uin, slot |-> s, nr |-> slot[s].nr, h |-> h,
           long |-> long, junk |-> junk, again |-> again, ok |-> ~refused /\ ~(h.nothing /\ h.reply = "counted"),
           half |-> FALSE, base |-> [c \in look |-> NoValue(Empty)], todo |-> Steps(h, refused, junk = {})]]
Sent(p, s, h, hide) == sent' = Append(sent, [who |-> p, hide |-> hide, h |-> h, nr |-> slot[s].nr])
Served(s, h) == h.at = look /\ slot[s].proto = h.proto

\* A packet that asks to save: hide, the addresses that the owner wants not to be shown.
Save(q, s) == LET p == slot[s].who IN
  /\ slot[s] # Free
  /\ Request(1)
  /\ \E h \in Handlers : \E hide \in SUBSET h.flags :
       /\ Served(s, h)
       /\ Sent(p, s, h, hide)
       /\ Begin(q, Len(sent) + 1, p, s, h, FALSE, {}, FALSE)
       /\ why' = Because(Because(why, p, h.spoils, {"spoiled"}), p, Crossing(p, h), {"overlap"})
  /\ UNCHANGED <<look, data, slot, told, number, odd, hasty, nevent>>

\* What is not read when a string is refused: all that is looked at, or nothing.
Junk(h) == {{}} \cup (IF h.toolong = "save" THEN {h.fields} ELSE IF h.about THEN {{"notes"}} ELSE {})

\* A string of the packet is too long.  V3 and V5 move the user offline.
TooLong(q, s) == LET p == slot[s].who IN
  /\ slot[s] # Free
  /\ Request(1) /\ Event
  /\ \E h \in Handlers : \E junk \in Junk(h) :
       /\ Served(s, h) /\ h.toolong # "none"
       /\ Sent(p, s, h, h.flags)
       /\ IF h.toolong = "drop" THEN UNCHANGED <<st, why>>
          ELSE /\ Begin(q, Len(sent) + 1, p, s, h, TRUE, junk, FALSE)
               /\ why' = Because(Because(Because(why, p, h.spoils, {"spoiled"}), p, junk, {"long"}),
                                 p, Crossing(p, h), {"overlap"})
  /\ slot' = IF slot[s].proto = "v7" THEN slot ELSE [slot EXCEPT ![s] = Free]
  /\ UNCHANGED <<look, data, told, number, odd, hasty>>

\* A V3 or V5 packet arrives once more: nothing in the handlers tells.
Again(q, n) ==
  /\ n \in 1..Len(sent) /\ sent[n].h.proto # "v7"
  /\ \E s \in Slots :
       /\ slot[s].nr = sent[n].nr
       /\ Begin(q, n, sent[n].who, s, sent[n].h, FALSE, {}, TRUE)
  /\ Event
  /\ why' = LET p == sent[n].who
                F == {f \in Touches(sent[n].h) : told[p][f] # n}
            IN  Because(why, p, F \cup Crossing(p, sent[n].h), {"again"})
  /\ UNCHANGED <<look, data, slot, sent, told, number, odd, hasty, nsent>>

\* what is put into column c
Stored(t, c) ==
  LET f == t.h.writes[c] IN
  IF f \in t.junk \/ f = Undefined THEN NoValue("undefined")
  ELSE IF f = Empty THEN IF t.h.reads THEN t.base[c] ELSE NoValue("nothing")
  ELSE Value(t.n, f)

\* Why row u may now hold what is not its owner's.
Strays(q, u) == (IF ~Same(q) /\ st[q].h.proto = "v7" THEN {"place"} ELSE {})
                \cup (IF rows[u].who # st[q].who /\ u = st[q].uin THEN {"reused"} ELSE {})

Put(q, new) ==
  LET u == Uin(q) IN
  /\ rows' = [rows EXCEPT ![u].val = [c \in look |-> IF c \in DOMAIN new THEN new[c] ELSE @[c]]]
  /\ odd'  = [odd EXCEPT ![u] = @ \cup Strays(q, u)]
  /\ why'  = IF Strays(q, u) = {} THEN why ELSE Because(why, rows[u].who, DOMAIN new, Strays(q, u))

\* db_users_lookup: the row, to be written back
Read(q) ==
  /\ Doing(q, "read")
  /\ IF Known(Uin(q)) THEN /\ st'  = [st EXCEPT ![q] = [Then(@) EXCEPT !.base = rows[Uin(q)].val]]
                           /\ odd' = [odd EXCEPT ![Uin(q)] = @ \cup Strays(q, Uin(q))]
     ELSE GiveUp(q) /\ UNCHANGED odd
  /\ UNCHANGED <<look, data, slot, sent, told, number, why, hasty, nsent, nevent>>

\* The notes have a statement of their own, before the others.
SaveAbout(q) ==
  /\ Doing(q, "about")
  /\ IF Known(Uin(q)) THEN Put(q, [c \in {"notes"} |-> Value(st[q].n, c)]) ELSE UNCHANGED <<rows, odd, why>>
  /\ st' = [st EXCEPT ![q] = [Then(@) EXCEPT !.half = TRUE]]
  /\ UNCHANGED <<look, pending, slot, sent, told, number, hasty, nsent, nevent>>

\* An UPDATE that finds no row is no error; only two handlers count the rows.
Write(q) ==
  /\ Doing(q, "write")
  /\ IF Known(Uin(q)) THEN Put(q, [c \in DOMAIN st[q].h.writes |-> Stored(st[q], c)]) /\ GoOn(q)
     ELSE /\ IF st[q].h.reply = "counted" THEN GiveUp(q) ELSE GoOn(q)
          /\ UNCHANGED <<rows, odd, why>>
  /\ UNCHANGED <<look, pending, slot, sent, told, number, hasty, nsent, nevent>>

\* The statement fails.
Fail(q) == LET h == st[q].h IN
  /\ \E step \in {"read", "about", "write"} : Doing(q, step)
  /\ Event
  /\ GiveUp(q)
  /\ why' = IF h.reply \in {"yes", "first"} THEN Because(why, st[q].who, Touches(h), {"failed"}) ELSE why
  /\ UNCHANGED <<look, data, slot, sent, told, number, odd, hasty, nsent>>

\* The answer; it is of use to the client that asked, if it is still there.
Answer(q) == LET t == st[q] IN
  /\ t.job = "save" /\ Doing(q, "answer")
  /\ LET heard == (Same(q) \/ (t.long /\ t.h.proto # "v7")) /\ ~t.again
         true  == t.ok \/ t.h.reply \in {"yes", "first"}
     IN  /\ told' = IF heard /\ true THEN [told EXCEPT ![t.who] = [f \in look |-> IF f \in t.h.fields THEN t.n ELSE @[f]]]
                    ELSE told
         /\ why'  = IF t.again \/ (heard /\ (true \/ ~t.half)) THEN why
                    ELSE Because(why, t.who, Touches(t.h), {IF heard THEN "half" ELSE "left"})
  /\ GoOn(q)
  /\ UNCHANGED <<look, data, slot, sent, number, odd, hasty, nsent, nevent>>

-----------------------------------------------------------------------------
(* Leaving and joining.                                                    *)

Leaves(p)  == \E q \in PPs : st[q].job = "leave" /\ st[q].who = p
Leaving(p) == \E q \in PPs : st[q].job = "leave" /\ st[q].who = p /\ st[q].uin = number[p]
Joining(p) == \E q \in PPs : st[q].job = "join" /\ st[q].who = p
Crossed(p) == [hasty EXCEPT ![p] = @ \cup {"crossed"}]

\* CMD_META_USER_UNREGISTER, META_UNREGISTER_USER: the packet names the number u, of the
\* session or of somebody else.
Leave(q, s) ==
  /\ slot[s] # Free /\ slot[s].proto # "v3" /\ look \in Accounts
  /\ Request(1)
  /\ \E u \in Uins :
       /\ u = slot[s].uin \/ Known(u)
       /\ st' = [st EXCEPT ![q] = [job |-> "leave", who |-> slot[s].who, uin |-> u, ok |-> TRUE,
                                   todo |-> <<"delete", "goodbye">>]]
  /\ hasty' = IF Joining(slot[s].who) THEN Crossed(slot[s].who) ELSE hasty
  /\ UNCHANGED <<look, data, slot, sent, told, number, why, odd, nevent>>

\* db_users_delete_user, if the password of the packet is that of the row; to delete
\* nothing is no error.
Delete(q) == LET u == st[q].uin IN
  /\ Doing(q, "delete")
  /\ \/ /\ Known(u)
        /\ rows' = [rows EXCEPT ![u] = NoRow]
        /\ hasty' = IF rows[u].who = st[q].who THEN hasty ELSE [hasty EXCEPT ![rows[u].who] = @ \cup {"removed"}]
     \/ UNCHANGED <<rows, hasty>>
  /\ GoOn(q)
  /\ UNCHANGED <<look, pending, slot, sent, told, number, why, odd, nsent, nevent>>

DeleteFails(q) ==
  /\ Doing(q, "delete") /\ Event
  /\ st' = [st EXCEPT ![q] = [Then(@) EXCEPT !.ok = FALSE]]
  /\ UNCHANGED <<look, data, slot, past, nsent>>

\* The session goes on; its user was told that the number he named is gone.
Goodbye(q) == LET p == st[q].who IN
  /\ Doing(q, "goodbye")
  /\ number' = IF st[q].ok /\ st[q].uin = number[p] THEN [number EXCEPT ![p] = 0] ELSE number
  /\ GoOn(q)
  /\ UNCHANGED <<look, data, slot, sent, told, why, odd, hasty, nsent, nevent>>

\* The ways to get a number: which statements follow each other, whether the user is
\* added at once or left to an administrator, and whether he is told his number.
Ways == {[name |-> "v3", todo |-> <<"max", "exists", "insert", "welcome">>, creates |-> TRUE, byhand |-> FALSE],
         [name |-> "v3_by_hand", todo |-> <<"max", "exists", "insert", "welcome">>, creates |-> TRUE, byhand |-> TRUE],
         [name |-> "v5_v7", todo |-> <<"max", "exists", "insert", "welcome">>, creates |-> FALSE, byhand |-> FALSE],
         [name |-> "v5_by_hand", todo |-> <<"exists", "insert">>, creates |-> TRUE, byhand |-> TRUE]}

\* A newcomer asks once at a time: to ask again is to be another newcomer.
Join(q, n) == \E w \in Ways :
  /\ number[n] = 0 /\ look \in Accounts
  /\ \A x \in PPs : st[x].job = "join" => st[x].who # n
  /\ Request(IF \E i \in 1..Len(sent) : sent[i].who = n THEN 2 ELSE 1)
  /\ st' = [st EXCEPT ![q] = [job |-> "join", who |-> n, way |-> w, uin |-> 0, todo |-> w.todo]]
  /\ LET others == {st[x].who : x \in {y \in PPs : st[y].job = "join"}}
         before == IF Leaves(n) THEN Crossed(n) ELSE hasty
     IN  hasty' = [m \in Everyone |-> IF others # {} /\ m \in others \cup {n} THEN before[m] \cup {"race"} ELSE before[m]]
  /\ UNCHANGED <<look, data, slot, sent, told, number, why, odd, nevent>>

Got(q, u, next) == st' = [st EXCEPT ![q].uin = u, ![q].todo = next \o Tail(@)]

NewUinLast(q) ==
  /\ Doing(q, "max")
  /\ Got(q, Top({u \in Uins : Known(u)}), <<>>)
  /\ UNCHANGED <<look, data, slot, past, nsent, nevent>>

\* db_users_new_uin
NewUin(q) ==
  /\ Doing(q, "max")
  /\ Top({u \in Uins : Known(u)}) < MaxUin
  /\ Got(q, Top({u \in Uins : Known(u)}) + 1, <<>>)
  /\ UNCHANGED <<look, data, slot, past, nsent, nevent>>

\* new_users_table_exist
TableExists(q) ==
  /\ Doing(q, "exists")
  /\ Got(q, st[q].uin, IF pending.made THEN <<"max2">> ELSE IF st[q].way.creates THEN <<"create">> ELSE <<>>)
  /\ UNCHANGED <<look, data, slot, past, nsent, nevent>>

\* db_users_new_uin2
NewUin2(q) == LET next == IF pending.in = {} THEN 0 ELSE Top({e.uin : e \in pending.in}) + 1 IN
  /\ Doing(q, "max2")
  /\ next <= MaxUin
  /\ Got(q, Top({st[q].uin, next}), <<>>)
  /\ UNCHANGED <<look, data, slot, past, nsent, nevent>>

\* create_new_users_table
CreateTable(q) ==
  /\ Doing(q, "create")
  /\ pending' = [pending EXCEPT !.made = TRUE]
  /\ GoOn(q)
  /\ UNCHANGED <<look, rows, slot, past, nsent, nevent>>

\* db_users_add_user, where a number can be there once, and db_new_add_user
Insert(q) == LET t == st[q] IN
  /\ Doing(q, "insert")
  /\ IF t.way.byhand
     THEN /\ pending' = IF pending.made THEN [pending EXCEPT !.in = @ \cup {[uin |-> t.uin, who |-> t.who]}] ELSE pending
          /\ UNCHANGED rows
     ELSE /\ rows' = IF Known(t.uin) THEN rows ELSE [rows EXCEPT ![t.uin] = Fresh(t.who)]
          /\ UNCHANGED pending
  /\ GoOn(q)
  /\ UNCHANGED <<look, slot, past, nsent, nevent>>

\* A statement fails; each goes on as if it had found nothing.
JoinFails(q) == LET t == st[q] IN
  /\ \E step \in {"max", "exists", "max2", "create", "insert"} : Doing(q, step)
  /\ Event
  /\ IF Doing(q, "exists") /\ t.way.creates THEN Got(q, t.uin, <<"create">>) ELSE GoOn(q)
  /\ hasty' = [hasty EXCEPT ![t.who] = @ \cup {"failed"}]
  /\ UNCHANGED <<look, data, slot, sent, told, number, why, odd, nsent>>

\* number u is given to p while a session, a request or a row of his is of an earlier time
Leftovers(p, u) ==
  \/ \E s \in Online(p) : slot[s].uin # u
  \/ \E x \in PPs : st[x].job = "save" /\ st[x].who = p
  \/ rows[u] \notin {NoRow, Fresh(p)}

\* v3_send_registration_ok, v5_send_new_uin, v7_send_new_uin: whatever the insert said.
\* What he was told is stored was stored under an earlier number.
Welcome(q) == LET p == st[q].who IN
  /\ Doing(q, "welcome")
  /\ number' = [number EXCEPT ![p] = st[q].uin]
  /\ told' = [told EXCEPT ![p] = [f \in look |-> 0]]
  /\ why' = IF Leftovers(p, st[q].uin) THEN Because(why, p, look, {"moved"}) ELSE why
  /\ GoOn(q)
  /\ UNCHANGED <<look, data, slot, sent, odd, hasty, nsent, nevent>>

-----------------------------------------------------------------------------
(* Sessions come and go; a place in the shared memory is used again.       *)

Login(p) == \E proto \in {"v3", "v5", "v7"} :
  /\ Online(p) = {} /\ number[p] # 0 /\ Known(number[p]) /\ rows[number[p]].who = p
  /\ Event
  /\ \E s \in Slots :
       /\ slot[s] = Free /\ \A k \in Slots : slot[k] = Free => s <= k
       /\ slot' = [slot EXCEPT ![s] = Session(p, nevent + 1, number[p], proto)]
  /\ UNCHANGED <<look, data, st, past, nsent>>

Logoff(s) ==
  /\ slot[s] # Free
  /\ Event
  /\ slot' = [slot EXCEPT ![s] = Free]
  /\ UNCHANGED <<look, data, st, past, nsent>>

Init ==
  /\ look \in Looks
  /\ \E uin \in {CHOOSE f \in [Users -> 1..Cardinality(Users)] : IsInjective(f)} :
       /\ rows = [u \in Uins |-> IF u \in Range(uin) THEN Fresh(CHOOSE p \in Users : uin[p] = u) ELSE NoRow]
       /\ number = [p \in Everyone |-> IF p \in Users THEN uin[p] ELSE 0]
  /\ pending \in [made : IF look \in Accounts THEN BOOLEAN ELSE {FALSE}, in : {{}}]
  /\ \E p \in Users : \E proto \in {"v3", "v5", "v7"} :
       slot = [s \in Slots |-> IF \A k \in Slots : s <= k THEN Session(p, -1, number[p], proto) ELSE Free]
  /\ st = [q \in PPs |-> Idle]
  /\ sent = <<>>
  /\ told = [p \in Everyone |-> [f \in look |-> 0]]
  /\ why = [p \in Everyone |-> [f \in look |-> {}]]
  /\ odd = [u \in Uins |-> {}]
  /\ hasty = [p \in Everyone |-> {}]
  /\ nsent = 0 /\ nevent = 0

Next ==
  \/ \E q \in PPs : \/ st[q] = Idle /\ \/ \E s \in Slots : Save(q, s) \/ TooLong(q, s) \/ Leave(q, s)
                                       \/ \E n \in 1..Len(sent) : Again(q, n)
                                       \/ \E n \in Newcomers : Join(q, n)
                    \/ Read(q) \/ SaveAbout(q) \/ Write(q) \/ Fail(q) \/ Answer(q)
                    \/ Delete(q) \/ DeleteFails(q) \/ Goodbye(q)
                    \/ NewUin(q) \/ TableExists(q) \/ NewUin2(q) \/ CreateTable(q) \/ Insert(q) \/ JoinFails(q) \/ Welcome(q)
  \/ \E p \in Everyone : Login(p)
  \/ \E s \in Slots : Logoff(s)

Spec == Init /\ [][Next]_vars

-----------------------------------------------------------------------------
(* Properties.                                                             *)

\* The records have their shape, and the uins and requests they name exist.
TypeOK ==
  /\ look \in Looks
  /\ \A u \in Uins : Known(u) => rows[u].who \in Everyone /\ DOMAIN rows[u].val = look
  /\ \A u \in Uins : Known(u) => \A c \in look : rows[u].val[c].nr \in -1..Len(sent)
  /\ pending.made \in BOOLEAN /\ \A e \in pending.in : e.uin \in Uins /\ e.who \in Everyone
  /\ \A s \in Slots : slot[s] = Free \/ (slot[s].who \in Everyone /\ slot[s].uin \in Uins)
  /\ \A p \in Everyone : number[p] \in Uins /\ told[p] \in [look -> 0..Len(sent)]

Mine(p) == number[p] # 0 /\ Known(number[p]) /\ rows[number[p]].who = p
Resting(p) == ~\E q \in PPs : st[q].job = "save" /\ st[q].who = p

\* the columns that replies show, and the password, which logins compare
ShownColumns == {c \in UNION Looks : c = "pass" \/ \E reply \in Showing : c \in reply.cols}

\* Every reply that shows a user shows, in each field, what he last was told
\* is saved, or one of the known causes took it away: two of his requests crossed,
\* a packet came twice, a statement of V3 failed, he left before the answer, ...
SavedIsShown == \A p \in Everyone : Mine(p) /\ Resting(p) =>
  \A c \in look \cap ShownColumns : rows[number[p]].val[c] = Value(told[p][c], c) \/ why[p][c] # {}

\* What a row holds was sent by its owner, unless a V7 handler outlived its
\* session and the place got another user, or the number got another owner.
OwnersWrite == \A u \in Uins : Known(u) =>
  \A c \in look : LET v == rows[u].val[c] IN v.nr > 0 /\ sent[v.nr].who # rows[u].who => odd[u] # {}

\* the column that a stranger gets where a reply has column c of a row
Asked(v, address) == v.nr > 0 /\ address \in sent[v.nr].hide
ForStranger(reply, c, val) == Column(reply, c, FALSE, Asked(val["e1publ"], "email1"))

\* An address that its owner sent as hidden is shown to no one else, unless its flag is of
\* those that the handlers drop: they know one flag, for email1, and drop it too
\* if it comes in a list of one or two, which they store in the other columns.
HiddenIsHidden == \A u \in Uins : Known(u) /\ "email1" \in look =>
  \A reply \in Showing : \A c \in reply.cols \cap look :
    \A col \in {ForStranger(reply, c, rows[u].val)} \ {Empty} : LET v == rows[u].val[col] IN
      Asked(v, v.of) => v.of # "email1" \/ "e1publ" \in sent[v.nr].h.spoils

\* Types; and the number a newcomer was told is his and nobody else's, unless two joined
\* at once or a statement failed, he left while he joined, somebody else named his number
\* and password to unregister, or its old owner is just leaving.
UinIsHis == TypeOK /\ \A n \in Newcomers : number[n] # 0 /\ hasty[n] = {} /\ ~Leaving(n) =>
  /\ Mine(n) \/ [uin |-> number[n], who |-> n] \in pending.in
  /\ \A m \in Everyone \ {n} : number[m] = number[n] => hasty[m] # {} \/ Leaving(m)
=============================================================================
