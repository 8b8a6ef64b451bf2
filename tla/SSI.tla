-------------------------------- MODULE SSI --------------------------------
(***************************************************************************)
(* Contact lists kept on the server: the handlers of SNAC family 0x13      *)
(* (isdcore/v7_proto/snac_families/sn13_icq_contacts.cpp) over the tables  *)
(* users_ssi_data and users_perms (database/ssi_db.cpp).                   *)
(*                                                                         *)
(* One user owns the list.  He logs in from one computer after another,    *)
(* each with a copy of the list and the date of its revision; when both    *)
(* the date and the number of items agree, the server says that the copy   *)
(* is up to date.  A handler is a program of statements, as in Presence,   *)
(* and requests of one connection run on several packet processors.        *)
(*                                                                         *)
(* Left out: the item types other than contacts, groups, the revision and  *)
(* the import record; the splitting of a long list into several packets;   *)
(* the texts of requests for authorization, which are relayed (Messaging   *)
(* has the path they take to a user who is not there); the presence sent   *)
(* for contacts that were added (Presence has it); handlers of the owner   *)
(* that outlive his session.                                               *)
(***************************************************************************)
EXTENDS Integers, FiniteSets, SequencesExt

CONSTANTS PPs,        \* packet processors
          Computers,  \* where the user logs in
          Keys,       \* numbers of contact items; each names a contact of its own
          Secretive,  \* the items whose contact wants to be asked
          Agreed,     \* those of them who agreed long ago
          Agreeing,   \* bound: those who agree now
          Edits,      \* bound: the changes the client makes, [op, list]
          Lists,      \* the lists that users have to begin with
          Limit,      \* type_limits[ITEM_BUDDY]
          MakeGroups, \* the values of "v7 create groups" looked at
          MaxSeconds, \* bound: the clock
          MaxEvents   \* bound: requests, logins, statements that fail

ASSUME SetsAssumption   == Secretive \subseteq Keys /\ Agreed \cup Agreeing \subseteq Secretive /\ MakeGroups \subseteq BOOLEAN
ASSUME BoundsAssumption == Limit \in Nat /\ MaxSeconds \in Nat /\ MaxEvents \in Nat

VARIABLES items,     \* users_ssi_data but for the revision; (gid, iid, type) is unique
          rev,       \* the date of the revision row, 0: there is none
          perms,     \* users_perms: contacts who authorized the user
          added,     \* users_perms: contacts who were told that they were added
          contacts,  \* Online_Contacts of the session, normal contacts
          sess,      \* the user's session
          copy,      \* what each computer has
          now,       \* time
          groups,    \* "v7 create groups" of this server
          st,        \* what each packet processor is doing
          dirty,     \* history: changes since the revision was dated
          twice,     \* history: the revision was dated twice in that second
          late,      \* history: items marked as waiting after the contact had agreed
          why,       \* history: why the copy of this session may be wrong
          miss,      \* history: why its contacts may be
          luck,      \* history: two changes at once, statements that failed
          nevent

data == <<items, rev, perms, added, contacts>>
here == <<sess, copy>>
past == <<dirty, twice, late, luck>>
vars == <<data, here, past, why, miss, now, groups, st, nevent>>

Item(k, nick, auth) == [key |-> k, nick |-> nick, auth |-> auth]
Groups   == {"master", "general"}
Has(k)   == \E i \in items : i.key = k
Buddies  == {i \in items : i.key \in Keys}
Watched  == {i.key : i \in {x \in Buddies : x.auth = 0}}
NoSess   == [on |-> FALSE, at |-> "nowhere", active |-> FALSE, loaded |-> FALSE, asked |-> FALSE,
             begun |-> FALSE, ready |-> FALSE, trans |-> FALSE, import |-> FALSE, synced |-> FALSE]
Idle     == [prog |-> <<>>, mine |-> FALSE, taint |-> {}, date |-> 0, count |-> 0,
             none |-> FALSE, done |-> FALSE, there |-> FALSE, gone |-> FALSE, got |-> {},
             passed |-> FALSE]

\* A new user, or one whose list is the same everywhere.
Init ==
  /\ items \in Lists /\ rev = IF items = {} THEN 0 ELSE 1
  /\ \E g \in MakeGroups, c \in Computers :
       /\ groups = g
       /\ sess = [NoSess EXCEPT !.on = TRUE, !.at = c, !.synced = TRUE, !.trans = TRUE,
                                !.active = TRUE, !.loaded = TRUE, !.begun = TRUE,
                               !.asked = TRUE, !.ready = TRUE]
  /\ contacts = Watched
  /\ added = {i.key : i \in items} /\ perms = Agreed 
  /\ copy = [c \in Computers |-> [date |-> rev, items |-> items, odd |-> {}]]
  /\ now = 1 /\ nevent = 0
  /\ st = [p \in PPs |-> Idle]
  /\ dirty = {} /\ twice = FALSE /\ late = {}
  /\ why = {} /\ miss = {} /\ luck = {}

----------------------------------------------------------------------------
(* The programs: <<step, argument>> in the order of the code. *)

GetModInfo  == <<<<"date", "">>, <<"count", "">>>>
SetModInfo(import) == GetModInfo \o <<<<"bump", "">>>>
                        \o (IF import THEN <<<<"imported", "">>>> ELSE <<>>)
CheckGroups == <<<<"master", "">>, <<"newgroup", "master">>,
                 <<"general", "">>, <<"newgroup", "general">>, <<"changed", "">>>>
DateAfter   ==      \* mutant
               <<<<"select", "">>>> \o GetModInfo \o <<<<"reply", "">>>>
SendData    == GetModInfo \o <<<<"select", "">>, <<"reply", "">>>>
Request     == (IF groups THEN CheckGroups ELSE <<>>) \o SendData
Checkout    == (IF groups THEN CheckGroups ELSE <<>>) \o GetModInfo \o <<<<"compare", "">>>>
Activate    == <<<<"load", "">>, <<"loaded", "">>>>
UpdateFirst ==      \* mutant
               <<<<"grant", "">>, <<"perms", "">>>>
AuthGrant   == <<<<"perms", "">>, <<"grant", "">>>>
AddOne(i)    == (IF i.auth = 0 /\ ~sess.import THEN <<<<"allowed", i>>>> ELSE <<>>)
                  \o <<<<"room", i>>, <<"insert", i>>>>
                  \o (IF i.auth = 0 THEN <<<<"asked", i>>, <<"note", i>>, <<"contact", i>>>> ELSE <<>>)
RemoveOne(i) == <<<<"delete", i>>, <<"uncontact", i>>>>
ChangeOne(op, i) == CASE op = "add" -> AddOne(i) [] op = "remove" -> RemoveOne(i)
                      [] OTHER -> <<<<"update", i>>>>
ChangeSSI(e) == FlattenSeq([n \in DOMAIN e.list |-> ChangeOne(e.op, e.list[n])]) \o <<<<"ack", e>>>>

----------------------------------------------------------------------------
(* Taking a request.  Two at once excuse a wrong copy. *)

IdlePP(p)  == st[p].prog = <<>>
AllIdle    == \A p \in PPs : IdlePP(p)
Others(p)  == {q \in PPs \ {p} : ~IdlePP(q)}
At(p, op)  == st[p].prog # <<>> /\ Head(st[p].prog)[1] = op
Arg(p)     == Head(st[p].prog)[2]
Job0(p)    == [st[p] EXCEPT !.prog = Tail(@)]
Go(p, job) == st' = [st EXCEPT ![p] = IF job.prog = <<>> THEN Idle ELSE job]
Next1(p)   == Go(p, Job0(p))
Event      == nevent < MaxEvents /\ nevent' = nevent + 1
Mixing(p)  == IF Others(p) = {} THEN {} ELSE {"overlap"}

Begin(p, prog, mine) ==
  /\ IdlePP(p)
  /\ st' = [q \in PPs |-> IF q = p THEN [Idle EXCEPT !.prog = prog, !.mine = mine,
                                                     !.taint = Mixing(p)]
                          ELSE IF IdlePP(q) THEN st[q] ELSE [st[q] EXCEPT !.taint = @ \cup Mixing(p)]]
  /\ why' = why \cup Mixing(p) /\ luck' = luck \cup Mixing(p)
  /\ UNCHANGED <<data, copy, miss, dirty, twice, late, now, groups>>
Start(p, prog, mine) == Event /\ Begin(p, prog, mine)
Own(p, prog) == sess.on /\ Start(p, prog, TRUE) /\ UNCHANGED sess
Free(p, prog) == sess.on /\ Begin(p, prog, TRUE) /\ UNCHANGED nevent

Touched(e) == {e.list[n].key : n \in DOMAIN e.list}
\* The client changes what is on its copy, one change of an item at a time.
Possible(e) == LET known == {i.key : i \in copy[sess.at].items} IN
  /\ sess.synced
  /\ \A n \in DOMAIN e.list : (e.op = "add") = (e.list[n].key \notin known)
  /\ \A q \in PPs : \A n \in DOMAIN st[q].prog :
       st[q].prog[n][1] \in {"ack", "refuse"} => Touched(e) \cap Touched(st[q].prog[n][2]) = {}

\* After its login a client asks once whether its copy is good and starts to work once; a
\* contact agrees once.
ProcessSSI(p) ==
  \/ Own(p, Request)
  \/ ~sess.asked /\ Free(p, Checkout) /\ sess' = [sess EXCEPT !.asked = TRUE]
  \/ /\ sess.synced /\ ~sess.begun
     /\ Free(p, Activate) /\ sess' = [sess EXCEPT !.begun = TRUE]
  \/ /\ sess.asked /\ ~sess.ready
     /\ Free(p, <<<<"active", "">>>>) /\ sess' = [sess EXCEPT !.ready = TRUE]
  \/ \E e \in Edits : Possible(e) /\ Own(p, ChangeSSI(e))
  \/ \E k \in Agreeing \ perms : Start(p, [n \in 1 .. 2 |-> <<AuthGrant[n][1], k>>], FALSE)
                                     /\ UNCHANGED sess

\* process_ssi_ch_begin
EditBegin == \E import \in BOOLEAN :
  /\ sess.on /\ ~sess.trans /\ Event
  /\ sess' = [sess EXCEPT !.trans = TRUE, !.import = @ \/ import]
  /\ UNCHANGED <<data, copy, past, why, miss, now, groups, st>>
\* process_ssi_ch_end; a client ends what it began, once.
EditEnd(p) ==
  /\ sess.on /\ sess.trans /\ UNCHANGED nevent
  /\ \A q \in PPs : \A n \in DOMAIN st[q].prog : st[q].prog[n][1] # "ended"
  /\ Begin(p, SetModInfo(sess.import) \o <<<<"ended", "">>>>, TRUE)
  /\ sess' = [sess EXCEPT !.import = FALSE]

Mine(p)  == ~IdlePP(p) /\ st[p].mine
Logoff ==
  /\ sess.on /\ \A p \in PPs : ~Mine(p)
  /\ sess' = NoSess /\ contacts' = {} /\ why' = {} /\ miss' = {}
  /\ st' = [p \in PPs |-> IF IdlePP(p) THEN Idle ELSE [st[p] EXCEPT !.gone = TRUE]]
  /\ UNCHANGED <<items, rev, perms, added, copy, past, now, groups, nevent>>
Login(c) ==
  /\ ~sess.on /\ Event
  /\ sess' = [NoSess EXCEPT !.on = TRUE, !.at = c]
  /\ why' = (IF AllIdle THEN {} ELSE {"overlap"})
  /\ UNCHANGED <<data, copy, miss, past, now, groups, st>>

----------------------------------------------------------------------------
(* The revision *)

Quiet == UNCHANGED <<now, groups, nevent>>
\* Only here is the clock read, and only here it needs to move.
Clock == now' \in now .. MaxSeconds
\* The row is there and the user's other items are counted.
Date(p) ==
  /\ At(p, "date")
  /\ Go(p, [Job0(p) EXCEPT !.date = rev, !.none = rev = 0])
  /\ UNCHANGED <<data, here, past, why, miss>> /\ Quiet
\* db_ssi_create_modinfo for items without a revision: the date stays 0
Count(p) ==
  /\ At(p, "count")
  /\ Go(p, [Job0(p) EXCEPT !.count = Cardinality(items), !.none = @ /\ items = {}])
  /\ IF st[p].none /\ items # {} /\ rev = 0 THEN Clock /\ rev' = now' ELSE UNCHANGED <<rev, now>>
  /\ UNCHANGED <<items, perms, added, contacts, here, past, why, miss, groups, nevent>>

\* UPDATE, or INSERT of a row that must be the first of its kind
Bump(p) ==
  /\ At(p, "bump")
  /\ IF st[p].none = (rev = 0)
       THEN Clock /\ rev' = now' /\ twice' = (rev = now') /\ dirty' = {}
       ELSE UNCHANGED <<rev, twice, dirty, now>>
  /\ Next1(p)
  /\ UNCHANGED <<items, perms, added, contacts, here, late, luck, why, miss, groups, nevent>>

\* update_import_item
Imported(p) ==
  /\ At(p, "imported") /\ Next1(p)
  /\ items' = items \cup {Item("import", "short", 0)}
  /\ why' = why \cup (IF Has("import") THEN {} ELSE {"import"})
  /\ UNCHANGED <<rev, perms, added, contacts, here, past, miss>> /\ Quiet
Ended(p) ==
  /\ At(p, "ended") /\ Next1(p)
  /\ sess' = [sess EXCEPT !.trans = FALSE]
  /\ UNCHANGED <<data, copy, past, why, miss>> /\ Quiet

----------------------------------------------------------------------------
(* The groups that some clients want: db_ssi_check_dgroup *)

GroupsNow == {i \in items : i.key \in Groups}
CountGroups(p) ==
  /\ At(p, "master") \/ At(p, "general")
  /\ LET enough == IF At(p, "master") THEN 1 ELSE 2 IN
       Go(p, IF Cardinality(GroupsNow) < enough THEN Job0(p)
             ELSE [Job0(p) EXCEPT !.prog = Tail(@)])
  /\ UNCHANGED <<data, here, past, why, miss>> /\ Quiet
\* A group that cannot be inserted ends the check, and nobody dates the list.
AfterCheck(p) == CHOOSE n \in DOMAIN st[p].prog : st[p].prog[n][1] = "changed"
GiveUpCheck(p) == [st[p] EXCEPT !.prog = SubSeq(@, AfterCheck(p) + 1, Len(@)), !.done = FALSE]
NewGroup(p) ==
  /\ At(p, "newgroup")
  /\ IF Has(Arg(p))
       THEN /\ Go(p, GiveUpCheck(p)) /\ UNCHANGED <<items, dirty>>
       ELSE /\ Go(p, [Job0(p) EXCEPT !.done = TRUE])
            /\ items' = items \cup {Item(Arg(p), "short", 0)}
            /\ dirty' = dirty \cup {"undated"}
  /\ UNCHANGED <<rev, perms, added, contacts, here, twice, late, luck, why, miss>> /\ Quiet
Changed(p) ==
  /\ At(p, "changed")
  /\ Go(p, [Job0(p) EXCEPT !.done = FALSE,
                           !.prog = IF st[p].done THEN SetModInfo(FALSE) \o @ ELSE @])
  /\ UNCHANGED <<data, here, past, why, miss>> /\ Quiet

----------------------------------------------------------------------------
(* The list is sent, or the copy said to be up to date. *)

SelectItems(p) ==
  /\ At(p, "select")
  /\ Go(p, [Job0(p) EXCEPT !.got = items])
  /\ UNCHANGED <<data, here, past, why, miss>> /\ Quiet
Reply(p) ==
  /\ At(p, "reply")
  /\ st' = [q \in PPs |-> IF q = p THEN Idle ELSE [st[q] EXCEPT !.passed = ~IdlePP(q)]]
  /\ copy' = [copy EXCEPT ![sess.at] = [date |-> st[p].date, items |-> st[p].got, odd |-> {}]]
  /\ sess' = [sess EXCEPT !.synced = TRUE]
  /\ why' = st[p].taint
  /\ UNCHANGED <<data, past, miss>> /\ Quiet

Reasons(mine) == dirty \cup (IF twice THEN {"second"} ELSE {})
                       \cup mine.odd
\* The client sent what its copy was when it asked.
Compare(p) ==
  /\ At(p, "compare")
  /\ LET mine == copy[sess.at] IN
       IF mine.date = st[p].date /\ Cardinality(mine.items) = st[p].count
         THEN /\ Next1(p)
              /\ sess' = [sess EXCEPT !.synced = TRUE]
              /\ why' = st[p].taint \cup (IF mine.items = items THEN {} ELSE Reasons(mine))
         ELSE /\ Go(p, [Job0(p) EXCEPT !.prog = SendData \o @])
              /\ UNCHANGED <<sess, why>>
  /\ UNCHANGED <<data, copy, past, miss>> /\ Quiet

----------------------------------------------------------------------------
(* Changes: change_ssi, item by item until one is refused *)

Edit(p)     == Last(st[p].prog)[2]
\* The error ends the loop; what was stored before it stays.
Refused(p)  == [Idle EXCEPT !.mine = TRUE, !.taint = st[p].taint, !.done = st[p].done,
                            !.prog = <<<<"refuse", Edit(p)>>>>]
Row(k)      == CHOOSE i \in items : i.key = k
Awaited(i)  == IF i.auth = 1 /\ i.key \in perms THEN {i.key} ELSE {}
Store(p, new, i) ==
  /\ items' = new /\ dirty' = dirty \cup {"undated"} /\ late' = late \cup Awaited(i)
  /\ UNCHANGED <<rev, perms, added, contacts, twice, luck>>

\* db_ssi_get_auth for a contact who wants to be asked
Allowed(p) ==
  /\ At(p, "allowed")
  /\ Go(p, IF Arg(p).key \in Secretive \ perms THEN Refused(p) ELSE Job0(p))
  /\ UNCHANGED <<data, here, past, why, miss>> /\ Quiet
\* Mutant: one more than the limit.
RoomForOneMore(p) ==
  /\ At(p, "room")
  /\ Go(p, IF Cardinality(Buddies) > Limit THEN Refused(p) ELSE Job0(p))
  /\ UNCHANGED <<data, here, past, why, miss>> /\ Quiet
Room(p) ==
  /\ At(p, "room")
  /\ Go(p, IF Cardinality(Buddies) + 1 > Limit THEN Refused(p) ELSE Job0(p))
  /\ UNCHANGED <<data, here, past, why, miss>> /\ Quiet

Unloaded == IF sess.loaded THEN {} ELSE {"unready"}
\* The session counts as loaded from now on, whatever was loaded.
\* A nickname that is too long is reported as False, which is 0, which is
\* success.
AddItem(p) ==
  /\ At(p, "insert")
  /\ LET i == Arg(p) IN
       IF i.nick = "long"
         THEN Next1(p) /\ miss' = miss \cup {"long"} \cup Unloaded /\ UNCHANGED <<data, past>>
       ELSE IF Has(i.key)
         THEN Go(p, Refused(p)) /\ miss' = miss \cup Unloaded /\ UNCHANGED <<data, past>>
       ELSE /\ Go(p, [Job0(p) EXCEPT !.done = TRUE])
            /\ Store(p, items \cup {i}, i)
            /\ miss' = miss \cup Unloaded
  /\ sess' = [sess EXCEPT !.loaded = TRUE]
  /\ UNCHANGED <<copy, why>> /\ Quiet

\* send_ssi_added
Asked(p) ==
  /\ At(p, "asked")
  /\ Go(p, IF sess.import \/ Arg(p).key \in added THEN [Job0(p) EXCEPT !.prog = Tail(@)] ELSE Job0(p))
  /\ UNCHANGED <<data, here, past, why, miss>> /\ Quiet
Note(p) ==
  /\ At(p, "note") /\ Next1(p)
  /\ added' = added \cup {Arg(p).key}
  /\ UNCHANGED <<items, rev, perms, contacts, here, past, why, miss>> /\ Quiet

ContactsOf(p, new, reasons) ==
  /\ contacts' = new /\ miss' = miss \cup reasons
  /\ UNCHANGED <<items, rev, perms, added, past, why>> /\ Quiet
\* Only in an active session
Contact(p) ==
  /\ At(p, "contact")
  /\ IF sess.active
       THEN ContactsOf(p, contacts \cup {Arg(p).key}, {})
       ELSE ContactsOf(p, contacts, {"unready"})
  /\ Next1(p) /\ UNCHANGED here

DeleteItem(p) ==
  /\ At(p, "delete")
  /\ IF Has(Arg(p).key)
       THEN /\ Store(p, {i \in items : i.key # Arg(p).key}, [Arg(p) EXCEPT !.auth = 0])
            /\ Go(p, [Job0(p) EXCEPT !.done = TRUE])
       ELSE Go(p, Refused(p)) /\ UNCHANGED <<data, past>>
  /\ UNCHANGED <<here, why, miss>> /\ Quiet
\* Mutant: the contact is still watched.
StillWatched(p) ==
  /\ At(p, "uncontact") /\ Next1(p)
  /\ UNCHANGED <<data, here, past, why, miss>> /\ Quiet
Uncontact(p) ==
  /\ At(p, "uncontact") /\ Next1(p)
  /\ IF sess.active THEN ContactsOf(p, contacts \ {Arg(p).key}, {})
                    ELSE ContactsOf(p, contacts, {"unready"})
  /\ UNCHANGED here

\* The authorization flag becomes what the packet says.
UpdateItem(p) ==
  /\ At(p, "update")
  /\ LET i == Arg(p) IN
       IF i.nick = "long"
         THEN Next1(p) /\ UNCHANGED <<data, past, miss>>
       ELSE IF Has(i.key)
         THEN /\ Store(p, (items \ {Row(i.key)}) \cup {i}, i)
              /\ Go(p, [Job0(p) EXCEPT !.done = TRUE])
              /\ miss' = miss \cup (IF Row(i.key).auth = i.auth THEN {} ELSE {"update"})
       ELSE Go(p, Refused(p)) /\ UNCHANGED <<data, past, miss>>
  /\ UNCHANGED <<here, why>> /\ Quiet

\* The client makes the change on its copy, all of it or nothing.
Apply(S, e) ==
  LET rest == {i \in S : i.key \notin Touched(e)} IN
     IF e.op = "remove" THEN rest ELSE rest \cup {e.list[n] : n \in DOMAIN e.list}
Odd(p) == (IF st[p].passed THEN {"overlap"} ELSE {})
            \cup (IF \E n \in DOMAIN Arg(p).list : Arg(p).list[n].nick = "long" THEN {"long"} ELSE {})
Ack(p) ==
  /\ At(p, "ack") /\ Next1(p)
  /\ copy' = [copy EXCEPT ![sess.at].items = Apply(@, Arg(p)), ![sess.at].odd = @ \cup Odd(p)]
  /\ why' = why \cup Odd(p)
  /\ UNCHANGED <<data, sess, past, miss>> /\ Quiet
Refuse(p) ==
  /\ At(p, "refuse") /\ Next1(p)
  /\ why' = why \cup (IF st[p].done THEN {"partial"} ELSE {})
  /\ UNCHANGED <<data, here, past, miss>> /\ Quiet

----------------------------------------------------------------------------
(* A contact agrees: grant_ssi_authorization *)

\* db_ssi_auth_add; then the owner's record is looked up
Perms(p) ==
  /\ At(p, "perms")
  /\ Go(p, [Job0(p) EXCEPT !.there = sess.on])
  /\ perms' = perms \cup {Arg(p)}
  /\ UNCHANGED <<items, rev, added, contacts, here, past, why, miss>> /\ Quiet
\* One who was not waiting is told nothing but by a message, which Messaging
\* has.  The revision keeps its date.
Grant(p) ==
  /\ At(p, "grant")
  /\ LET k == Arg(p)
         waiting == \E i \in items : i.key = k /\ i.auth = 1
     IN IF waiting
          THEN /\ items' = (items \ {Row(k)}) \cup {[Row(k) EXCEPT !.auth = 0]}
               /\ dirty' = dirty \cup {"granted"}
               /\ Go(p, [Job0(p) EXCEPT !.prog =
                           @ \o IF st[p].there THEN <<<<"tell", k>>, <<"agreed", k>>>>
                                               ELSE <<>>])
               /\ why' = why \cup (IF st[p].there THEN {} ELSE {"granted"})
               /\ miss' = miss \cup (IF st[p].there THEN {} ELSE {"granted"})
          ELSE Next1(p) /\ UNCHANGED <<items, dirty, why, miss>>
  /\ UNCHANGED <<rev, perms, added, contacts, here, twice, late, luck>> /\ Quiet
\* The record found may be another session's by now, or nobody's.
Reaches(p) == IF ~sess.on THEN {FALSE} ELSE IF st[p].gone THEN BOOLEAN ELSE {TRUE}
TellItem(p) ==
  /\ At(p, "tell") /\ Next1(p)
  /\ \E here1 \in Reaches(p) :
       IF here1 /\ Has(Arg(p))
         THEN copy' = [copy EXCEPT ![sess.at].odd = @ \cup st[p].taint,
                                ![sess.at].items =
                         {i \in @ : i.key # Arg(p)} \cup {[Row(Arg(p)) EXCEPT !.auth = 0]}]
         ELSE UNCHANGED copy
  /\ UNCHANGED <<data, sess, past, why, miss>> /\ Quiet
ContactAgreed(p) ==
  /\ At(p, "agreed") /\ Next1(p)
  /\ \E here1 \in Reaches(p) :
       ContactsOf(p, IF here1 THEN contacts \cup {Arg(p)} ELSE contacts,
                  IF st[p].gone THEN {"granted"} ELSE {})
  /\ UNCHANGED here
----------------------------------------------------------------------------
(* The session starts to work: process_ssi_activate and the client's ready *)

Load(p) ==
  /\ At(p, "load") /\ Next1(p)
  /\ contacts' = contacts \cup Watched
  /\ miss' = miss \ {"unready"}
  /\ UNCHANGED <<items, rev, perms, added, here, past, why>> /\ Quiet
Raise(p) ==
  /\ At(p, "loaded") \/ At(p, "active")
  /\ sess' = IF At(p, "loaded") THEN [sess EXCEPT !.loaded = TRUE] ELSE [sess EXCEPT !.active = TRUE]
  /\ Next1(p)
  /\ UNCHANGED <<data, copy, past, why, miss>> /\ Quiet
----------------------------------------------------------------------------
(* A statement fails, one of them.  What is read counts as nothing, what   *)
(* is written is not; only the handlers of the client's own changes look.  *)

Skip(p, n) == [st[p] EXCEPT !.prog = SubSeq(@, n + 1, Len(@))]
Failure(p) ==
  CASE At(p, "date")     -> [Skip(p, 2) EXCEPT !.date = 0, !.count = 0, !.none = TRUE]
    [] At(p, "count")    -> [Job0(p) EXCEPT !.count = 0, !.none = TRUE]
    [] At(p, "bump")     -> Skip(p, IF Len(st[p].prog) > 1 /\ st[p].prog[2][1] = "imported" THEN 2 ELSE 1)
    [] At(p, "newgroup") -> GiveUpCheck(p)
    [] At(p, "select")   -> Idle
    [] At(p, "allowed") \/ At(p, "insert") \/ At(p, "delete") \/ At(p, "update") -> Refused(p)
    [] At(p, "perms")    -> [Job0(p) EXCEPT !.there = sess.on]
    [] OTHER             -> Job0(p)
Statements == {"date", "count", "bump", "imported", "master", "general", "newgroup", "select",
               "allowed", "room", "insert", "asked", "contact", "delete", "uncontact", "update",
               "perms", "grant", "tell", "agreed", "load"}
Fail(p) ==
  /\ Event /\ "failed" \notin luck
  /\ \E op \in Statements : At(p, op)
  /\ LET job == Failure(p) IN
       Go(p, IF job.prog = <<>> THEN Idle ELSE [job EXCEPT !.taint = @ \cup {"failed"}])
  /\ sess' = IF At(p, "insert") THEN [sess EXCEPT !.loaded = TRUE] ELSE sess
  /\ why' = why \cup {"failed"} /\ miss' = miss \cup {"failed"} /\ luck' = luck \cup {"failed"}
  /\ UNCHANGED <<data, copy, dirty, twice, late, now, groups>>

Step(p) ==
  \/ Date(p) \/ Count(p) \/ Bump(p) \/ Imported(p) \/ Ended(p)
  \/ CountGroups(p) \/ NewGroup(p) \/ Changed(p)
  \/ SelectItems(p) \/ Reply(p) \/ Compare(p)
  \/ Allowed(p) \/ Room(p) \/ AddItem(p) \/ Asked(p) \/ Note(p) \/ Contact(p)
  \/ DeleteItem(p) \/ Uncontact(p) \/ UpdateItem(p) \/ Ack(p) \/ Refuse(p)
  \/ Perms(p) \/ Grant(p) \/ TellItem(p) \/ ContactAgreed(p)
  \/ Load(p) \/ Raise(p) \/ Fail(p)

Next == \/ \E p \in PPs : ProcessSSI(p) \/ EditEnd(p) \/ Step(p)
        \/ EditBegin \/ Logoff
        \/ \E c \in Computers : Login(c)
Spec == Init /\ [][Next]_vars

----------------------------------------------------------------------------
\* The tables hold what their types say; an item has one row, and a session
\* that is not there has no contacts.
TypeOK ==
  /\ \A i \in items : /\ i.key \in Keys \cup Groups \cup {"import"}
                      /\ i.auth \in {0, 1} /\ i.nick \in {"short", "other"}
  /\ \A i, j \in items : i.key = j.key => i = j
  /\ rev \in 0 .. now /\ perms \subseteq Secretive /\ added \subseteq Keys
  /\ contacts \subseteq Keys
  /\ \A p \in PPs : st[p].date \in 0 .. rev

\* When nothing is under way, the copy that the client was told is up to date,
\* or was sent, and changed as the server said, is the server's list, unless
\* for one of these reasons.
CopyWhys == {"overlap", "undated", "granted", "second", "import", "long", "partial", "failed"}
CopyIsServers ==
  AllIdle /\ sess.on /\ sess.synced /\ copy[sess.at].items # items => why \cap CopyWhys # {}

\* An authorization reaches the items that wait for it: one that was marked
\* as waiting before the contact agreed does not wait any more.
GrantIsKept ==
  AllIdle => \A i \in Buddies : i.auth = 1 /\ i.key \in perms => i.key \in late \/ "failed" \in luck

\* Types; and the list is not longer than its limit, but for changes made at once.
LimitHolds == TypeOK /\ (Cardinality(Buddies) > Limit => luck # {})

\* In a working session the contacts who are watched are those on the list
\* who do not want to be asked first.
ContactsAreLoaded ==
  AllIdle /\ sess.on /\ sess.active /\ sess.loaded
    /\ contacts # Watched =>
    miss \cap {"unready", "granted", "update", "long", "failed"} # {}
=============================================================================
