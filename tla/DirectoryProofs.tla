-------------------------- MODULE DirectoryProofs --------------------------
(***************************************************************************)
(* Rows and numbers, for any number of packet processors, users, places    *)
(* and requests: what a row holds comes from its owner, an address that    *)
(* was sent as hidden is not shown, what its owner was told is saved is    *)
(* there, and the number that a newcomer is told is his.                   *)
(*                                                                         *)
(* SessionsInv says that a session has a number that never comes back, so  *)
(* a handler whose place belongs to another session knows it for good;     *)
(* OwnersInv carries what was read from a row to the moment when it is     *)
(* written back.  JoinInv follows a newcomer who joins while nobody else   *)
(* does, from the number he computes to the row he is told of;             *)
(* NumbersInv keeps the row until he has deleted it himself, or somebody   *)
(* who named his number has, which marks him.  AddressInv says that a      *)
(* hidden email1 is never without the flag it was sent with, in a row or   *)
(* in what was read to be written back, if its handler keeps the flag.     *)
(* ShownInv says of each field what is stored while a request for it is    *)
(* under way: Stage, by the statements that are still to do.               *)
(***************************************************************************)
EXTENDS Directory, TLAPS, FiniteSetTheorems, FunctionTheorems, SequenceTheorems, WellFoundedInduction

----------------------------------------------------------------------------
(* The inductive invariant *)

Names  == (UNION {Range(h.writes) : h \in Handlers}) \cup (UNION Looks) \cup {Empty, Undefined, "notes"}
Values == [nr : Int, of : Names]
Rows   == {NoRow} \cup [who : Everyone, val : [look -> Values]]
Places == {Free} \cup [who : Everyone, nr : Int, uin : Uins, proto : {"v3", "v5", "v7"}]

SaveJobs  == [job : {"save"}, n : Nat, who : Everyone, uin : Uins, slot : Slots, nr : Int, h : Handlers,
              long : BOOLEAN, junk : UNION {Junk(h) : h \in Handlers}, again : BOOLEAN, ok : BOOLEAN,
              half : BOOLEAN, base : [look -> Values], todo : Seq({"read", "about", "write", "answer"})]
LeaveJobs == {t \in [job : {"leave"}, who : Everyone, uin : Uins, ok : BOOLEAN,
                    todo : {<<"delete", "goodbye">>, <<"goodbye">>}] : t.ok \/ t.todo = <<"goodbye">>}
WMax    == <<"max", "exists", "insert", "welcome">>
WExists == <<"exists", "insert", "welcome">>
WMax2   == <<"max2", "insert", "welcome">>
WCreate == <<"create", "insert", "welcome">>
WInsert == <<"insert", "welcome">>
WTodos  == {WMax, WExists, WMax2, WCreate, WInsert, <<"welcome">>}
\* those who are not told their number
NTodos  == {<<"exists", "insert">>, <<"max2", "insert">>, <<"create", "insert">>, <<"insert">>}
JoinJobs == [job : {"join"}, who : Newcomers, way : Ways, uin : Uins, todo : WTodos \cup NTodos]
Jobs == {Idle} \cup SaveJobs \cup LeaveJobs \cup JoinJobs

Marks == {"race", "failed", "crossed", "removed"}
TypeInv ==
  /\ look \in Looks
  /\ rows \in [Uins -> Rows]
  /\ pending \in [made : BOOLEAN, in : SUBSET [uin : Uins, who : Newcomers]]
  /\ slot \in [Slots -> Places]
  /\ st \in [PPs -> Jobs]
  /\ sent \in Seq([who : Everyone, hide : SUBSET Names, h : Handlers, nr : Int])
  /\ told \in [Everyone -> [look -> 0 .. Len(sent)]]
  /\ number \in [Everyone -> Uins]
  /\ odd \in [Uins -> SUBSET {"place", "reused"}]
  /\ hasty \in [Everyone -> SUBSET Marks]
  /\ nevent \in Nat

\* Where values come from: requests that were sent.
IsSent(v) == v.nr \in -1 .. Len(sent)
SavesInv ==
  /\ \A u \in Uins : Known(u) => \A c \in look : IsSent(rows[u].val[c])
  /\ \A q \in PPs : st[q].job = "save" =>
       /\ st[q].n \in 1 .. Len(sent) /\ sent[st[q].n].who = st[q].who
       /\ \A c \in look : IsSent(st[q].base[c])

\* A number of a session is never used again.
IsNr(x) == x = -1 \/ x \in 1 .. nevent
SessionsInv ==
  /\ \A s \in Slots : slot[s] # Free =>
       IsNr(slot[s].nr) /\ \A k \in Slots : slot[k].nr = slot[s].nr => k = s
  /\ \A i \in 1 .. Len(sent) :
       IsNr(sent[i].nr) /\ \A s \in Slots : slot[s].nr = sent[i].nr => slot[s].who = sent[i].who
  /\ \A q \in PPs : st[q].job = "save" =>
       /\ IsNr(st[q].nr)
       /\ \A s \in Slots : slot[s].nr = st[q].nr => s = st[q].slot /\ slot[s].uin = st[q].uin

\* What is not its owner's in a row, or in what was read to be written back to it.
Foreign(v, p) == v.nr > 0 /\ sent[v.nr].who # p
Moved(q) == st[q].h.proto = "v7" /\ ~Same(q)
OwnersInv ==
  /\ \A u \in Uins : Known(u) => \A c \in look : Foreign(rows[u].val[c], rows[u].who) => odd[u] # {}
  /\ \A q \in PPs : st[q].job = "save" => \A c \in look :
       Foreign(st[q].base[c], st[q].who) => odd[st[q].uin] # {} \/ Moved(q)

\* Those who join one at a time: a number above all others is theirs.
Placed(n, u) == (Known(u) /\ rows[u].who = n) \/ [uin |-> u, who |-> n] \in pending.in
Alone(q) ==
  /\ number[st[q].who] = 0 /\ ~Leaves(st[q].who)
  /\ \A x \in PPs : st[x].job = "join" => x = q
  /\ st[q].todo \in {WExists, WMax2, WCreate, WInsert} => \A u \in Uins : Known(u) => u < st[q].uin
  /\ st[q].todo \in {WCreate, WInsert} => \A e \in pending.in : e.uin < st[q].uin
  /\ (st[q].todo = WMax2 \/ (st[q].todo = WInsert /\ st[q].way.byhand)) => pending.made
  /\ st[q].todo = <<"welcome">> =>
       /\ Placed(st[q].who, st[q].uin)
       /\ Known(st[q].uin) => rows[st[q].uin].who = st[q].who
       /\ \A e \in pending.in : e.uin = st[q].uin => e.who = st[q].who
JoinInv ==
  /\ ~pending.made => pending.in = {}
  /\ \A q \in PPs : st[q].job = "join" /\ hasty[st[q].who] = {} => Alone(q)

\* A number that was told is there until its owner, unless he is marked, has deleted it.
Deleted(n) == \E q \in PPs : /\ st[q].job = "leave" /\ st[q].who = n /\ st[q].uin = number[n]
                           /\ st[q].ok /\ st[q].todo = <<"goodbye">>
Told(n)    == number[n] # 0 /\ hasty[n] = {}
NumbersInv ==
  /\ \A n \in Everyone : Told(n) => Placed(n, number[n]) \/ Deleted(n)
  /\ \A n, m \in Everyone : n # m /\ Told(n) /\ Told(m) /\ number[n] = number[m] => Deleted(n) \/ Deleted(m)

IInv == TypeInv /\ SavesInv /\ SessionsInv /\ OwnersInv /\ JoinInv /\ NumbersInv

----------------------------------------------------------------------------
(* Jobs *)

LEMMA JobIs ==
  ASSUME NEW t \in Jobs
  PROVE  /\ t.job \in {"idle", "save", "leave", "join"}
         /\ t.job = "save" => t \in SaveJobs
         /\ t.job = "leave" => t \in LeaveJobs
         /\ t.job = "join" => t \in JoinJobs
         /\ t.job = "idle" => t = Idle
<1>1. CASE t = Idle
  BY <1>1 DEF Idle
<1>2. CASE t \in SaveJobs
  BY <1>2 DEF SaveJobs
<1>3. CASE t \in LeaveJobs
  BY <1>3 DEF LeaveJobs
<1>4. CASE t \in JoinJobs
  BY <1>4 DEF JoinJobs
<1> QED BY <1>1, <1>2, <1>3, <1>4 DEF Jobs

\* The first step of what there is to do, and the rest.
LEMMA TodosAre ==
  /\ Head(<<"delete", "goodbye">>) = "delete" /\ Tail(<<"delete", "goodbye">>) = <<"goodbye">>
  /\ Head(<<"goodbye">>) = "goodbye"
  /\ Head(WMax) = "max" /\ Tail(WMax) = WExists
  /\ Head(WExists) = "exists" /\ Tail(WExists) = WInsert
  /\ Head(WMax2) = "max2" /\ Tail(WMax2) = WInsert
  /\ Head(WCreate) = "create" /\ Tail(WCreate) = WInsert
  /\ Head(WInsert) = "insert" /\ Tail(WInsert) = <<"welcome">>
  /\ Head(<<"welcome">>) = "welcome"
  /\ Head(<<"exists", "insert">>) = "exists" /\ Tail(<<"exists", "insert">>) = <<"insert">>
  /\ Head(<<"max2", "insert">>) = "max2" /\ Tail(<<"max2", "insert">>) = <<"insert">>
  /\ Head(<<"create", "insert">>) = "create" /\ Tail(<<"create", "insert">>) = <<"insert">>
  /\ Head(<<"insert">>) = "insert"
BY DEF WMax, WExists, WMax2, WCreate, WInsert

LEMMA LengthsAre ==
  /\ Len(<<"delete", "goodbye">>) = 2 /\ Len(<<"goodbye">>) = 1
  /\ Len(WMax) = 4 /\ Len(WExists) = 3 /\ Len(WMax2) = 3 /\ Len(WCreate) = 3 /\ Len(WInsert) = 2
  /\ Len(<<"welcome">>) = 1 /\ Len(<<"exists", "insert">>) = 2 /\ Len(<<"max2", "insert">>) = 2
  /\ Len(<<"create", "insert">>) = 2 /\ Len(<<"insert">>) = 1
BY DEF WMax, WExists, WMax2, WCreate, WInsert

JoinSteps == {"max", "exists", "max2", "create", "insert", "welcome"}
SaveSteps == {"read", "about", "write", "answer"}

LEMMA ConsIs ==
  ASSUME NEW S, NEW a \in S, NEW s \in Seq(S), NEW x \in Seq(S),
         Len(x) = Len(s) + 1, x[1] = a, \A i \in 1 .. Len(s) : x[i + 1] = s[i]
  PROVE  <<a>> \o s = x
<1> DEFINE y == <<a>> \o s
<1>1. y \in Seq(S) /\ Len(y) = Len(x)
  OBVIOUS
<1>2. ASSUME NEW i \in 1 .. Len(x) PROVE y[i] = x[i]
  <2>1. CASE i = 1
    BY <2>1
  <2>2. CASE i # 1
    <3>1. i - 1 \in 1 .. Len(s) /\ i = (i - 1) + 1
      BY <2>2
    <3>2. y[i] = s[i - 1]
      BY <3>1
    <3> QED BY <3>1, <3>2
  <2> QED BY <2>1, <2>2
<1> HIDE DEF y
<1>3. y = x
  BY <1>1, <1>2, SeqEqual
<1> QED BY <1>3 DEF y

LEMMA Max2Insert == <<"max2">> \o WInsert = WMax2
<1> DEFINE s == WInsert x == WMax2
<1>1. s \in Seq(JoinSteps) /\ x \in Seq(JoinSteps) /\ "max2" \in JoinSteps
  BY DEF JoinSteps, WInsert, WMax2, WCreate
<1>2. Len(x) = Len(s) + 1 /\ x[1] = "max2" /\ \A i \in 1 .. Len(s) : x[i + 1] = s[i]
  BY DEF WInsert, WMax2, WCreate
<1> HIDE DEF s, x
<1>3. <<"max2">> \o s = x
  BY <1>1, <1>2, ConsIs
<1> QED BY <1>3 DEF s, x

LEMMA CreateInsert == <<"create">> \o WInsert = WCreate
<1> DEFINE s == WInsert x == WCreate
<1>1. s \in Seq(JoinSteps) /\ x \in Seq(JoinSteps) /\ "create" \in JoinSteps
  BY DEF JoinSteps, WInsert, WMax2, WCreate
<1>2. Len(x) = Len(s) + 1 /\ x[1] = "create" /\ \A i \in 1 .. Len(s) : x[i + 1] = s[i]
  BY DEF WInsert, WMax2, WCreate
<1> HIDE DEF s, x
<1>3. <<"create">> \o s = x
  BY <1>1, <1>2, ConsIs
<1> QED BY <1>3 DEF s, x

LEMMA Max2ByHand == <<"max2">> \o <<"insert">> = <<"max2", "insert">>
<1> DEFINE s == <<"insert">> x == <<"max2", "insert">>
<1>1. s \in Seq(JoinSteps) /\ x \in Seq(JoinSteps) /\ "max2" \in JoinSteps
  BY DEF JoinSteps, WInsert, WMax2, WCreate
<1>2. Len(x) = Len(s) + 1 /\ x[1] = "max2" /\ \A i \in 1 .. Len(s) : x[i + 1] = s[i]
  BY DEF WInsert, WMax2, WCreate
<1> HIDE DEF s, x
<1>3. <<"max2">> \o s = x
  BY <1>1, <1>2, ConsIs
<1> QED BY <1>3 DEF s, x

LEMMA CreateByHand == <<"create">> \o <<"insert">> = <<"create", "insert">>
<1> DEFINE s == <<"insert">> x == <<"create", "insert">>
<1>1. s \in Seq(JoinSteps) /\ x \in Seq(JoinSteps) /\ "create" \in JoinSteps
  BY DEF JoinSteps, WInsert, WMax2, WCreate
<1>2. Len(x) = Len(s) + 1 /\ x[1] = "create" /\ \A i \in 1 .. Len(s) : x[i + 1] = s[i]
  BY DEF WInsert, WMax2, WCreate
<1> HIDE DEF s, x
<1>3. <<"create">> \o s = x
  BY <1>1, <1>2, ConsIs
<1> QED BY <1>3 DEF s, x

LEMMA NothingAdded ==
  <<>> \o WInsert = WInsert /\ <<>> \o <<"insert">> = <<"insert">> /\ <<>> \o WExists = WExists
<1>1. WInsert \in Seq(JoinSteps) /\ <<"insert">> \in Seq(JoinSteps) /\ WExists \in Seq(JoinSteps)
  BY DEF WInsert, WExists, JoinSteps
<1> QED BY <1>1, ConcatEmptySeq

LEMMA TodosGrow ==
  /\ <<"max2">> \o WInsert = WMax2 /\ <<"create">> \o WInsert = WCreate /\ <<>> \o WInsert = WInsert
  /\ <<"max2">> \o <<"insert">> = <<"max2", "insert">> /\ <<"create">> \o <<"insert">> = <<"create", "insert">>
  /\ <<>> \o <<"insert">> = <<"insert">> /\ <<>> \o WExists = WExists
BY Max2Insert, CreateInsert, Max2ByHand, CreateByHand, NothingAdded

LEMMA DoingIs ==
  ASSUME TypeInv, NEW q \in PPs, NEW step, Doing(q, step)
  PROVE  /\ st[q] \in Jobs /\ st[q].todo # <<>>
         /\ step \in SaveSteps => st[q] \in SaveJobs
         /\ step \in {"delete", "goodbye"} => st[q] \in LeaveJobs
         /\ step \in JoinSteps => st[q] \in JoinJobs
<1>1. st[q] \in Jobs /\ st[q].todo # <<>> /\ Head(st[q].todo) = step
  BY DEF TypeInv, Doing
<1>2. CASE st[q] = Idle
  BY <1>1, <1>2 DEF Idle
<1>3. CASE st[q] \in SaveJobs
  <2>1. st[q].todo \in Seq(SaveSteps)
    BY <1>3 DEF SaveJobs, SaveSteps
  <2>2. Head(st[q].todo) \in SaveSteps
    BY <1>1, <2>1
  <2> QED BY <1>1, <1>3, <2>2 DEF SaveSteps, JoinSteps
<1>4. CASE st[q] \in LeaveJobs
  <2>1. Head(st[q].todo) \in {"delete", "goodbye"}
    BY <1>4, TodosAre DEF LeaveJobs
  <2> QED BY <1>1, <1>4, <2>1 DEF SaveSteps, JoinSteps
<1>5. CASE st[q] \in JoinJobs
  <2>1. st[q].todo \in WTodos \cup NTodos
    BY <1>5 DEF JoinJobs
  <2>2. Head(st[q].todo) \in JoinSteps
    BY <2>1, TodosAre DEF WTodos, NTodos, JoinSteps
  <2> QED BY <1>1, <1>5, <2>2 DEF SaveSteps, JoinSteps
<1> QED BY <1>1, <1>2, <1>3, <1>4, <1>5 DEF Jobs

\* What a handler is about stays while it works.
KeepsJob(t, x) ==
  /\ x \in Jobs
  /\ x.job = "save" => /\ t.job = "save" /\ x.n = t.n /\ x.who = t.who /\ x.uin = t.uin
                       /\ x.slot = t.slot /\ x.nr = t.nr /\ x.h = t.h /\ x.junk = t.junk
  /\ x.job = "leave" => t.job = "leave" /\ x.who = t.who /\ x.uin = t.uin
  /\ x.job = "join" => t.job = "join" /\ x.who = t.who /\ x.way = t.way
KeepsBase(t, x) == x.job = "save" => x.base = t.base
Others(q) == \A x \in PPs : x # q => st'[x] = st[x]

LEMMA MovedIs ==
  ASSUME TypeInv, NEW q \in PPs, NEW x \in Jobs, st' = [st EXCEPT ![q] = x]
  PROVE  st'[q] = x /\ Others(q) /\ st' \in [PPs -> Jobs]
BY DEF TypeInv, Others

LEMMA IdleIs == Idle \in Jobs /\ Idle.job = "idle" /\ Idle.todo = <<>>
BY DEF Idle, Jobs

LEMMA SaveGoesOn ==
  ASSUME NEW t \in SaveJobs, t.todo # <<>>
  PROVE  /\ Then(t) \in Jobs /\ KeepsJob(t, Then(t)) /\ KeepsBase(t, Then(t))
         /\ Then(t) = Idle \/ Then(t) \in SaveJobs
<1>1. CASE Len(t.todo) = 1
  BY <1>1, IdleIs DEF Then, KeepsJob, KeepsBase
<1>2. CASE Len(t.todo) # 1
  <2>1. Tail(t.todo) \in Seq({"read", "about", "write", "answer"})
    BY DEF SaveJobs
  <2>2. Then(t) = [t EXCEPT !.todo = Tail(t.todo)]
    BY <1>2 DEF Then
  <2> DEFINE x == [t EXCEPT !.todo = Tail(t.todo)]
  <2>3. x \in SaveJobs
    BY <2>1 DEF SaveJobs
  <2>4. /\ x.job = "save" /\ t.job = "save" /\ x.n = t.n /\ x.who = t.who /\ x.uin = t.uin
        /\ x.slot = t.slot /\ x.nr = t.nr /\ x.h = t.h /\ x.junk = t.junk /\ x.base = t.base
    BY DEF SaveJobs
  <2> HIDE DEF x
  <2> QED BY <2>2, <2>3, <2>4 DEF x, Jobs, KeepsJob, KeepsBase
<1> QED BY <1>1, <1>2

LEMMA LeaveGoesOn ==
  ASSUME NEW t \in LeaveJobs
  PROVE  /\ Then(t) \in Jobs /\ KeepsJob(t, Then(t)) /\ KeepsBase(t, Then(t))
         /\ Then(t) = Idle \/ (Then(t) \in LeaveJobs /\ Then(t).ok = t.ok /\ Then(t).todo = <<"goodbye">>)
         /\ t.todo = <<"goodbye">> => Then(t) = Idle
<1>1. CASE t.todo = <<"goodbye">>
  BY <1>1, IdleIs, LengthsAre DEF Then, KeepsJob, KeepsBase
<1>2. CASE t.todo = <<"delete", "goodbye">>
  <2> DEFINE x == [t EXCEPT !.todo = <<"goodbye">>]
  <2>1. Then(t) = x
    BY <1>2, LengthsAre, TodosAre DEF Then
  <2>2. x \in LeaveJobs /\ x.job = "leave" /\ t.job = "leave" /\ x.who = t.who /\ x.uin = t.uin /\ x.ok = t.ok
        /\ x.todo = <<"goodbye">>
    BY DEF LeaveJobs
  <2>3. t.todo # <<"goodbye">>
    BY <1>2, LengthsAre
  <2> HIDE DEF x
  <2> QED BY <2>1, <2>2, <2>3 DEF Jobs, KeepsJob, KeepsBase
<1> QED BY <1>1, <1>2 DEF LeaveJobs

LEMMA JoinTodos ==
  ASSUME NEW t \in JoinJobs
  PROVE  /\ t.job = "join" /\ t.who \in Newcomers /\ t.way \in Ways /\ t.uin \in Uins
         /\ t.todo \in WTodos \cup NTodos
         /\ t.todo \in {<<"insert">>, <<"welcome">>} \/ Tail(t.todo) \in WTodos \cup NTodos
         /\ t.todo \in {<<"insert">>, <<"welcome">>} => Len(t.todo) = 1
         /\ t.todo \notin {<<"insert">>, <<"welcome">>} => Len(t.todo) # 1
<1>1. /\ t.job = "join" /\ t.who \in Newcomers /\ t.way \in Ways /\ t.uin \in Uins
      /\ t.todo \in WTodos \cup NTodos
  BY DEF JoinJobs
<1>2. t.todo \in {<<"insert">>, <<"welcome">>} \/ Tail(t.todo) \in WTodos \cup NTodos
  BY <1>1, TodosAre DEF WTodos, NTodos
<1>3. t.todo \in {<<"insert">>, <<"welcome">>} => Len(t.todo) = 1
  BY LengthsAre
<1>4. t.todo \notin {<<"insert">>, <<"welcome">>} => Len(t.todo) # 1
  <2>1. \A d \in WTodos : d # <<"welcome">> => Len(d) # 1
    BY LengthsAre DEF WTodos
  <2>2. \A d \in NTodos : d # <<"insert">> => Len(d) # 1
    BY LengthsAre DEF NTodos
  <2> QED BY <1>1, <2>1, <2>2
<1> QED BY <1>1, <1>2, <1>3, <1>4

LEMMA JoinGoesOn ==
  ASSUME NEW t \in JoinJobs
  PROVE  /\ Then(t) \in Jobs /\ KeepsJob(t, Then(t)) /\ KeepsBase(t, Then(t))
         /\ t.todo \in {<<"insert">>, <<"welcome">>} => Then(t) = Idle
         /\ t.todo \notin {<<"insert">>, <<"welcome">>} =>
              /\ Then(t) \in JoinJobs /\ Then(t).who = t.who /\ Then(t).way = t.way
              /\ Then(t).uin = t.uin /\ Then(t).todo = Tail(t.todo)
<1>1. CASE t.todo \in {<<"insert">>, <<"welcome">>}
  BY <1>1, IdleIs, JoinTodos DEF Then, KeepsJob, KeepsBase
<1>2. CASE t.todo \notin {<<"insert">>, <<"welcome">>}
  <2> DEFINE x == [t EXCEPT !.todo = Tail(t.todo)]
  <2>0. Tail(t.todo) \in WTodos \cup NTodos /\ Len(t.todo) # 1
    BY <1>2, JoinTodos
  <2>1. Then(t) = x
    BY <2>0 DEF Then
  <2>2. x \in JoinJobs /\ x.job = "join" /\ t.job = "join" /\ x.who = t.who /\ x.uin = t.uin /\ x.way = t.way
        /\ x.todo = Tail(t.todo)
    BY <2>0 DEF JoinJobs
  <2> HIDE DEF x
  <2> QED BY <1>2, <2>1, <2>2 DEF Jobs, KeepsJob, KeepsBase
<1> QED BY <1>1, <1>2

LEMMA GotIs ==
  ASSUME TypeInv, NEW q \in PPs, st[q] \in JoinJobs, NEW u \in Uins, NEW next,
         next \o Tail(st[q].todo) \in WTodos \cup NTodos, Got(q, u, next)
  PROVE  /\ st' \in [PPs -> Jobs] /\ Others(q) /\ KeepsJob(st[q], st'[q]) /\ KeepsBase(st[q], st'[q])
         /\ st'[q] \in JoinJobs /\ st'[q].who = st[q].who /\ st'[q].way = st[q].way
         /\ st'[q].uin = u /\ st'[q].todo = next \o Tail(st[q].todo)
<1> DEFINE d == next \o Tail(st[q].todo)
           x == [st[q] EXCEPT !.uin = u, !.todo = d]
<1>1. st' = [st EXCEPT ![q] = x]
  BY DEF Got, TypeInv
<1>2. d \in WTodos \cup NTodos
  OBVIOUS
<1> HIDE DEF d
<1>3. /\ x \in JoinJobs /\ x.who = st[q].who /\ x.way = st[q].way /\ x.uin = u /\ x.todo = d
      /\ x.job = "join" /\ st[q].job = "join"
  BY <1>2 DEF JoinJobs
<1> HIDE DEF x
<1>4. x \in Jobs /\ KeepsJob(st[q], x) /\ KeepsBase(st[q], x)
  BY <1>3 DEF Jobs, KeepsJob, KeepsBase
<1>5. st'[q] = x /\ Others(q) /\ st' \in [PPs -> Jobs]
  BY <1>1, <1>4, MovedIs
<1> QED BY <1>3, <1>4, <1>5 DEF d

LEMMA GoOnIs ==
  ASSUME TypeInv, NEW q \in PPs, st[q].todo # <<>>, GoOn(q)
  PROVE  /\ st' \in [PPs -> Jobs] /\ Others(q) /\ st'[q] = Then(st[q])
         /\ KeepsJob(st[q], st'[q]) /\ KeepsBase(st[q], st'[q])
<1>1. st[q] \in Jobs /\ st[q] # Idle
  BY IdleIs DEF TypeInv
<1>2. Then(st[q]) \in Jobs /\ KeepsJob(st[q], Then(st[q])) /\ KeepsBase(st[q], Then(st[q]))
  BY <1>1, SaveGoesOn, LeaveGoesOn, JoinGoesOn DEF Jobs
<1>3. st' = [st EXCEPT ![q] = Then(st[q])]
  BY DEF GoOn
<1> QED BY <1>2, <1>3, MovedIs

LEMMA GiveUpIs ==
  ASSUME TypeInv, NEW q \in PPs, st[q] \in SaveJobs, GiveUp(q)
  PROVE  st' \in [PPs -> Jobs] /\ Others(q) /\ KeepsJob(st[q], st'[q]) /\ KeepsBase(st[q], st'[q])
<1> DEFINE x == [st[q] EXCEPT !.ok = FALSE, !.todo = <<"answer">>]
<1>1. x \in SaveJobs
  <2>1. <<"answer">> \in Seq({"read", "about", "write", "answer"})
    OBVIOUS
  <2> QED BY <2>1 DEF SaveJobs
<1>2. /\ x.job = "save" /\ st[q].job = "save" /\ x.n = st[q].n /\ x.who = st[q].who /\ x.uin = st[q].uin
      /\ x.slot = st[q].slot /\ x.nr = st[q].nr /\ x.h = st[q].h /\ x.junk = st[q].junk /\ x.base = st[q].base
  BY DEF SaveJobs
<1>3. st' = [st EXCEPT ![q] = x] \/ st' = [st EXCEPT ![q] = Idle]
  BY DEF GiveUp, TypeInv
<1> HIDE DEF x
<1>4. CASE st' = [st EXCEPT ![q] = x]
  <2>1. x \in Jobs /\ KeepsJob(st[q], x) /\ KeepsBase(st[q], x)
    BY <1>1, <1>2 DEF Jobs, KeepsJob, KeepsBase
  <2> QED BY <1>4, <2>1, MovedIs
<1>5. CASE st' = [st EXCEPT ![q] = Idle]
  <2>1. KeepsJob(st[q], Idle) /\ KeepsBase(st[q], Idle)
    BY IdleIs DEF KeepsJob, KeepsBase
  <2> QED BY <1>5, <2>1, IdleIs, MovedIs
<1> QED BY <1>3, <1>4, <1>5

LEMMA SaveAboutIs ==
  ASSUME TypeInv, NEW q \in PPs, Doing(q, "about"), st' = [st EXCEPT ![q] = [Then(@) EXCEPT !.half = TRUE]]
  PROVE  st' \in [PPs -> Jobs] /\ Others(q) /\ KeepsJob(st[q], st'[q]) /\ KeepsBase(st[q], st'[q])
<1> DEFINE t == Then(st[q])  x == [t EXCEPT !.half = TRUE]
<1>1. st[q] \in SaveJobs /\ st[q].todo # <<>>
  BY DoingIs DEF SaveSteps
<1>2. t \in Jobs /\ KeepsJob(st[q], t) /\ KeepsBase(st[q], t) /\ (t = Idle \/ t \in SaveJobs)
  BY <1>1, SaveGoesOn
<1>3. st' = [st EXCEPT ![q] = x]
  OBVIOUS
<1>4. CASE t = Idle
  <2>1. x = Idle
    BY <1>4 DEF Idle
  <2> QED BY <1>2, <1>3, <1>4, <2>1, MovedIs
<1>5. CASE t \in SaveJobs
  <2> HIDE DEF t
  <2>1. x \in SaveJobs
    BY <1>5 DEF SaveJobs
  <2>2. /\ x.job = "save" /\ t.job = "save" /\ x.n = t.n /\ x.who = t.who /\ x.uin = t.uin
        /\ x.slot = t.slot /\ x.nr = t.nr /\ x.h = t.h /\ x.junk = t.junk /\ x.base = t.base
    BY <1>5 DEF SaveJobs
  <2> HIDE DEF x
  <2>3. x \in Jobs /\ KeepsJob(st[q], x) /\ KeepsBase(st[q], x)
    BY <1>2, <2>1, <2>2 DEF Jobs, KeepsJob, KeepsBase
  <2> QED BY <1>3, <2>3, MovedIs
<1> QED BY <1>2, <1>4, <1>5

LEMMA ReadIs ==
  ASSUME TypeInv, NEW q \in PPs, Doing(q, "read"), NEW base \in [look -> Values],
         st' = [st EXCEPT ![q] = [Then(@) EXCEPT !.base = base]]
  PROVE  /\ st' \in [PPs -> Jobs] /\ Others(q) /\ KeepsJob(st[q], st'[q])
         /\ st'[q].job = "save" => st'[q].base = base
<1> DEFINE t == Then(st[q])  x == [t EXCEPT !.base = base]
<1>1. st[q] \in SaveJobs /\ st[q].todo # <<>>
  BY DoingIs DEF SaveSteps
<1>2. t \in Jobs /\ KeepsJob(st[q], t) /\ (t = Idle \/ t \in SaveJobs)
  BY <1>1, SaveGoesOn
<1>3. st' = [st EXCEPT ![q] = x]
  OBVIOUS
<1>4. CASE t = Idle
  <2>1. x = Idle
    BY <1>4 DEF Idle
  <2> QED BY <1>2, <1>3, <1>4, <2>1, MovedIs, IdleIs
<1>5. CASE t \in SaveJobs
  <2> HIDE DEF t
  <2>1. x \in SaveJobs
    BY <1>5 DEF SaveJobs
  <2>2. /\ x.job = "save" /\ t.job = "save" /\ x.n = t.n /\ x.who = t.who /\ x.uin = t.uin
        /\ x.slot = t.slot /\ x.nr = t.nr /\ x.h = t.h /\ x.junk = t.junk /\ x.base = base
    BY <1>5 DEF SaveJobs
  <2> HIDE DEF x
  <2>3. x \in Jobs /\ KeepsJob(st[q], x)
    BY <1>2, <2>1, <2>2 DEF Jobs, KeepsJob
  <2> QED BY <1>3, <2>2, <2>3, MovedIs
<1> QED BY <1>2, <1>4, <1>5

LEMMA DeleteFailsIs ==
  ASSUME TypeInv, NEW q \in PPs, Doing(q, "delete"), st' = [st EXCEPT ![q] = [Then(@) EXCEPT !.ok = FALSE]]
  PROVE  /\ st' \in [PPs -> Jobs] /\ Others(q) /\ KeepsJob(st[q], st'[q]) /\ KeepsBase(st[q], st'[q])
         /\ st'[q].job = "leave" /\ ~st'[q].ok
<1> DEFINE t == Then(st[q])  x == [t EXCEPT !.ok = FALSE]
<1>1. st[q] \in LeaveJobs /\ st[q].todo # <<>> /\ st[q].todo = <<"delete", "goodbye">>
  BY DoingIs, TodosAre DEF LeaveJobs, Doing
<1>2. t \in Jobs /\ KeepsJob(st[q], t) /\ t \in LeaveJobs
  <2>1. t # Idle
    <3>1. t = [st[q] EXCEPT !.todo = <<"goodbye">>] /\ st[q].job = "leave"
      BY <1>1, TodosAre, LengthsAre DEF Then, LeaveJobs
    <3>2. t.job = "leave"
      BY <3>1, <1>1 DEF LeaveJobs
    <3> HIDE DEF t
    <3> QED BY <3>2, IdleIs
  <2> QED BY <1>1, <2>1, LeaveGoesOn
<1>3. st' = [st EXCEPT ![q] = x]
  OBVIOUS
<1> HIDE DEF t
<1>4. x \in LeaveJobs /\ x.job = "leave" /\ t.job = "leave" /\ x.who = t.who /\ x.uin = t.uin /\ x.ok = FALSE
  <2>1. t.todo = <<"goodbye">>
    BY <1>1, <1>2, LeaveGoesOn, IdleIs DEF LeaveJobs, t
  <2> QED BY <1>2, <2>1 DEF LeaveJobs
<1> HIDE DEF x
<1>5. x \in Jobs /\ KeepsJob(st[q], x) /\ KeepsBase(st[q], x)
  BY <1>2, <1>4 DEF Jobs, KeepsJob, KeepsBase
<1> QED BY <1>3, <1>4, <1>5, MovedIs

LEMMA StepsAre ==
  ASSUME NEW h, NEW refused, NEW about
  PROVE  Steps(h, refused, about) \in Seq({"read", "about", "write", "answer"})
<1> DEFINE S == {"read", "about", "write", "answer"}
           notes == IF h.about /\ about THEN <<"about">> ELSE <<>>
           read  == IF h.reads THEN <<"read">> ELSE <<>>
<1>1. /\ notes \in Seq(S) /\ read \in Seq(S) /\ <<"answer", "write">> \in Seq(S)
      /\ <<"answer">> \in Seq(S) /\ <<"write", "answer">> \in Seq(S)
  <2>1. <<"about">> \in Seq(S) /\ <<"read">> \in Seq(S) /\ <<>> \in Seq(S)
    OBVIOUS
  <2>2. <<"answer", "write">> \in Seq(S) /\ <<"answer">> \in Seq(S) /\ <<"write", "answer">> \in Seq(S)
    OBVIOUS
  <2> QED BY <2>1, <2>2
<1>2. \/ Steps(h, refused, about) = <<"answer", "write">>
      \/ Steps(h, refused, about) = notes \o <<"answer">>
      \/ Steps(h, refused, about) = read \o notes \o <<"write", "answer">>
  BY DEF Steps
<1> HIDE DEF S, notes, read
<1>3. \A x, y \in Seq(S) : x \o y \in Seq(S)
  OBVIOUS
<1>4. notes \o <<"answer">> \in Seq(S) /\ read \o notes \o <<"write", "answer">> \in Seq(S)
  BY <1>1, <1>3
<1> QED BY <1>1, <1>2, <1>4 DEF S

LEMMA PlaceIs ==
  ASSUME TypeInv, NEW s \in Slots
  PROVE  /\ slot[s].nr \in Int
         /\ slot[s] # Free => slot[s].who \in Everyone /\ slot[s].uin \in Uins
         /\ slot[s] = Free => slot[s].nr = 0
<1>1. slot[s] \in Places
  BY DEF TypeInv
<1> QED BY <1>1 DEF Places, Free

\* A request that a handler starts to work on.
Starts(q, n, p, s, h) ==
  /\ st' \in [PPs -> Jobs] /\ Others(q)
  /\ st'[q].job = "save" /\ st'[q].n = n /\ st'[q].who = p /\ st'[q].uin = slot[s].uin /\ st'[q].slot = s
  /\ st'[q].nr = slot[s].nr /\ st'[q].h = h /\ \A c \in look : st'[q].base[c] = NoValue(Empty)

LEMMA BeginIs ==
  ASSUME TypeInv, NEW q \in PPs, NEW n \in Nat, NEW p \in Everyone, NEW s \in Slots, slot[s] # Free,
         NEW h \in Handlers, NEW long \in BOOLEAN, NEW junk \in UNION {Junk(k) : k \in Handlers},
         NEW again \in BOOLEAN, Begin(q, n, p, s, h, long, junk, again)
  PROVE  Starts(q, n, p, s, h)
<1> DEFINE refused == long /\ h.toolong = "refuse"
           ok == ~refused /\ ~(h.nothing /\ h.reply = "counted")
           base == [c \in look |-> NoValue(Empty)]
           todo == Steps(h, refused, junk = {})
           x == [job |-> "save", n |-> n, who |-> p, uin |-> slot[s].uin, slot |-> s, nr |-> slot[s].nr, h |-> h,
                 long |-> long, junk |-> junk, again |-> again, ok |-> ok,
                 half |-> FALSE, base |-> base, todo |-> todo]
<1>1. st' = [st EXCEPT ![q] = x]
  BY DEF Begin
<1>2. /\ slot[s].uin \in Uins /\ slot[s].nr \in Int /\ ok \in BOOLEAN
      /\ todo \in Seq({"read", "about", "write", "answer"})
  BY PlaceIs, StepsAre
<1>3. base \in [look -> Values] /\ \A c \in look : base[c] = NoValue(Empty)
  <2>1. NoValue(Empty) \in Values
    <3>1. Empty \in Names
      BY DEF Names
    <3> QED BY <3>1 DEF Values, NoValue, Value
  <2> QED BY <2>1
<1> HIDE DEF ok, todo, base
<1>4. x \in SaveJobs
  BY <1>2, <1>3 DEF SaveJobs
<1>5. /\ x.job = "save" /\ x.n = n /\ x.who = p /\ x.uin = slot[s].uin /\ x.slot = s
      /\ x.nr = slot[s].nr /\ x.h = h /\ x.base = base
  OBVIOUS
<1> HIDE DEF x
<1>6. x \in Jobs
  BY <1>4 DEF Jobs
<1>7. st'[q] = x /\ Others(q) /\ st' \in [PPs -> Jobs]
  BY <1>1, <1>6, MovedIs
<1> QED BY <1>3, <1>5, <1>7 DEF Starts

----------------------------------------------------------------------------
(* Rows *)

LEMMA UinIs ==
  ASSUME TypeInv, NEW q \in PPs, st[q] \in SaveJobs
  PROVE  Uin(q) \in Uins
<1>1. 0 \in Uins
  BY BoundsAssumption DEF Uins
<1>2. st[q].uin \in Uins /\ st[q].slot \in Slots
  BY DEF SaveJobs
<1>3. slot[st[q].slot] # Free => slot[st[q].slot].uin \in Uins
  BY <1>2, PlaceIs
<1> QED BY <1>1, <1>2, <1>3 DEF Uin

LEMMA RowIs ==
  ASSUME TypeInv, NEW u \in Uins, Known(u)
  PROVE  rows[u].who \in Everyone /\ rows[u].val \in [look -> Values]
<1>1. rows[u] \in [who : Everyone, val : [look -> Values]]
  BY DEF TypeInv, Rows, Known
<1> QED BY <1>1

\* A row is no missing row.
LEMMA RowsAreRows ==
  ASSUME NEW r \in [who : Everyone, val : [look -> Values]]
  PROVE  r # NoRow /\ r \in Rows
<1>1. DOMAIN r = {"who", "val"} /\ DOMAIN NoRow = {"who"}
  BY DEF NoRow
<1> QED BY <1>1 DEF Rows

LEMMA FreshIs ==
  ASSUME NEW p \in Everyone, look \in Looks
  PROVE  /\ Fresh(p) \in [who : Everyone, val : [look -> Values]] /\ Fresh(p).who = p
         /\ \A c \in look : Fresh(p).val[c] = Value(0, c)
<1>1. \A c \in look : Value(0, c) \in Values
  BY DEF Values, Names, Value
<1> QED BY <1>1 DEF Fresh

\* What is put into a row: its owner stays.
LEMMA PutIs ==
  ASSUME TypeInv, NEW q \in PPs, st[q] \in SaveJobs, Known(Uin(q)), NEW new,
         \A c \in look \cap DOMAIN new : new[c] \in Values, Put(q, new)
  PROVE  /\ rows' \in [Uins -> Rows] /\ odd' \in [Uins -> SUBSET {"place", "reused"}]
         /\ \A u \in Uins : rows'[u] = NoRow <=> rows[u] = NoRow
         /\ \A u \in Uins : Known(u) => rows'[u].who = rows[u].who
         /\ \A u \in Uins : u # Uin(q) => rows'[u] = rows[u]
         /\ \A c \in look : rows'[Uin(q)].val[c] = IF c \in DOMAIN new THEN new[c] ELSE rows[Uin(q)].val[c]
         /\ \A u \in Uins : odd'[u] = IF u = Uin(q) THEN odd[u] \cup Strays(q, u) ELSE odd[u]
<1> DEFINE u0 == Uin(q)
           r  == rows[u0]
           val == [c \in look |-> IF c \in DOMAIN new THEN new[c] ELSE r.val[c]]
           x  == [r EXCEPT !.val = val]
<1>1. u0 \in Uins
  BY UinIs
<1> HIDE DEF u0
<1>2. r \in [who : Everyone, val : [look -> Values]]
  BY <1>1 DEF TypeInv, Rows, Known, u0
<1>3. r.val \in [look -> Values]
  BY <1>2
<1> HIDE DEF r
<1>4. val \in [look -> Values]
  BY <1>3
<1>5. rows' = [rows EXCEPT ![u0] = x]
  BY <1>3 DEF Put, u0, r
<1> HIDE DEF val
<1>6. x \in [who : Everyone, val : [look -> Values]] /\ x.who = r.who /\ x.val = val
  BY <1>2, <1>4
<1> HIDE DEF x
<1>7. x # NoRow /\ x \in Rows
  BY <1>6, RowsAreRows
<1>8. rows' \in [Uins -> Rows] /\ rows'[u0] = x /\ \A u \in Uins : u # u0 => rows'[u] = rows[u]
  BY <1>1, <1>5, <1>7 DEF TypeInv
<1>9. Strays(q, u0) \in SUBSET {"place", "reused"}
  BY DEF Strays
<1>10. odd' = [odd EXCEPT ![u0] = odd[u0] \cup Strays(q, u0)]
  BY DEF Put, u0
<1>11. odd' \in [Uins -> SUBSET {"place", "reused"}]
       /\ \A u \in Uins : odd'[u] = IF u = u0 THEN odd[u] \cup Strays(q, u) ELSE odd[u]
  BY <1>1, <1>9, <1>10 DEF TypeInv
<1>12. \A c \in look : rows'[u0].val[c] = IF c \in DOMAIN new THEN new[c] ELSE rows[u0].val[c]
  BY <1>6, <1>8 DEF val, r
<1>13. \A u \in Uins : rows'[u] = NoRow <=> rows[u] = NoRow
  BY <1>1, <1>7, <1>8 DEF Known, u0, r
<1>14. \A u \in Uins : Known(u) => rows'[u].who = rows[u].who
  BY <1>6, <1>8 DEF r
<1> QED BY <1>8, <1>11, <1>12, <1>13, <1>14 DEF u0

LEMMA StoredIs ==
  ASSUME TypeInv, NEW q \in PPs, st[q] \in SaveJobs, NEW c \in look, c \in DOMAIN st[q].h.writes
  PROVE  /\ Stored(st[q], c) \in Values
         /\ \/ \E x : Stored(st[q], c) = NoValue(x)
            \/ Stored(st[q], c) = st[q].base[c]
            \/ \E f : Stored(st[q], c) = Value(st[q].n, f)
<1> DEFINE t == st[q]  f == t.h.writes[c]
<1>1. t.h \in Handlers /\ t.n \in Nat /\ t.base \in [look -> Values]
  BY DEF SaveJobs
<1>2. f \in Names
  <2>1. f \in Range(t.h.writes)
    BY DEF Range
  <2> QED BY <1>1, <2>1 DEF Names
<1>3. Value(t.n, f) \in Values /\ t.base[c] \in Values
  BY <1>1, <1>2 DEF Value, Values
<1>5. \/ Stored(t, c) \in {NoValue("undefined"), NoValue("nothing")}
      \/ Stored(t, c) = t.base[c]
      \/ Stored(t, c) = Value(t.n, f)
  BY DEF Stored
<1> HIDE DEF f, t
<1>6. NoValue("undefined") \in Values /\ NoValue("nothing") \in Values
  <2>1. "undefined" \in Names /\ "nothing" \in Names
    BY DEF Names, Undefined, Empty
  <2> QED BY <2>1 DEF NoValue, Value, Values
<1> QED BY <1>3, <1>5, <1>6 DEF t

----------------------------------------------------------------------------
(* What each step does to the jobs *)

Moves(q) == st' \in [PPs -> Jobs] /\ Others(q) /\ KeepsJob(st[q], st'[q])

LEMMA SaveDoing ==
  ASSUME TypeInv, NEW q \in PPs, NEW step \in SaveSteps, Doing(q, step)
  PROVE  st[q] \in SaveJobs /\ st[q].job = "save" /\ st[q].todo # <<>>
<1>1. st[q] \in SaveJobs /\ st[q].todo # <<>>
  BY DoingIs
<1> QED BY <1>1 DEF SaveJobs

LEMMA ReadMoves ==
  ASSUME TypeInv, NEW q \in PPs, Read(q)
  PROVE  /\ Moves(q) /\ st[q] \in SaveJobs /\ st[q].job = "save"
         /\ odd' \in [Uins -> SUBSET {"place", "reused"}]
         /\ \A u \in Uins : odd[u] \subseteq odd'[u]
         /\ \/ KeepsBase(st[q], st'[q])
            \/ /\ Known(Uin(q)) /\ odd'[Uin(q)] = odd[Uin(q)] \cup Strays(q, Uin(q))
               /\ st'[q].job = "save" => st'[q].base = rows[Uin(q)].val
<1>1. Doing(q, "read") /\ st[q] \in SaveJobs /\ st[q].job = "save"
  BY SaveDoing DEF Read, SaveSteps
<1>2. Uin(q) \in Uins
  BY <1>1, UinIs
<1>3. CASE Known(Uin(q))
  <2> DEFINE base == rows[Uin(q)].val
  <2>1. base \in [look -> Values]
    BY <1>2, <1>3, RowIs
  <2>2. /\ st' = [st EXCEPT ![q] = [Then(@) EXCEPT !.base = base]]
        /\ odd' = [odd EXCEPT ![Uin(q)] = odd[Uin(q)] \cup Strays(q, Uin(q))]
    BY <1>3 DEF Read
  <2> HIDE DEF base
  <2>3. Moves(q) /\ (st'[q].job = "save" => st'[q].base = base)
    BY <1>1, <2>1, <2>2, ReadIs DEF Moves
  <2>4. Strays(q, Uin(q)) \in SUBSET {"place", "reused"}
    BY DEF Strays
  <2>5. /\ odd' \in [Uins -> SUBSET {"place", "reused"}] /\ odd'[Uin(q)] = odd[Uin(q)] \cup Strays(q, Uin(q))
        /\ \A u \in Uins : odd[u] \subseteq odd'[u]
    BY <1>2, <2>2, <2>4 DEF TypeInv
  <2> QED BY <1>1, <1>3, <2>3, <2>5 DEF base
<1>4. CASE ~Known(Uin(q))
  <2>1. GiveUp(q) /\ odd' = odd
    BY <1>4 DEF Read
  <2>2. Moves(q) /\ KeepsBase(st[q], st'[q])
    BY <1>1, <2>1, GiveUpIs DEF Moves
  <2> QED BY <1>1, <2>1, <2>2 DEF TypeInv
<1> QED BY <1>3, <1>4

\* SaveAbout and Write: nothing, or a row gets what its handler stores.
LEMMA WriteMoves ==
  ASSUME TypeInv, NEW q \in PPs, SaveAbout(q) \/ Write(q)
  PROVE  /\ Moves(q) /\ KeepsBase(st[q], st'[q]) /\ st[q] \in SaveJobs /\ st[q].job = "save"
         /\ \/ rows' = rows /\ odd' = odd
            \/ /\ Known(Uin(q))
               /\ \E new : /\ Put(q, new)
                           /\ \A c \in look \cap DOMAIN new :
                                /\ new[c] \in Values
                                /\ \/ \E x : new[c] = NoValue(x)
                                   \/ new[c] = st[q].base[c]
                                   \/ \E f : new[c] = Value(st[q].n, f)
<1>1. st[q] \in SaveJobs /\ st[q].job = "save" /\ st[q].todo # <<>>
  BY SaveDoing DEF SaveAbout, Write, SaveSteps
<1>2. CASE SaveAbout(q)
  <2>1. Moves(q) /\ KeepsBase(st[q], st'[q])
    BY <1>2, SaveAboutIs DEF SaveAbout, Moves
  <2>2. CASE Known(Uin(q))
    <3> DEFINE new == [c \in {"notes"} |-> Value(st[q].n, c)]
    <3>1. Put(q, new)
      BY <1>2, <2>2 DEF SaveAbout
    <3>2. \A c \in look \cap DOMAIN new : new[c] = Value(st[q].n, c) /\ new[c] \in Values
      BY <1>1 DEF SaveJobs, Value, Values, Names
    <3> HIDE DEF new
    <3> QED BY <1>1, <2>1, <2>2, <3>1, <3>2
  <2>3. CASE ~Known(Uin(q))
    BY <1>1, <1>2, <2>1, <2>3 DEF SaveAbout
  <2> QED BY <2>2, <2>3
<1>3. CASE Write(q)
  <2>1. GoOn(q) \/ GiveUp(q)
    BY <1>3 DEF Write
  <2>2. Moves(q) /\ KeepsBase(st[q], st'[q])
    BY <1>1, <2>1, GoOnIs, GiveUpIs DEF Moves
  <2>3. CASE Known(Uin(q))
    <3> DEFINE new == [c \in DOMAIN st[q].h.writes |-> Stored(st[q], c)]
    <3>1. Put(q, new)
      BY <1>3, <2>3 DEF Write
    <3>2. \A c \in look \cap DOMAIN new :
                                /\ new[c] \in Values
                                /\ \/ \E x : new[c] = NoValue(x)
                                   \/ new[c] = st[q].base[c]
                                   \/ \E f : new[c] = Value(st[q].n, f)
      BY <1>1, StoredIs
    <3> HIDE DEF new
    <3> QED BY <1>1, <2>2, <2>3, <3>1, <3>2
  <2>4. CASE ~Known(Uin(q))
    BY <1>1, <1>3, <2>2, <2>4 DEF Write
  <2> QED BY <2>3, <2>4
<1> QED BY <1>2, <1>3

LEMMA FailMoves ==
  ASSUME TypeInv, NEW q \in PPs, Fail(q)
  PROVE  Moves(q) /\ KeepsBase(st[q], st'[q]) /\ st[q] \in SaveJobs /\ st[q].job = "save"
<1>1. st[q] \in SaveJobs /\ st[q].job = "save" /\ GiveUp(q)
  BY SaveDoing DEF Fail, SaveSteps
<1> QED BY <1>1, GiveUpIs DEF Moves

LEMMA AnswerMoves ==
  ASSUME TypeInv, NEW q \in PPs, Answer(q)
  PROVE  Moves(q) /\ KeepsBase(st[q], st'[q]) /\ st[q] \in SaveJobs /\ st[q].job = "save"
<1>1. st[q] \in SaveJobs /\ st[q].job = "save" /\ st[q].todo # <<>> /\ GoOn(q)
  BY SaveDoing DEF Answer, SaveSteps
<1> QED BY <1>1, GoOnIs DEF Moves

----------------------------------------------------------------------------
(* The greatest number *)

LEMMA TopIs ==
  ASSUME NEW S, S \subseteq Uins, S # {}
  PROVE  Top(S) \in S /\ \A v \in S : v <= Top(S)
<1> DEFINE T == {MaxUin - u : u \in S}
           R == {ss \in Nat \X Nat : ss[1] < ss[2]}
<1>1. MaxUin \in Nat /\ \A u \in S : u \in Nat /\ u <= MaxUin
  BY BoundsAssumption DEF Uins
<1>2. T \subseteq Nat /\ T # {}
  BY <1>1
<1>3. IsWellFoundedOn(R, Nat)
  BY NatLessThanWellFounded DEF OpToRel
<1> HIDE DEF T, R
<1>4. PICK x \in T : \A y \in T : ~(<<y, x>> \in R)
  BY <1>2, <1>3, WFMin
<1>5. ASSUME NEW y \in T PROVE x <= y
  <2>1. x \in Nat /\ y \in Nat
    BY <1>2
  <2>2. ~(y < x)
    BY <1>4, <2>1 DEF R
  <2> QED BY <2>1, <2>2
<1>6. PICK u \in S : x = MaxUin - u
  BY <1>4 DEF T
<1>7. \A v \in S : v <= u
  <2>1. \A v \in S : MaxUin - v \in T
    BY DEF T
  <2> QED BY <1>1, <1>5, <1>6, <2>1
<1> QED BY <1>7 DEF Top

\* The next number: nobody has it.
LEMMA NextIs ==
  ASSUME NEW S, S \subseteq Uins
  PROVE  Top(S) \in Nat /\ \A v \in S : v < Top(S) + 1
<1>1. CASE S = {}
  BY <1>1 DEF Top
<1>2. CASE S # {}
  <2>1. Top(S) \in S /\ \A v \in S : v <= Top(S)
    BY <1>2, TopIs
  <2>2. \A v \in S : v \in Nat
    BY DEF Uins
  <2> QED BY <2>1, <2>2
<1> QED BY <1>1, <1>2

----------------------------------------------------------------------------
(* What each step of those who leave and join does to the jobs *)

LEMMA HeadsAre ==
  ASSUME NEW t \in JoinJobs
  PROVE  /\ Head(t.todo) = "max" => t.todo = WMax
         /\ Head(t.todo) = "exists" => t.todo \in {WExists, <<"exists", "insert">>}
         /\ Head(t.todo) = "max2" => t.todo \in {WMax2, <<"max2", "insert">>}
         /\ Head(t.todo) = "create" => t.todo \in {WCreate, <<"create", "insert">>}
         /\ Head(t.todo) = "insert" => t.todo \in {WInsert, <<"insert">>}
         /\ Head(t.todo) = "welcome" => t.todo = <<"welcome">>
<1>1. t.todo \in {WMax, WExists, WMax2, WCreate, WInsert, <<"welcome">>, <<"exists", "insert">>,
                  <<"max2", "insert">>, <<"create", "insert">>, <<"insert">>}
  BY DEF JoinJobs, WTodos, NTodos
<1> QED BY <1>1, TodosAre

\* What is left to do tells what was done.
LEMMA TodosDiffer ==
  /\ \A d \in NTodos \cup {WMax} : d \notin {WExists, WMax2, WCreate, WInsert, <<"welcome">>}
  /\ WExists \notin {WMax2, WCreate, WInsert, <<"welcome">>} /\ WMax2 \notin {WCreate, WInsert, <<"welcome">>}
  /\ WCreate \notin {WInsert, <<"welcome">>} /\ WInsert # <<"welcome">> /\ WInsert # <<"insert">>
  /\ WMax \notin {<<"insert">>, <<"welcome">>}
  /\ \A d \in {WExists, WMax2, WCreate, WInsert} : d \notin {<<"insert">>, <<"welcome">>}
<1>1. \A d \in {<<"exists", "insert">>, <<"max2", "insert">>, <<"create", "insert">>, <<"insert">>, WMax} :
        d \notin {WExists, WMax2, WCreate, WInsert, <<"welcome">>}
  BY DEF WMax, WExists, WMax2, WCreate, WInsert
<1>2. WExists \notin {WMax2, WCreate, WInsert, <<"welcome">>}
  BY DEF WExists, WMax2, WCreate, WInsert
<1>3. /\ WMax2 \notin {WCreate, WInsert, <<"welcome">>}
      /\ WCreate \notin {WInsert, <<"welcome">>} /\ WInsert # <<"welcome">> /\ WInsert # <<"insert">>
  BY DEF WMax2, WCreate, WInsert
<1>4. \A d \in {WMax, WExists, WMax2, WCreate, WInsert} : d \notin {<<"insert">>, <<"welcome">>}
  BY DEF WMax, WExists, WMax2, WCreate, WInsert
<1>5. NTodos \cup {WMax} = {<<"exists", "insert">>, <<"max2", "insert">>, <<"create", "insert">>, <<"insert">>, WMax}
  BY DEF NTodos
<1>6. \A d \in NTodos \cup {WMax} : d \notin {WExists, WMax2, WCreate, WInsert, <<"welcome">>}
  BY <1>1, <1>5
<1>7. \A d \in {WExists, WMax2, WCreate, WInsert} : d \notin {<<"insert">>, <<"welcome">>}
  BY <1>4
<1>8. WMax \notin {<<"insert">>, <<"welcome">>}
  BY <1>4
<1> QED BY <1>2, <1>3, <1>6, <1>7, <1>8

LEMMA WaysAre ==
  ASSUME NEW w \in Ways
  PROVE  /\ w.todo \in {WMax, <<"exists", "insert">>}
         /\ w.todo = WMax /\ ~w.creates => ~w.byhand
BY DEF Ways, WMax

LEMMA LeaveMoves ==
  ASSUME TypeInv, NEW q \in PPs, NEW s \in Slots, Leave(q, s)
  PROVE  /\ st' \in [PPs -> Jobs] /\ Others(q) /\ st'[q] \in LeaveJobs /\ st'[q].job = "leave"
         /\ st'[q].who = slot[s].who /\ st'[q].todo = <<"delete", "goodbye">> /\ slot[s].who \in Everyone
<1>1. PICK u \in Uins :
        st' = [st EXCEPT ![q] = [job |-> "leave", who |-> slot[s].who, uin |-> u,
                                 ok |-> TRUE, todo |-> <<"delete", "goodbye">>]]
  BY DEF Leave
<1> DEFINE x == [job |-> "leave", who |-> slot[s].who, uin |-> u,
                 ok |-> TRUE, todo |-> <<"delete", "goodbye">>]
<1>2. slot[s].who \in Everyone
  BY PlaceIs DEF Leave
<1>3. x \in LeaveJobs /\ x.job = "leave" /\ x.who = slot[s].who /\ x.todo = <<"delete", "goodbye">>
  BY <1>2 DEF LeaveJobs
<1> HIDE DEF x
<1>4. x \in Jobs
  BY <1>3 DEF Jobs
<1>5. st' \in [PPs -> Jobs] /\ Others(q) /\ st'[q] = x
  BY <1>1, <1>4, MovedIs DEF x
<1> QED BY <1>2, <1>3, <1>5

LEMMA DeleteMoves ==
  ASSUME TypeInv, NEW q \in PPs, Delete(q)
  PROVE  /\ Moves(q) /\ st[q] \in LeaveJobs /\ st[q].job = "leave" /\ st[q].todo # <<"goodbye">>
         /\ st'[q].job = "leave" /\ st'[q].who = st[q].who /\ st'[q].uin = st[q].uin
         /\ st'[q].ok /\ st'[q].todo = <<"goodbye">>
<1>1. st[q] \in LeaveJobs /\ st[q].todo # <<>> /\ st[q].todo = <<"delete", "goodbye">> /\ GoOn(q)
  BY DoingIs, TodosAre DEF LeaveJobs, Doing, Delete
<1>2. st[q].todo # <<"goodbye">>
  BY <1>1, TodosAre
<1>3. st[q].ok /\ st[q].job = "leave"
  BY <1>1, <1>2 DEF LeaveJobs
<1>4. Moves(q) /\ st'[q] = Then(st[q])
  BY <1>1, GoOnIs DEF Moves
<1>5. Then(st[q]) = [st[q] EXCEPT !.todo = <<"goodbye">>]
  BY <1>1, TodosAre, LengthsAre DEF Then
<1>6. /\ Then(st[q]).job = "leave" /\ Then(st[q]).who = st[q].who /\ Then(st[q]).uin = st[q].uin
      /\ Then(st[q]).ok = st[q].ok /\ Then(st[q]).todo = <<"goodbye">>
  BY <1>1, <1>5 DEF LeaveJobs
<1> QED BY <1>1, <1>2, <1>3, <1>4, <1>6

\* A row that is removed is the user's own, or that of a user who is marked.
LEMMA DeleteRows ==
  ASSUME TypeInv, NEW q \in PPs, Delete(q)
  PROVE  /\ rows' \in [Uins -> Rows] /\ hasty' \in [Everyone -> SUBSET Marks]
         /\ \A p \in Everyone : hasty[p] \subseteq hasty'[p]
         /\ \A u \in Uins : rows'[u] # NoRow => rows'[u] = rows[u] /\ rows[u] # NoRow
         /\ \A u \in Uins : rows[u] # NoRow =>
              rows'[u] # NoRow \/ hasty'[rows[u].who] # {} \/ (rows[u].who = st[q].who /\ u = st[q].uin)
<1> DEFINE d == st[q].uin
<1>1. d \in Uins /\ rows \in [Uins -> Rows] /\ NoRow \in Rows /\ hasty \in [Everyone -> SUBSET Marks]
  BY DeleteMoves DEF LeaveJobs, TypeInv, Rows
<1>2. CASE UNCHANGED <<rows, hasty>>
  BY <1>1, <1>2
<1>3. CASE /\ Known(d) /\ rows' = [rows EXCEPT ![d] = NoRow]
           /\ hasty' = IF rows[d].who = st[q].who THEN hasty ELSE [hasty EXCEPT ![rows[d].who] = @ \cup {"removed"}]
  <2>1. rows[d].who \in Everyone
    BY <1>1, <1>3 DEF Known, Rows
  <2>2. CASE rows[d].who = st[q].who
    BY <1>1, <1>3, <2>2
  <2>3. CASE rows[d].who # st[q].who
    <3> DEFINE p == rows[d].who
    <3>1. hasty' = [hasty EXCEPT ![p] = hasty[p] \cup {"removed"}]
      BY <1>3, <2>3
    <3>2. hasty[p] \cup {"removed"} \in SUBSET Marks
      BY <1>1, <2>1 DEF Marks
    <3> HIDE DEF p
    <3>3. /\ hasty' \in [Everyone -> SUBSET Marks]
          /\ \A x \in Everyone : hasty[x] \subseteq hasty'[x]
      BY <1>1, <3>1, <3>2
    <3>4. hasty'[rows[d].who] # {}
      BY <1>1, <2>1, <3>1 DEF p
    <3> QED BY <1>1, <1>3, <3>3, <3>4
  <2> QED BY <2>2, <2>3
<1> QED BY <1>2, <1>3 DEF Delete

LEMMA DeleteFailsMoves ==
  ASSUME TypeInv, NEW q \in PPs, DeleteFails(q)
  PROVE  /\ Moves(q) /\ st[q].job = "leave" /\ st[q].todo # <<"goodbye">>
         /\ st'[q].job = "leave" /\ ~st'[q].ok
<1>1. /\ Doing(q, "delete") /\ st[q] \in LeaveJobs /\ st[q].todo = <<"delete", "goodbye">>
      /\ st' = [st EXCEPT ![q] = [Then(@) EXCEPT !.ok = FALSE]]
  BY DoingIs, TodosAre DEF LeaveJobs, Doing, DeleteFails
<1>2. st[q].todo # <<"goodbye">> /\ st[q].job = "leave"
  BY <1>1, TodosAre DEF LeaveJobs
<1> QED BY <1>1, <1>2, DeleteFailsIs DEF Moves

LEMMA GoodbyeMoves ==
  ASSUME TypeInv, NEW q \in PPs, Goodbye(q)
  PROVE  /\ Moves(q) /\ st[q] \in LeaveJobs /\ st[q].job = "leave" /\ st[q].todo = <<"goodbye">> /\ st'[q] = Idle
<1>1. st[q] \in LeaveJobs /\ st[q].todo # <<>> /\ st[q].todo = <<"goodbye">> /\ GoOn(q)
  BY DoingIs, TodosAre DEF LeaveJobs, Doing, Goodbye
<1>2. Moves(q) /\ st'[q] = Idle
  BY <1>1, GoOnIs, LeaveGoesOn DEF Moves
<1> QED BY <1>1, <1>2 DEF LeaveJobs

LEMMA JoinMoves ==
  ASSUME TypeInv, NEW q \in PPs, NEW n \in Newcomers, Join(q, n)
  PROVE  /\ st' \in [PPs -> Jobs] /\ Others(q) /\ st'[q] \in JoinJobs /\ st'[q].who = n
         /\ st'[q].todo \in {WMax, <<"exists", "insert">>}
<1>1. PICK w \in Ways :
        st' = [st EXCEPT ![q] = [job |-> "join", who |-> n, way |-> w, uin |-> 0, todo |-> w.todo]]
  BY DEF Join
<1> DEFINE x == [job |-> "join", who |-> n, way |-> w, uin |-> 0, todo |-> w.todo]
<1>2. w.todo \in {WMax, <<"exists", "insert">>} /\ w.todo \in WTodos \cup NTodos
  BY WaysAre DEF WTodos, NTodos
<1>3. x \in JoinJobs /\ x.who = n /\ x.todo \in {WMax, <<"exists", "insert">>}
  BY <1>2, BoundsAssumption DEF JoinJobs, Uins
<1> HIDE DEF x
<1>4. x \in Jobs
  BY <1>3 DEF Jobs
<1>5. st' \in [PPs -> Jobs] /\ Others(q) /\ st'[q] = x
  BY <1>1, <1>4, MovedIs DEF x
<1> QED BY <1>3, <1>5

LEMMA JoinDoing ==
  ASSUME TypeInv, NEW q \in PPs, NEW step \in JoinSteps, Doing(q, step)
  PROVE  /\ st[q] \in JoinJobs /\ st[q].job = "join" /\ st[q].uin \in Uins
         /\ Head(st[q].todo) = step /\ st[q].todo # <<>>
<1>1. st[q] \in JoinJobs
  BY DoingIs
<1> QED BY <1>1, JoinTodos DEF Doing

\* The steps that leave a newcomer with a number and more to do.
Proceeds(q, u, d) ==
  /\ Moves(q) /\ st[q] \in JoinJobs /\ st[q].job = "join"
  /\ st'[q] \in JoinJobs /\ st'[q].who = st[q].who /\ st'[q].way = st[q].way /\ st'[q].uin = u /\ st'[q].todo = d

LEMMA NewUinMoves ==
  ASSUME TypeInv, NEW q \in PPs, NewUin(q)
  PROVE  /\ st[q].todo = WMax /\ Proceeds(q, Top({u \in Uins : Known(u)}) + 1, WExists)
<1> DEFINE u == Top({v \in Uins : Known(v)}) + 1
<1>1. Top({v \in Uins : Known(v)}) < MaxUin /\ Got(q, u, <<>>)
  BY DEF NewUin
<1>2. st[q] \in JoinJobs /\ st[q].job = "join" /\ Head(st[q].todo) = "max"
  BY JoinDoing DEF NewUin, JoinSteps
<1>3. st[q].todo = WMax
  BY <1>2, HeadsAre
<1>4. u \in Uins
  <2>1. Top({v \in Uins : Known(v)}) \in Nat
    BY NextIs
  <2> QED BY <1>1, <2>1, BoundsAssumption DEF Uins
<1>5. <<>> \o Tail(st[q].todo) = WExists /\ WExists \in WTodos \cup NTodos
  BY <1>3, TodosAre, TodosGrow DEF WTodos
<1> HIDE DEF u
<1>6. Proceeds(q, u, WExists)
  BY <1>1, <1>2, <1>4, <1>5, GotIs DEF Proceeds, Moves
<1> QED BY <1>3, <1>6 DEF u

LEMMA TableExistsMoves ==
  ASSUME TypeInv, NEW q \in PPs, TableExists(q)
  PROVE  /\ st[q].todo = WExists =>
              Proceeds(q, st[q].uin, IF pending.made THEN WMax2 ELSE IF st[q].way.creates THEN WCreate ELSE WInsert)
         /\ st[q].todo # WExists => \E d \in NTodos : Proceeds(q, st[q].uin, d)
<1> DEFINE next == IF pending.made THEN <<"max2">> ELSE IF st[q].way.creates THEN <<"create">> ELSE <<>>
<1>1. /\ st[q] \in JoinJobs /\ st[q].job = "join" /\ st[q].uin \in Uins
      /\ Head(st[q].todo) = "exists" /\ Got(q, st[q].uin, next)
  BY JoinDoing DEF TableExists, JoinSteps
<1>2. st[q].todo \in {WExists, <<"exists", "insert">>}
  BY <1>1, HeadsAre
<1>3. CASE st[q].todo = WExists
  <2> DEFINE d == IF pending.made THEN WMax2 ELSE IF st[q].way.creates THEN WCreate ELSE WInsert
  <2>1. next \o Tail(st[q].todo) = d /\ d \in WTodos \cup NTodos
    BY <1>3, TodosAre, TodosGrow DEF WTodos
  <2> HIDE DEF d, next
  <2>2. Proceeds(q, st[q].uin, d)
    BY <1>1, <2>1, GotIs DEF Proceeds, Moves
  <2> QED BY <1>3, <2>2 DEF d
<1>4. CASE st[q].todo = <<"exists", "insert">>
  <2> DEFINE d == next \o Tail(st[q].todo)
  <2>1. d \in NTodos /\ d \in WTodos \cup NTodos
    BY <1>4, TodosAre, TodosGrow DEF NTodos
  <2> HIDE DEF next
  <2>2. Proceeds(q, st[q].uin, d)
    BY <1>1, <2>1, GotIs DEF Proceeds, Moves
  <2>3. st[q].todo # WExists
    BY <1>4, TodosDiffer DEF NTodos
  <2> QED BY <2>1, <2>2, <2>3
<1> QED BY <1>2, <1>3, <1>4

LEMMA NewUin2Moves ==
  ASSUME TypeInv, NEW q \in PPs, NewUin2(q)
  PROVE  \E u \in Uins :
           /\ st[q].uin <= u /\ \A e \in pending.in : e.uin < u
           /\ st[q].todo = WMax2 => Proceeds(q, u, WInsert)
           /\ st[q].todo # WMax2 => \E d \in NTodos : Proceeds(q, u, d)
<1> DEFINE next == IF pending.in = {} THEN 0 ELSE Top({e.uin : e \in pending.in}) + 1
           u == Top({st[q].uin, next})
<1>1. /\ st[q] \in JoinJobs /\ st[q].job = "join" /\ st[q].uin \in Uins
      /\ Head(st[q].todo) = "max2" /\ Got(q, u, <<>>) /\ next <= MaxUin
  BY JoinDoing DEF NewUin2, JoinSteps
<1>2. next \in Uins /\ \A e \in pending.in : e.uin \in Nat /\ e.uin < next
  <2>1. {e.uin : e \in pending.in} \subseteq Uins
    BY DEF TypeInv
  <2>2. Top({e.uin : e \in pending.in}) \in Nat /\ \A v \in {e.uin : e \in pending.in} : v < Top({e.uin : e \in pending.in}) + 1
    BY <2>1, NextIs
  <2>3. \A e \in pending.in : e.uin \in Nat
    BY <2>1 DEF Uins
  <2> QED BY <1>1, <2>2, <2>3, BoundsAssumption DEF Uins
<1> HIDE DEF next
<1>3. u \in Uins /\ st[q].uin <= u /\ next <= u
  <2>1. {st[q].uin, next} \subseteq Uins /\ {st[q].uin, next} # {}
    BY <1>1, <1>2
  <2>2. Top({st[q].uin, next}) \in {st[q].uin, next} /\ \A v \in {st[q].uin, next} : v <= Top({st[q].uin, next})
    BY <2>1, TopIs
  <2> QED BY <2>1, <2>2
<1> HIDE DEF u
<1>4. \A e \in pending.in : e.uin < u
  <2>1. u \in Nat /\ next \in Nat
    BY <1>2, <1>3 DEF Uins
  <2> QED BY <1>2, <1>3, <2>1
<1>5. CASE st[q].todo = WMax2
  <2>1. <<>> \o Tail(st[q].todo) = WInsert /\ WInsert \in WTodos \cup NTodos
    BY <1>5, TodosAre, TodosGrow DEF WTodos
  <2>2. Proceeds(q, u, WInsert)
    BY Zenon, <1>1, <1>3, <2>1, GotIs DEF Proceeds, Moves
  <2> QED BY <1>3, <1>4, <1>5, <2>2
<1>6. CASE st[q].todo # WMax2
  <2>1. st[q].todo = <<"max2", "insert">>
    BY <1>1, <1>6, HeadsAre
  <2>2. <<>> \o Tail(st[q].todo) = <<"insert">> /\ <<"insert">> \in NTodos /\ <<"insert">> \in WTodos \cup NTodos
    BY <2>1, TodosAre, TodosGrow DEF NTodos
  <2>3. Proceeds(q, u, <<"insert">>)
    BY <1>1, <1>3, <2>2, GotIs DEF Proceeds, Moves
  <2> QED BY <1>3, <1>4, <1>6, <2>2, <2>3
<1> QED BY <1>5, <1>6

\* One step less to do.
LEMMA LessToDo ==
  ASSUME TypeInv, NEW q \in PPs, st[q] \in JoinJobs, st[q].job = "join", st[q].todo # <<>>, GoOn(q)
  PROVE  /\ Moves(q)
         /\ st[q].todo \in {<<"insert">>, <<"welcome">>} => st'[q] = Idle
         /\ st[q].todo \notin {<<"insert">>, <<"welcome">>} => Proceeds(q, st[q].uin, Tail(st[q].todo))
BY GoOnIs, JoinGoesOn DEF Moves, Proceeds

LEMMA CreateTableMoves ==
  ASSUME TypeInv, NEW q \in PPs, CreateTable(q)
  PROVE  /\ st[q].todo = WCreate => Proceeds(q, st[q].uin, WInsert)
         /\ st[q].todo # WCreate => \E d \in NTodos : Proceeds(q, st[q].uin, d)
<1>1. /\ st[q] \in JoinJobs /\ st[q].job = "join" /\ Head(st[q].todo) = "create" /\ st[q].todo # <<>> /\ GoOn(q)
  BY JoinDoing DEF CreateTable, JoinSteps
<1>2. st[q].todo \in {WCreate, <<"create", "insert">>}
  BY <1>1, HeadsAre
<1>3. st[q].todo \notin {<<"insert">>, <<"welcome">>}
  <2>1. "create" \notin {"insert", "welcome"}
    OBVIOUS
  <2> QED BY <1>1, <2>1, TodosAre
<1>4. Proceeds(q, st[q].uin, Tail(st[q].todo))
  BY <1>1, <1>3, LessToDo
<1>5. CASE st[q].todo = WCreate
  BY <1>4, <1>5, TodosAre
<1>6. CASE st[q].todo # WCreate
  <2>1. Tail(st[q].todo) = <<"insert">>
    BY <1>2, <1>6, TodosAre
  <2>2. <<"insert">> \in NTodos
    BY DEF NTodos
  <2> QED BY <1>4, <1>6, <2>1, <2>2
<1> QED BY <1>5, <1>6

LEMMA InsertMoves ==
  ASSUME TypeInv, NEW q \in PPs, Insert(q)
  PROVE  /\ Moves(q) /\ st[q] \in JoinJobs /\ st[q].job = "join" /\ st[q].todo \in {WInsert, <<"insert">>}
         /\ st[q].todo = WInsert => Proceeds(q, st[q].uin, <<"welcome">>)
         /\ st[q].todo # WInsert => st'[q] = Idle
<1>1. /\ st[q] \in JoinJobs /\ st[q].job = "join" /\ Head(st[q].todo) = "insert" /\ st[q].todo # <<>> /\ GoOn(q)
  BY JoinDoing DEF Insert, JoinSteps
<1>2. st[q].todo \in {WInsert, <<"insert">>}
  BY <1>1, HeadsAre
<1>3. CASE st[q].todo = WInsert
  <2>1. st[q].todo \notin {<<"insert">>, <<"welcome">>} /\ Tail(st[q].todo) = <<"welcome">>
    BY <1>3, TodosAre, TodosDiffer
  <2> QED BY <1>1, <1>2, <1>3, <2>1, LessToDo
<1>4. CASE st[q].todo # WInsert
  BY <1>1, <1>2, <1>4, LessToDo
<1> QED BY <1>3, <1>4

LEMMA JoinFailsMoves ==
  ASSUME TypeInv, NEW q \in PPs, JoinFails(q)
  PROVE  Moves(q) /\ st[q] \in JoinJobs /\ st[q].job = "join"
<1>1. PICK step \in {"max", "exists", "max2", "create", "insert"} : Doing(q, step)
  BY DEF JoinFails
<1>2. step \in JoinSteps
  BY DEF JoinSteps
<1>3. st[q] \in JoinJobs /\ st[q].job = "join" /\ st[q].uin \in Uins /\ st[q].todo # <<>>
  BY <1>1, <1>2, JoinDoing
<1>4. CASE GoOn(q)
  BY <1>3, <1>4, LessToDo
<1>5. CASE Doing(q, "exists") /\ Got(q, st[q].uin, <<"create">>)
  <2>1. Head(st[q].todo) = "exists"
    BY <1>5 DEF Doing
  <2>2. st[q].todo \in {WExists, <<"exists", "insert">>}
    BY <1>3, <2>1, HeadsAre
  <2>3. <<"create">> \o Tail(st[q].todo) \in WTodos \cup NTodos
    BY <2>2, TodosAre, TodosGrow DEF WTodos, NTodos
  <2> QED BY <1>3, <1>5, <2>3, GotIs DEF Moves
<1> QED BY <1>3, <1>4, <1>5 DEF JoinFails

LEMMA WelcomeMoves ==
  ASSUME TypeInv, NEW q \in PPs, Welcome(q)
  PROVE  Moves(q) /\ st[q] \in JoinJobs /\ st[q].job = "join" /\ st[q].todo = <<"welcome">> /\ st'[q] = Idle
<1>1. /\ st[q] \in JoinJobs /\ st[q].job = "join" /\ Head(st[q].todo) = "welcome" /\ st[q].todo # <<>> /\ GoOn(q)
  BY JoinDoing DEF Welcome, JoinSteps
<1> QED BY <1>1, HeadsAre, LessToDo

----------------------------------------------------------------------------
(* What a request does: it is added to those that were sent, or found there, *)
(* and a handler begins to work on it; the place may be given up             *)

Requests == [who : Everyone, hide : SUBSET Names, h : Handlers, nr : Int]
SentGrows ==
  /\ sent' \in Seq(Requests) /\ Len(sent) <= Len(sent')
  /\ \A i \in 1 .. Len(sent) : sent'[i] = sent[i]
  /\ \A i \in Len(sent) + 1 .. Len(sent') :
       \E s \in Slots : slot[s] # Free /\ sent'[i].who = slot[s].who /\ sent'[i].nr = slot[s].nr
Begins(q) ==
  /\ SentGrows
  /\ \/ st' = st
     \/ \E n \in 1 .. Len(sent') : \E s \in Slots :
          slot[s] # Free /\ sent'[n].who = slot[s].who /\ Starts(q, n, slot[s].who, s, sent'[n].h)
  /\ slot' = slot \/ \E s \in Slots : slot' = [slot EXCEPT ![s] = Free]

\* The addresses that come with a flag are among those that are looked at.
LEMMA FlagsAre ==
  ASSUME NEW h \in Handlers
  PROVE  h.flags \subseteq Names
<1>1. PICK a \in Looks, k \in Saving : h = Seen(k, a)
  BY DEF Handlers
<1>2. h.flags \subseteq a
  BY <1>1 DEF Seen
<1> QED BY <1>2 DEF Names

LEMMA SentIs ==
  ASSUME TypeInv, NEW s \in Slots, slot[s] # Free, NEW h \in Handlers, NEW hide \in SUBSET h.flags,
         Sent(slot[s].who, s, h, hide)
  PROVE  /\ SentGrows /\ Len(sent') = Len(sent) + 1 /\ Len(sent) \in Nat
         /\ sent'[Len(sent) + 1].who = slot[s].who /\ sent'[Len(sent) + 1].h = h
<1> DEFINE e == [who |-> slot[s].who, hide |-> hide, h |-> h, nr |-> slot[s].nr]
<1>1. e \in Requests /\ e.who = slot[s].who /\ e.h = h /\ e.nr = slot[s].nr
  BY PlaceIs, FlagsAre DEF Requests
<1>2. sent' = Append(sent, e)
  BY DEF Sent
<1>3. sent \in Seq(Requests)
  BY DEF TypeInv, Requests
<1> HIDE DEF e
<1>4. /\ sent' \in Seq(Requests) /\ Len(sent') = Len(sent) + 1 /\ Len(sent) \in Nat
      /\ \A i \in 1 .. Len(sent) : sent'[i] = sent[i]
      /\ sent'[Len(sent) + 1] = e
  BY <1>1, <1>2, <1>3
<1>5. \A i \in Len(sent) + 1 .. Len(sent') : sent'[i] = e
  BY <1>4
<1> QED BY <1>1, <1>4, <1>5 DEF SentGrows

LEMMA SaveBegins ==
  ASSUME TypeInv, NEW q \in PPs, NEW s \in Slots, Save(q, s)
  PROVE  Begins(q)
<1> DEFINE p == slot[s].who
<1>1. PICK h \in Handlers : \E hide \in SUBSET h.flags :
        Sent(p, s, h, hide) /\ Begin(q, Len(sent) + 1, p, s, h, FALSE, {}, FALSE)
  BY DEF Save
<1>2. slot[s] # Free /\ slot' = slot
  BY DEF Save
<1>3. SentGrows /\ Len(sent') = Len(sent) + 1 /\ Len(sent) \in Nat
      /\ sent'[Len(sent) + 1].who = p /\ sent'[Len(sent) + 1].h = h
  BY <1>1, <1>2, SentIs
<1>4. p \in Everyone
  BY <1>2, PlaceIs
<1>5. {} \in UNION {Junk(k) : k \in Handlers}
  BY DEF Junk
<1>6. Len(sent) + 1 \in Nat /\ Len(sent) + 1 \in 1 .. Len(sent')
  BY <1>3
<1> HIDE DEF p
<1>7. Starts(q, Len(sent) + 1, p, s, h)
  BY <1>1, <1>2, <1>4, <1>5, <1>6, BeginIs
<1> QED BY <1>2, <1>3, <1>6, <1>7 DEF Begins, p

LEMMA TooLongBegins ==
  ASSUME TypeInv, NEW q \in PPs, NEW s \in Slots, TooLong(q, s)
  PROVE  Begins(q)
<1> DEFINE p == slot[s].who
<1>1. PICK h \in Handlers, junk \in UNION {Junk(k) : k \in Handlers} :
        /\ Sent(p, s, h, h.flags)
        /\ st' = st \/ Begin(q, Len(sent) + 1, p, s, h, TRUE, junk, FALSE)
  <2>1. PICK h \in Handlers : \E junk \in Junk(h) :
          /\ Sent(p, s, h, h.flags)
          /\ st' = st \/ Begin(q, Len(sent) + 1, p, s, h, TRUE, junk, FALSE)
    BY DEF TooLong
  <2>2. Junk(h) \subseteq UNION {Junk(k) : k \in Handlers}
    OBVIOUS
  <2> QED BY <2>1, <2>2
<1>2. slot[s] # Free /\ (slot' = slot \/ slot' = [slot EXCEPT ![s] = Free])
  BY DEF TooLong
<1>3. SentGrows /\ Len(sent') = Len(sent) + 1 /\ Len(sent) \in Nat
      /\ sent'[Len(sent) + 1].who = p /\ sent'[Len(sent) + 1].h = h
  <2> DEFINE hide == h.flags
  <2>1. hide \in SUBSET h.flags
    OBVIOUS
  <2>2. Sent(p, s, h, hide)
    BY <1>1
  <2> HIDE DEF hide, p
  <2> QED BY <1>2, <2>1, <2>2, SentIs DEF p
<1>4. p \in Everyone
  BY <1>2, PlaceIs
<1>5. Len(sent) + 1 \in Nat /\ Len(sent) + 1 \in 1 .. Len(sent')
  BY <1>3
<1> HIDE DEF p
<1>6. st' = st \/ Starts(q, Len(sent) + 1, p, s, h)
  BY <1>1, <1>2, <1>4, <1>5, BeginIs
<1> QED BY <1>2, <1>3, <1>5, <1>6 DEF Begins, p

LEMMA AgainBegins ==
  ASSUME TypeInv, SessionsInv, NEW q \in PPs, NEW n \in 1 .. Len(sent), Again(q, n)
  PROVE  Begins(q)
<1>1. PICK s \in Slots : slot[s].nr = sent[n].nr /\ Begin(q, n, sent[n].who, s, sent[n].h, FALSE, {}, TRUE)
  BY DEF Again
<1>2. sent \in Seq(Requests) /\ sent' = sent /\ slot' = slot /\ nevent \in Nat
  BY DEF TypeInv, Requests, Again
<1>3. Len(sent) \in Nat /\ sent[n] \in Requests
  BY <1>2
<1>4. sent[n].who \in Everyone /\ sent[n].h \in Handlers
  BY <1>3 DEF Requests
<1>5. slot[s] # Free /\ slot[s].who = sent[n].who
  <2>1. slot[s] = Free => slot[s].nr = 0
    BY PlaceIs
  <2>2. sent[n].nr # 0 /\ slot[s].who = sent[n].who
    BY <1>1, <1>2 DEF SessionsInv, IsNr
  <2> QED BY <1>1, <2>1, <2>2
<1>6. {} \in UNION {Junk(k) : k \in Handlers}
  BY <1>4 DEF Junk
<1>7. n \in Nat
  BY <1>3
<1>8. Starts(q, n, sent[n].who, s, sent[n].h)
  BY <1>1, <1>4, <1>5, <1>6, <1>7, BeginIs
<1>9. SentGrows
  BY <1>2, <1>3 DEF SentGrows
<1> QED BY <1>2, <1>5, <1>8, <1>9 DEF Begins

----------------------------------------------------------------------------
(* TypeInv is inductive *)

LEMMA SameTypes ==
  ASSUME look' = look
  PROVE  Rows' = Rows /\ Jobs' = Jobs
BY DEF Rows, Values, Names, Jobs, SaveJobs, LeaveJobs, JoinJobs

\* The parts of TypeInv, of which a step changes a few.
LEMMA TypesStay ==
  ASSUME TypeInv, look' = look, rows' \in [Uins -> Rows],
         pending' \in [made : BOOLEAN, in : SUBSET [uin : Uins, who : Newcomers]],
         slot' \in [Slots -> Places], st' \in [PPs -> Jobs],
         sent' \in Seq(Requests), told' \in [Everyone -> [look -> 0 .. Len(sent')]],
         number' \in [Everyone -> Uins], odd' \in [Uins -> SUBSET {"place", "reused"}],
         hasty' \in [Everyone -> SUBSET Marks], nevent' \in Nat
  PROVE  TypeInv'
BY SameTypes DEF TypeInv, Requests

LEMMA ToldStays ==
  ASSUME TypeInv, SentGrows
  PROVE  told \in [Everyone -> [look -> 0 .. Len(sent')]]
<1>1. Len(sent) \in Nat /\ Len(sent') \in Nat /\ Len(sent) <= Len(sent')
  BY DEF TypeInv, SentGrows
<1>2. 0 .. Len(sent) \subseteq 0 .. Len(sent')
  BY <1>1
<1> HIDE DEF SentGrows
<1>3. told \in [Everyone -> [look -> 0 .. Len(sent)]]
  BY DEF TypeInv
<1>4. \A f \in [look -> 0 .. Len(sent)] : f \in [look -> 0 .. Len(sent')]
  BY <1>2
<1> QED BY <1>3, <1>4

LEMMA SaveTypes ==
  ASSUME TypeInv, SavesInv, SessionsInv, NEW q \in PPs,
         \/ \E s \in Slots : Save(q, s) \/ TooLong(q, s)
         \/ \E n \in 1 .. Len(sent) : Again(q, n)
  PROVE  /\ TypeInv' /\ Begins(q) /\ look' = look /\ rows' = rows /\ pending' = pending
         /\ number' = number /\ odd' = odd /\ hasty' = hasty /\ nevent' \in Nat /\ nevent <= nevent'
<1>1. Begins(q)
  BY SaveBegins, TooLongBegins, AgainBegins
<1>2. /\ look' = look /\ rows' = rows /\ pending' = pending /\ told' = told
      /\ number' = number /\ odd' = odd /\ hasty' = hasty /\ (nevent' = nevent \/ nevent' = nevent + 1)
  <2>1. ASSUME NEW s \in Slots, Save(q, s)
        PROVE  /\ look' = look /\ rows' = rows /\ pending' = pending /\ told' = told
               /\ number' = number /\ odd' = odd /\ hasty' = hasty /\ nevent' = nevent
    BY <2>1 DEF Save, data
  <2>2. ASSUME NEW s \in Slots, TooLong(q, s)
        PROVE  /\ look' = look /\ rows' = rows /\ pending' = pending /\ told' = told
               /\ number' = number /\ odd' = odd /\ hasty' = hasty /\ nevent' = nevent + 1
    BY <2>2 DEF TooLong, data, Event
  <2>3. ASSUME NEW n \in 1 .. Len(sent), Again(q, n)
        PROVE  /\ look' = look /\ rows' = rows /\ pending' = pending /\ told' = told
               /\ number' = number /\ odd' = odd /\ hasty' = hasty /\ nevent' = nevent + 1
    BY <2>3 DEF Again, data, Event
  <2> QED BY <2>1, <2>2, <2>3
<1>3. nevent' \in Nat /\ nevent <= nevent'
  BY <1>2 DEF TypeInv
<1>4. st' \in [PPs -> Jobs] /\ sent' \in Seq(Requests) /\ told' \in [Everyone -> [look -> 0 .. Len(sent')]]
  BY <1>1, <1>2, ToldStays DEF Begins, Starts, SentGrows, TypeInv
<1>5. slot' \in [Slots -> Places]
  <2>1. Free \in Places
    BY DEF Places
  <2> QED BY <1>1, <2>1 DEF Begins, TypeInv
<1>6. TypeInv'
  <2>1. /\ rows \in [Uins -> Rows] /\ pending \in [made : BOOLEAN, in : SUBSET [uin : Uins, who : Newcomers]]
        /\ number \in [Everyone -> Uins] /\ odd \in [Uins -> SUBSET {"place", "reused"}]
        /\ hasty \in [Everyone -> SUBSET Marks]
    BY DEF TypeInv
  <2> QED BY <1>2, <1>3, <1>4, <1>5, <2>1, TypesStay
<1> QED BY <1>1, <1>2, <1>3, <1>6

\* The steps of handlers that save.
Works(q) == Read(q) \/ SaveAbout(q) \/ Write(q) \/ Fail(q) \/ Answer(q)

LEMMA ToldIs ==
  ASSUME TypeInv, SavesInv, NEW q \in PPs, Answer(q)
  PROVE  told' \in [Everyone -> [look -> 0 .. Len(sent)]]
<1> DEFINE t == st[q]
           new == [f \in look |-> IF f \in t.h.fields THEN t.n ELSE told[t.who][f]]
<1>1. t.who \in Everyone /\ t.n \in 0 .. Len(sent)
  BY AnswerMoves DEF SavesInv, SaveJobs, TypeInv
<1>2. told[t.who] \in [look -> 0 .. Len(sent)]
  BY <1>1 DEF TypeInv
<1>3. new \in [look -> 0 .. Len(sent)]
  BY <1>1, <1>2
<1>4. told' = told \/ told' = [told EXCEPT ![t.who] = new]
  BY <1>1 DEF Answer, TypeInv
<1> HIDE DEF new
<1> QED BY <1>3, <1>4 DEF TypeInv

LEMMA WorkTypes ==
  ASSUME TypeInv, SavesInv, NEW q \in PPs, Works(q)
  PROVE  /\ TypeInv' /\ Moves(q) /\ st[q] \in SaveJobs /\ st[q].job = "save"
         /\ look' = look /\ slot' = slot /\ pending' = pending /\ sent' = sent /\ number' = number
         /\ hasty' = hasty /\ nevent' \in Nat /\ nevent <= nevent'
<1>1. Moves(q) /\ st[q] \in SaveJobs /\ st[q].job = "save"
  BY ReadMoves, WriteMoves, FailMoves, AnswerMoves DEF Works
<1>2. /\ look' = look /\ slot' = slot /\ pending' = pending /\ sent' = sent /\ number' = number
      /\ hasty' = hasty /\ (nevent' = nevent \/ nevent' = nevent + 1)
  BY DEF Works, Read, SaveAbout, Write, Fail, Answer, data, Event
<1>3. nevent' \in Nat /\ nevent <= nevent'
  BY <1>2 DEF TypeInv
<1>4. told' \in [Everyone -> [look -> 0 .. Len(sent)]]
  <2>1. CASE Answer(q)
    BY <2>1, ToldIs
  <2>2. CASE ~Answer(q)
    <3>1. told' = told
      BY <2>2 DEF Works, Read, SaveAbout, Write, Fail
    <3> QED BY <3>1 DEF TypeInv
  <2> QED BY <2>1, <2>2
<1>5. rows' \in [Uins -> Rows] /\ odd' \in [Uins -> SUBSET {"place", "reused"}]
  <2>0. rows \in [Uins -> Rows] /\ odd \in [Uins -> SUBSET {"place", "reused"}]
    BY DEF TypeInv
  <2>1. CASE Read(q)
    <3>1. rows' = rows
      BY <2>1 DEF Read, data
    <3> QED BY <2>0, <2>1, <3>1, ReadMoves
  <2>2. CASE SaveAbout(q) \/ Write(q)
    <3>1. CASE rows' = rows /\ odd' = odd
      BY <2>0, <3>1
    <3>2. ASSUME NEW new, Known(Uin(q)), Put(q, new), \A c \in look \cap DOMAIN new : new[c] \in Values
          PROVE  rows' \in [Uins -> Rows] /\ odd' \in [Uins -> SUBSET {"place", "reused"}]
      BY <1>1, <3>2, PutIs
    <3> QED BY <2>2, <3>1, <3>2, WriteMoves
  <2>3. CASE Fail(q)
    BY <2>0, <2>3 DEF Fail, data
  <2>4. CASE Answer(q)
    BY <2>0, <2>4 DEF Answer, data
  <2> QED BY <2>1, <2>2, <2>3, <2>4 DEF Works
<1>6. TypeInv'
  <2>1. /\ pending \in [made : BOOLEAN, in : SUBSET [uin : Uins, who : Newcomers]] /\ sent \in Seq(Requests)
        /\ number \in [Everyone -> Uins] /\ slot \in [Slots -> Places]
        /\ hasty \in [Everyone -> SUBSET Marks]
    BY DEF TypeInv, Requests
  <2> QED BY <1>1, <1>2, <1>3, <1>4, <1>5, <2>1, TypesStay DEF Moves
<1> QED BY <1>1, <1>2, <1>3, <1>6

LEMMA CrossedIs ==
  ASSUME hasty \in [Everyone -> SUBSET Marks], NEW p \in Everyone
  PROVE  /\ Crossed(p) \in [Everyone -> SUBSET Marks]
         /\ Crossed(p)[p] # {}
         /\ \A m \in Everyone : hasty[m] \subseteq Crossed(p)[m]
<1>1. hasty[p] \cup {"crossed"} \in SUBSET Marks
  BY DEF Marks
<1>2. Crossed(p) = [hasty EXCEPT ![p] = hasty[p] \cup {"crossed"}]
  BY DEF Crossed
<1>3. Crossed(p)[p] = hasty[p] \cup {"crossed"} /\ \A m \in Everyone : m # p => Crossed(p)[m] = hasty[m]
  BY <1>2
<1> QED BY <1>1, <1>2, <1>3

\* The steps of those who leave.
LEMMA LeaveTypes ==
  ASSUME TypeInv, NEW q \in PPs,
         \/ \E s \in Slots : Leave(q, s)
         \/ Delete(q) \/ DeleteFails(q) \/ Goodbye(q)
  PROVE  /\ TypeInv' /\ st' \in [PPs -> Jobs] /\ Others(q) /\ st'[q].job # "save" /\ st'[q].job # "join"
         /\ look' = look /\ slot' = slot /\ pending' = pending /\ sent' = sent /\ odd' = odd
         /\ nevent' \in Nat /\ nevent <= nevent'
         /\ \A p \in Everyone : hasty[p] \subseteq hasty'[p]
<1>1. st' \in [PPs -> Jobs] /\ Others(q) /\ st'[q].job # "save" /\ st'[q].job # "join"
  BY LeaveMoves, DeleteMoves, DeleteFailsMoves, GoodbyeMoves, IdleIs DEF Moves
<1>2. /\ look' = look /\ slot' = slot /\ pending' = pending /\ sent' = sent /\ odd' = odd
      /\ told' = told /\ (nevent' = nevent \/ nevent' = nevent + 1)
  <2>1. ASSUME NEW s \in Slots, Leave(q, s)
        PROVE  /\ look' = look /\ slot' = slot /\ pending' = pending /\ sent' = sent /\ odd' = odd
               /\ told' = told /\ nevent' = nevent
    BY <2>1 DEF Leave, data
  <2> QED BY <2>1 DEF Delete, DeleteFails, Goodbye, data, past, Event
<1>3. nevent' \in Nat /\ nevent <= nevent'
  BY <1>2 DEF TypeInv
<1>4. rows' \in [Uins -> Rows]
  <2>1. rows \in [Uins -> Rows] /\ NoRow \in Rows
    BY DEF TypeInv, Rows
  <2>2. CASE Delete(q)
    BY <2>2, DeleteRows
  <2>3. CASE ~Delete(q)
    <3>1. rows' = rows
      BY <2>3 DEF Leave, DeleteFails, Goodbye, data
    <3> QED BY <2>1, <3>1
  <2> QED BY <2>2, <2>3
<1>5. number' \in [Everyone -> Uins]
  <2>1. number \in [Everyone -> Uins] /\ 0 \in Uins
    BY BoundsAssumption DEF TypeInv, Uins
  <2>2. CASE Goodbye(q)
    <3>1. st[q].who \in Everyone
      BY <2>2, GoodbyeMoves DEF LeaveJobs
    <3> QED BY <2>1, <2>2, <3>1 DEF Goodbye
  <2>3. CASE ~Goodbye(q)
    <3>1. number' = number
      BY <2>3 DEF Leave, Delete, DeleteFails, past
    <3> QED BY <2>1, <3>1
  <2> QED BY <2>2, <2>3
<1>6. /\ hasty' \in [Everyone -> SUBSET Marks]
      /\ \A p \in Everyone : hasty[p] \subseteq hasty'[p]
  <2>1. ASSUME NEW s \in Slots, Leave(q, s)
        PROVE  /\ hasty' \in [Everyone -> SUBSET Marks]
               /\ \A p \in Everyone : hasty[p] \subseteq hasty'[p]
    <3>1. hasty' = hasty \/ hasty' = Crossed(slot[s].who)
      BY <2>1 DEF Leave
    <3>2. slot[s].who \in Everyone /\ hasty \in [Everyone -> SUBSET Marks]
      BY <2>1, LeaveMoves DEF TypeInv
    <3> QED BY <3>1, <3>2, CrossedIs
  <2>2. CASE Delete(q)
    BY <2>2, DeleteRows
  <2>3. CASE DeleteFails(q) \/ Goodbye(q)
    <3>1. hasty' = hasty
      BY <2>3 DEF DeleteFails, Goodbye, past
    <3> QED BY <3>1 DEF TypeInv
  <2> QED BY <2>1, <2>2, <2>3
<1>7. TypeInv'
  <2>1. /\ pending \in [made : BOOLEAN, in : SUBSET [uin : Uins, who : Newcomers]] /\ sent \in Seq(Requests)
        /\ slot \in [Slots -> Places] /\ odd \in [Uins -> SUBSET {"place", "reused"}]
        /\ told \in [Everyone -> [look -> 0 .. Len(sent)]]
    BY DEF TypeInv, Requests
  <2> QED BY <1>1, <1>2, <1>3, <1>4, <1>5, <1>6, <2>1, TypesStay
<1> QED BY <1>1, <1>2, <1>3, <1>6, <1>7

\* The steps of those who join.
Joins(q) == NewUin(q) \/ TableExists(q) \/ NewUin2(q) \/ CreateTable(q) \/ Insert(q) \/ JoinFails(q) \/ Welcome(q)

LEMMA JoinsMove ==
  ASSUME TypeInv, NEW q \in PPs, Joins(q)
  PROVE  Moves(q) /\ st[q] \in JoinJobs /\ st[q].job = "join"
<1>1. CASE NewUin(q)
  BY <1>1, NewUinMoves DEF Proceeds
<1>2. CASE TableExists(q)
  BY <1>2, TableExistsMoves DEF Proceeds
<1>3. CASE NewUin2(q)
  BY <1>3, NewUin2Moves DEF Proceeds
<1>4. CASE CreateTable(q)
  BY <1>4, CreateTableMoves DEF Proceeds
<1>5. CASE Insert(q) \/ JoinFails(q) \/ Welcome(q)
  BY <1>5, InsertMoves, JoinFailsMoves, WelcomeMoves
<1> QED BY <1>1, <1>2, <1>3, <1>4, <1>5 DEF Joins

\* What the marks of a newcomer who joins are.
LEMMA RaceIs ==
  ASSUME TypeInv, NEW q \in PPs, NEW n \in Newcomers, Join(q, n)
  PROVE  /\ hasty' \in [Everyone -> SUBSET Marks]
         /\ \A m \in Everyone : hasty[m] \subseteq hasty'[m]
         /\ Leaves(n) => hasty'[n] # {}
         /\ \A x \in PPs : st[x].job = "join" => hasty'[n] # {} /\ hasty'[st[x].who] # {}
<1> DEFINE others == {st[x].who : x \in {y \in PPs : st[y].job = "join"}}
           before == IF Leaves(n) THEN Crossed(n) ELSE hasty
<1>1. hasty' = [m \in Everyone |-> IF others # {} /\ m \in others \cup {n} THEN before[m] \cup {"race"} ELSE before[m]]
  BY DEF Join
<1>2. n \in Everyone /\ hasty \in [Everyone -> SUBSET Marks]
  BY DEF Everyone, TypeInv
<1>3. /\ before \in [Everyone -> SUBSET Marks]
      /\ \A m \in Everyone : hasty[m] \subseteq before[m]
      /\ Leaves(n) => before[n] # {}
  BY <1>2, CrossedIs
<1>4. ASSUME NEW x \in PPs, st[x].job = "join" PROVE st[x].who \in others /\ st[x].who \in Everyone
  <2>1. st[x] \in JoinJobs
    BY <1>4, JobIs DEF TypeInv
  <2> QED BY <1>4, <2>1, JoinTodos DEF Everyone
<1> HIDE DEF before, others
<1>5. /\ hasty' \in [Everyone -> SUBSET Marks]
      /\ \A m \in Everyone : before[m] \subseteq hasty'[m]
  BY <1>1, <1>3 DEF Marks
<1>6. Leaves(n) => hasty'[n] # {}
  BY <1>2, <1>3, <1>5
<1>7. ASSUME NEW x \in PPs, st[x].job = "join" PROVE hasty'[n] # {} /\ hasty'[st[x].who] # {}
  <2>1. st[x].who \in others /\ st[x].who \in Everyone
    BY <1>4, <1>7
  <2> QED BY <1>1, <1>2, <2>1
<1> QED BY <1>3, <1>5, <1>6, <1>7

LEMMA JoinTypes ==
  ASSUME TypeInv, NEW q \in PPs, (\E n \in Newcomers : Join(q, n)) \/ Joins(q)
  PROVE  /\ TypeInv' /\ st' \in [PPs -> Jobs] /\ Others(q) /\ st'[q].job # "save" /\ st'[q].job # "leave"
         /\ look' = look /\ slot' = slot /\ sent' = sent /\ odd' = odd
         /\ nevent' \in Nat /\ nevent <= nevent'
         /\ \A p \in Everyone : hasty[p] \subseteq hasty'[p]
<1>1. st' \in [PPs -> Jobs] /\ Others(q) /\ st'[q].job # "save" /\ st'[q].job # "leave"
  <2>1. CASE \E n \in Newcomers : Join(q, n)
    <3>1. \A t \in JoinJobs : t.job = "join"
      BY JoinTodos
    <3> QED BY <2>1, <3>1, JoinMoves
  <2>2. CASE Joins(q)
    <3>1. Moves(q) /\ st[q].job = "join"
      BY <2>2, JoinsMove
    <3> QED BY <3>1 DEF Moves, KeepsJob
  <2> QED BY <2>1, <2>2
<1>2. /\ look' = look /\ slot' = slot /\ sent' = sent /\ odd' = odd
      /\ (nevent' = nevent \/ nevent' = nevent + 1)
  <2>1. ASSUME NEW n \in Newcomers, Join(q, n)
        PROVE  /\ look' = look /\ slot' = slot /\ sent' = sent /\ odd' = odd /\ nevent' = nevent
    BY <2>1 DEF Join, data
  <2> QED BY <2>1 DEF Joins, NewUin, TableExists, NewUin2, CreateTable, Insert, JoinFails, Welcome, data, past, Event
<1>3. nevent' \in Nat /\ nevent <= nevent'
  BY <1>2 DEF TypeInv
<1>4. rows' \in [Uins -> Rows] /\ pending' \in [made : BOOLEAN, in : SUBSET [uin : Uins, who : Newcomers]]
  <2>1. rows \in [Uins -> Rows] /\ pending \in [made : BOOLEAN, in : SUBSET [uin : Uins, who : Newcomers]]
    BY DEF TypeInv
  <2>2. CASE Insert(q)
    <3> DEFINE t == st[q]  e == [uin |-> t.uin, who |-> t.who]
    <3>1. t.uin \in Uins /\ t.who \in Newcomers /\ t.who \in Everyone
      BY <2>2, InsertMoves, JoinTodos DEF Everyone
    <3>2. Fresh(t.who) \in Rows
      BY <3>1, FreshIs, RowsAreRows DEF TypeInv
    <3>3. rows' = rows \/ rows' = [rows EXCEPT ![t.uin] = Fresh(t.who)]
      BY <2>2 DEF Insert
    <3>4. pending' = pending \/ pending' = [pending EXCEPT !.in = @ \cup {e}]
      BY <2>2 DEF Insert
    <3>5. e \in [uin : Uins, who : Newcomers]
      BY <3>1
    <3> HIDE DEF e, t
    <3> QED BY <2>1, <3>1, <3>2, <3>3, <3>4, <3>5
  <2>3. CASE CreateTable(q)
    BY <2>1, <2>3 DEF CreateTable
  <2>4. CASE ~Insert(q) /\ ~CreateTable(q)
    <3>1. rows' = rows /\ pending' = pending
      BY <2>4 DEF Join, Joins, NewUin, TableExists, NewUin2, JoinFails, Welcome, data
    <3> QED BY <2>1, <3>1
  <2> QED BY <2>2, <2>3, <2>4
<1>5. number' \in [Everyone -> Uins]
  <2>1. CASE Welcome(q)
    <3>1. st[q].who \in Everyone /\ st[q].uin \in Uins
      BY <2>1, WelcomeMoves, JoinTodos DEF Everyone
    <3> QED BY <2>1, <3>1 DEF Welcome, TypeInv
  <2>2. CASE ~Welcome(q)
    <3>1. number' = number
      BY <2>2 DEF Join, Joins, NewUin, TableExists, NewUin2, CreateTable, Insert, JoinFails, past
    <3> QED BY <3>1 DEF TypeInv
  <2> QED BY <2>1, <2>2
<1>6. /\ hasty' \in [Everyone -> SUBSET Marks]
      /\ \A p \in Everyone : hasty[p] \subseteq hasty'[p]
  <2>1. CASE \E n \in Newcomers : Join(q, n)
    BY <2>1, RaceIs
  <2>2. CASE JoinFails(q)
    <3>1. st[q].who \in Everyone
      BY <2>2, JoinFailsMoves, JoinTodos DEF Everyone
    <3>2. hasty' = [hasty EXCEPT ![st[q].who] = hasty[st[q].who] \cup {"failed"}]
      BY <2>2 DEF JoinFails
    <3>3. hasty \in [Everyone -> SUBSET Marks]
      BY DEF TypeInv
    <3> QED BY <3>1, <3>2, <3>3 DEF Marks
  <2>3. CASE ~JoinFails(q) /\ Joins(q)
    <3>1. hasty' = hasty
      BY <2>3 DEF Joins, NewUin, TableExists, NewUin2, CreateTable, Insert, Welcome, past
    <3> QED BY <3>1 DEF TypeInv
  <2> QED BY <2>1, <2>2, <2>3
<1>7. told' \in [Everyone -> [look -> 0 .. Len(sent)]]
  <2>1. told' = told \/ told' = [told EXCEPT ![st[q].who] = [f \in look |-> 0]]
    BY DEF Join, Joins, NewUin, TableExists, NewUin2, CreateTable, Insert, JoinFails, Welcome, past
  <2>2. told \in [Everyone -> [look -> 0 .. Len(sent)]] /\ Len(sent) \in Nat
    BY DEF TypeInv
  <2>3. [f \in look |-> 0] \in [look -> 0 .. Len(sent)]
    BY <2>2
  <2> QED BY <2>1, <2>2, <2>3
<1>8. TypeInv'
  <2>1. /\ sent \in Seq(Requests)
        /\ slot \in [Slots -> Places] /\ odd \in [Uins -> SUBSET {"place", "reused"}]
    BY DEF TypeInv, Requests
  <2> QED BY <1>1, <1>2, <1>3, <1>4, <1>5, <1>6, <1>7, <2>1, TypesStay
<1> QED BY <1>1, <1>2, <1>3, <1>6, <1>8

\* Sessions that begin and end.
LEMMA SessionTypes ==
  ASSUME TypeInv, (\E p \in Everyone : Login(p)) \/ (\E s \in Slots : Logoff(s))
  PROVE  /\ TypeInv' /\ look' = look /\ rows' = rows /\ pending' = pending /\ st' = st /\ sent' = sent
         /\ number' = number /\ odd' = odd /\ hasty' = hasty /\ nevent' = nevent + 1 /\ nevent \in Nat
         /\ \E s \in Slots : \/ slot' = [slot EXCEPT ![s] = Free]
                             \/ \E x \in Places : x # Free /\ x.nr = nevent + 1 /\ slot' = [slot EXCEPT ![s] = x]
<1>1. /\ look' = look /\ rows' = rows /\ pending' = pending /\ st' = st /\ sent' = sent /\ told' = told
      /\ number' = number /\ odd' = odd /\ hasty' = hasty /\ nevent' = nevent + 1
  BY DEF Login, Logoff, data, past, Event
<1>2. nevent \in Nat
  BY DEF TypeInv
<1>3. \E s \in Slots : \/ slot' = [slot EXCEPT ![s] = Free]
                       \/ \E x \in Places : x # Free /\ x.nr = nevent + 1 /\ slot' = [slot EXCEPT ![s] = x]
  <2>1. CASE \E s \in Slots : Logoff(s)
    BY <2>1 DEF Logoff
  <2>2. ASSUME NEW p \in Everyone, Login(p)
        PROVE  \E s \in Slots, x \in Places : x # Free /\ x.nr = nevent + 1 /\ slot' = [slot EXCEPT ![s] = x]
    <3>1. PICK proto \in {"v3", "v5", "v7"}, s \in Slots : slot' = [slot EXCEPT ![s] = Session(p, nevent + 1, number[p], proto)]
      BY <2>2 DEF Login
    <3> DEFINE x == Session(p, nevent + 1, number[p], proto)
    <3>2. number[p] \in Uins
      BY DEF TypeInv
    <3>3. x \in [who : Everyone, nr : Int, uin : Uins, proto : {"v3", "v5", "v7"}] /\ x.nr = nevent + 1
      BY <1>2, <3>2 DEF Session
    <3>4. x # Free
      BY <1>2, <3>3 DEF Free
    <3>5. x \in Places
      BY <3>3 DEF Places
    <3> HIDE DEF x
    <3> QED BY <3>1, <3>3, <3>4, <3>5 DEF x
  <2> QED BY <2>1, <2>2
<1>4. slot' \in [Slots -> Places]
  <2>1. Free \in Places
    BY DEF Places
  <2> QED BY <1>3, <2>1 DEF TypeInv
<1>5. TypeInv'
  <2>1. /\ rows \in [Uins -> Rows] /\ pending \in [made : BOOLEAN, in : SUBSET [uin : Uins, who : Newcomers]]
        /\ st \in [PPs -> Jobs] /\ sent \in Seq(Requests) /\ told \in [Everyone -> [look -> 0 .. Len(sent)]]
        /\ number \in [Everyone -> Uins] /\ odd \in [Uins -> SUBSET {"place", "reused"}]
        /\ hasty \in [Everyone -> SUBSET Marks]
    BY DEF TypeInv, Requests
  <2> QED BY <1>1, <1>2, <1>4, <2>1, TypesStay
<1> QED BY <1>1, <1>2, <1>3, <1>5

----------------------------------------------------------------------------
(* SavesInv is inductive *)

LEMMA SentStays ==
  ASSUME TypeInv, sent' = sent
  PROVE  SentGrows
<1>1. sent \in Seq(Requests)
  BY DEF TypeInv, Requests
<1>2. Len(sent) \in Nat
  BY <1>1
<1> QED BY <1>1, <1>2 DEF SentGrows

\* Handlers that go on as before.
SavesAsBefore(x) == st'[x].job = "save" =>
  /\ st[x].job = "save" /\ st'[x].n = st[x].n /\ st'[x].who = st[x].who
  /\ \A c \in look : IsSent(st[x].base[c]) => IsSent(st'[x].base[c])

LEMMA SavesStay ==
  ASSUME TypeInv, SavesInv, look' = look, SentGrows,
         \A u \in Uins : rows'[u] # NoRow => \A c \in look :
           IsSent(rows'[u].val[c]) \/ (rows[u] # NoRow /\ rows'[u].val[c] = rows[u].val[c]),
         \A x \in PPs : \/ SavesAsBefore(x)
                        \/ /\ st'[x].n \in 1 .. Len(sent') /\ sent'[st'[x].n].who = st'[x].who
                           /\ \A c \in look : IsSent(st'[x].base[c])
  PROVE  SavesInv'
<1>1. Len(sent) \in Nat /\ Len(sent') \in Nat /\ Len(sent) <= Len(sent')
  BY DEF SentGrows, TypeInv
<1>2. \A v : IsSent(v) => v.nr \in -1 .. Len(sent')
  BY <1>1 DEF IsSent
<1>3. ASSUME NEW u \in Uins, rows'[u] # NoRow, NEW c \in look PROVE rows'[u].val[c].nr \in -1 .. Len(sent')
  BY <1>2, <1>3 DEF SavesInv, Known
<1>4. ASSUME NEW x \in PPs, st'[x].job = "save"
      PROVE  /\ st'[x].n \in 1 .. Len(sent') /\ sent'[st'[x].n].who = st'[x].who
             /\ \A c \in look : st'[x].base[c].nr \in -1 .. Len(sent')
  <2>1. CASE SavesAsBefore(x)
    <3>1. /\ st[x].job = "save" /\ st'[x].n = st[x].n /\ st'[x].who = st[x].who
          /\ \A c \in look : IsSent(st[x].base[c]) => IsSent(st'[x].base[c])
      BY <1>4, <2>1 DEF SavesAsBefore
    <3>2. st[x].n \in 1 .. Len(sent) /\ sent[st[x].n].who = st[x].who /\ \A c \in look : IsSent(st[x].base[c])
      BY <3>1 DEF SavesInv
    <3>3. st[x].n \in 1 .. Len(sent') /\ sent'[st[x].n] = sent[st[x].n]
      BY <1>1, <3>2 DEF SentGrows
    <3> QED BY <1>2, <3>1, <3>2, <3>3
  <2>2. CASE ~SavesAsBefore(x)
    BY <1>2, <2>2
  <2> QED BY <2>1, <2>2
<1> QED BY <1>3, <1>4 DEF SavesInv, IsSent, Known

LEMMA OthersSave ==
  ASSUME NEW q \in PPs, Others(q)
  PROVE  \A x \in PPs : x # q => SavesAsBefore(x)
BY DEF Others, SavesAsBefore

LEMMA RequestSaves ==
  ASSUME TypeInv, SavesInv, NEW q \in PPs, Begins(q), look' = look, rows' = rows
  PROVE  SavesInv'
<1>1. SentGrows
  BY DEF Begins
<1>2. \A u \in Uins : rows'[u] # NoRow => \A c \in look :
           IsSent(rows'[u].val[c]) \/ (rows[u] # NoRow /\ rows'[u].val[c] = rows[u].val[c])
  OBVIOUS
<1>3. CASE st' = st
  <2>1. \A x \in PPs : SavesAsBefore(x)
    BY <1>3 DEF SavesAsBefore
  <2> QED BY <1>1, <1>2, <2>1, SavesStay
<1>4. ASSUME NEW n \in 1 .. Len(sent'), NEW s \in Slots, sent'[n].who = slot[s].who,
             Starts(q, n, slot[s].who, s, sent'[n].h)
      PROVE  SavesInv'
  <2>1. Others(q) /\ st'[q].n = n /\ st'[q].who = slot[s].who /\ \A c \in look : st'[q].base[c] = NoValue(Empty)
    BY <1>4 DEF Starts
  <2>2. IsSent(NoValue(Empty))
    <3>1. Len(sent) \in Nat
      BY DEF TypeInv
    <3> QED BY <3>1 DEF IsSent, NoValue, Value
  <2>3. /\ st'[q].n \in 1 .. Len(sent') /\ sent'[st'[q].n].who = st'[q].who
        /\ \A c \in look : IsSent(st'[q].base[c])
    BY <1>4, <2>1, <2>2
  <2> QED BY <1>1, <1>2, <2>1, <2>3, OthersSave, SavesStay
<1> QED BY <1>3, <1>4 DEF Begins

LEMMA WorkSaves ==
  ASSUME TypeInv, SavesInv, NEW q \in PPs, Works(q)
  PROVE  SavesInv'
<1>1. Moves(q) /\ st[q] \in SaveJobs /\ st[q].job = "save" /\ look' = look /\ sent' = sent
  BY WorkTypes
<1>2. SentGrows
  BY <1>1, SentStays
<1>3. st[q].n \in 1 .. Len(sent) /\ \A c \in look : IsSent(st[q].base[c])
  BY <1>1 DEF SavesInv
<1>4. Len(sent) \in Nat
  BY DEF TypeInv
<1>5. \A x \in PPs : SavesAsBefore(x)
  <2>1. st'[q].job = "save" => st'[q].n = st[q].n /\ st'[q].who = st[q].who
    BY <1>1 DEF Moves, KeepsJob
  <2>2. st'[q].job = "save" => \A c \in look : IsSent(st'[q].base[c])
    <3>1. CASE KeepsBase(st[q], st'[q])
      BY <1>3, <3>1 DEF KeepsBase
    <3>2. CASE Read(q) /\ Known(Uin(q)) /\ (st'[q].job = "save" => st'[q].base = rows[Uin(q)].val)
      <4>1. Uin(q) \in Uins
        BY <1>1, UinIs
      <4> QED BY <3>2, <4>1 DEF SavesInv
    <3> QED BY <3>1, <3>2, ReadMoves, WriteMoves, FailMoves, AnswerMoves DEF Works
  <2> QED BY <1>1, <2>1, <2>2, OthersSave DEF SavesAsBefore, Moves
<1>6. ASSUME NEW u \in Uins, rows'[u] # NoRow, NEW c \in look
      PROVE  IsSent(rows'[u].val[c]) \/ (rows[u] # NoRow /\ rows'[u].val[c] = rows[u].val[c])
  <2>1. CASE rows' = rows
    BY <1>6, <2>1
  <2>2. ASSUME NEW new, Known(Uin(q)), Put(q, new),
               \A d \in look \cap DOMAIN new : /\ new[d] \in Values
                                               /\ \/ \E x : new[d] = NoValue(x)
                                                  \/ new[d] = st[q].base[d]
                                                  \/ \E f : new[d] = Value(st[q].n, f)
        PROVE  IsSent(rows'[u].val[c]) \/ (rows[u] # NoRow /\ rows'[u].val[c] = rows[u].val[c])
    <3>1. /\ rows'[u] = NoRow <=> rows[u] = NoRow
          /\ u # Uin(q) => rows'[u] = rows[u]
          /\ u = Uin(q) => rows'[u].val[c] = IF c \in DOMAIN new THEN new[c] ELSE rows[u].val[c]
      BY <1>1, <2>2, PutIs
    <3>2. CASE u = Uin(q) /\ c \in DOMAIN new
      <4>1. rows'[u].val[c] = new[c]
        BY <3>1, <3>2
      <4>2. \A x : IsSent(NoValue(x)) /\ IsSent(Value(st[q].n, x))
        BY <1>3, <1>4 DEF IsSent, NoValue, Value
      <4>3. IsSent(new[c])
        BY <1>3, <2>2, <3>2, <4>2
      <4> QED BY <4>1, <4>3
    <3>3. CASE ~(u = Uin(q) /\ c \in DOMAIN new)
      BY <1>6, <3>1, <3>3
    <3> QED BY <3>2, <3>3
  <2>3. CASE SaveAbout(q) \/ Write(q)
    BY <2>1, <2>2, <2>3, WriteMoves
  <2>4. CASE Read(q) \/ Fail(q) \/ Answer(q)
    <3>1. rows' = rows
      BY <2>4 DEF Read, Fail, Answer, data
    <3> QED BY <2>1, <3>1
  <2> QED BY <2>3, <2>4 DEF Works
<1> QED BY <1>1, <1>2, <1>5, <1>6, SavesStay

\* Those who leave, those who join and sessions leave the handlers alone.
NoSaves(q) == Others(q) /\ st'[q].job # "save"

LEMMA LeaveSaves ==
  ASSUME TypeInv, SavesInv, NEW q \in PPs,
         \/ \E s \in Slots : Leave(q, s)
         \/ Delete(q) \/ DeleteFails(q) \/ Goodbye(q)
  PROVE  SavesInv' /\ NoSaves(q)
<1>1. NoSaves(q) /\ look' = look /\ SentGrows
  BY LeaveTypes, SentStays DEF NoSaves
<1>2. \A x \in PPs : SavesAsBefore(x)
  BY <1>1, OthersSave DEF NoSaves, SavesAsBefore
<1>3. ASSUME NEW u \in Uins, rows'[u] # NoRow PROVE rows'[u] = rows[u]
  <2>1. CASE Delete(q)
    <3>1. rows' = rows \/ rows' = [rows EXCEPT ![st[q].uin] = NoRow]
      BY <2>1 DEF Delete
    <3> QED BY <1>3, <3>1 DEF TypeInv
  <2>2. CASE ~Delete(q)
    BY <2>2 DEF Leave, DeleteFails, Goodbye, data
  <2> QED BY <2>1, <2>2
<1>4. \A u \in Uins : rows'[u] # NoRow => \A c \in look :
           IsSent(rows'[u].val[c]) \/ (rows[u] # NoRow /\ rows'[u].val[c] = rows[u].val[c])
  BY <1>3
<1> QED BY <1>1, <1>2, <1>4, SavesStay

\* Who joins: a row that was not there is as registered.
LEMMA JoinRows ==
  ASSUME TypeInv, NEW q \in PPs, (\E n \in Newcomers : Join(q, n)) \/ Joins(q), NEW u \in Uins, rows'[u] # NoRow
  PROVE  rows'[u] = rows[u] \/ \E p \in Everyone : rows'[u] = Fresh(p)
<1>1. CASE Insert(q)
  <2>1. rows' = rows \/ rows' = [rows EXCEPT ![st[q].uin] = Fresh(st[q].who)]
    BY <1>1 DEF Insert
  <2>2. st[q].who \in Everyone
    BY <1>1, InsertMoves, JoinTodos DEF Everyone
  <2> QED BY <2>1, <2>2 DEF TypeInv
<1>2. CASE ~Insert(q)
  <2>1. rows' = rows
    BY <1>2 DEF Join, Joins, NewUin, TableExists, NewUin2, CreateTable, JoinFails, Welcome, data
  <2> QED BY <2>1
<1> QED BY <1>1, <1>2

LEMMA JoinSaves ==
  ASSUME TypeInv, SavesInv, NEW q \in PPs, (\E n \in Newcomers : Join(q, n)) \/ Joins(q)
  PROVE  SavesInv' /\ NoSaves(q)
<1>1. NoSaves(q) /\ look' = look /\ SentGrows
  BY JoinTypes, SentStays DEF NoSaves
<1>2. \A x \in PPs : SavesAsBefore(x)
  BY <1>1, OthersSave DEF NoSaves, SavesAsBefore
<1>3. ASSUME NEW u \in Uins, rows'[u] # NoRow, NEW c \in look
      PROVE  IsSent(rows'[u].val[c]) \/ (rows[u] # NoRow /\ rows'[u].val[c] = rows[u].val[c])
  <2>1. \A p \in Everyone : IsSent(Fresh(p).val[c])
    <3>1. \A p \in Everyone : Fresh(p).val[c] = Value(0, c)
      BY FreshIs DEF TypeInv
    <3>2. Len(sent) \in Nat
      BY DEF TypeInv
    <3>3. IsSent(Value(0, c))
      BY <3>2 DEF IsSent, Value
    <3> QED BY <3>1, <3>3
  <2> QED BY <1>3, <2>1, JoinRows
<1> QED BY <1>1, <1>2, <1>3, SavesStay

LEMMA SessionSaves ==
  ASSUME TypeInv, SavesInv, look' = look, rows' = rows, st' = st, sent' = sent
  PROVE  SavesInv'
BY DEF SavesInv, IsSent, Known

----------------------------------------------------------------------------
(* SessionsInv is inductive *)

LEMMA NrsAre ==
  ASSUME TypeInv
  PROVE  /\ nevent \in Nat /\ \A x : IsNr(x) => x \in Int /\ x # 0 /\ x # nevent + 1 /\ x <= nevent
         /\ \A s \in Slots : IsNr(slot[s].nr) => slot[s] # Free
<1>1. nevent \in Nat
  BY DEF TypeInv
<1>2. ASSUME NEW x, IsNr(x) PROVE x \in Int /\ x # 0 /\ x # nevent + 1 /\ x <= nevent
  BY <1>1, <1>2 DEF IsNr
<1>3. \A s \in Slots : IsNr(slot[s].nr) => slot[s] # Free
  BY <1>2, PlaceIs
<1> QED BY <1>1, <1>2, <1>3

\* Sessions that stay or end; handlers that go on, or begin in the session of a place.
LEMMA SessionsStay ==
  ASSUME TypeInv, SessionsInv, SentGrows, nevent' \in Nat, nevent <= nevent',
         \A s \in Slots : slot'[s] = slot[s] \/ slot'[s] = Free,
         \A x \in PPs : st'[x].job = "save" =>
           \/ st[x].job = "save" /\ st'[x].nr = st[x].nr /\ st'[x].slot = st[x].slot /\ st'[x].uin = st[x].uin
           \/ \E s \in Slots : slot[s] # Free /\ st'[x].nr = slot[s].nr /\ st'[x].slot = s /\ st'[x].uin = slot[s].uin
  PROVE  SessionsInv'
<1> DEFINE Nr(x) == x = -1 \/ x \in 1 .. nevent'
<1>1. \A x : IsNr(x) => Nr(x)
  BY NrsAre DEF IsNr
<1>2. ASSUME NEW s \in Slots, NEW x, IsNr(x), slot'[s].nr = x PROVE slot'[s] = slot[s] /\ slot[s].nr = x
  <2>1. x # 0 /\ Free.nr = 0
    BY <1>2, NrsAre DEF Free
  <2> QED BY <1>2, <2>1
<1>3. ASSUME NEW s \in Slots, slot'[s] # Free
      PROVE  Nr(slot'[s].nr) /\ \A k \in Slots : slot'[k].nr = slot'[s].nr => k = s
  <2>1. slot'[s] = slot[s] /\ slot[s] # Free
    BY <1>3
  <2>2. IsNr(slot[s].nr) /\ \A k \in Slots : slot[k].nr = slot[s].nr => k = s
    BY <2>1 DEF SessionsInv
  <2> QED BY <1>1, <1>2, <2>1, <2>2
<1>4. ASSUME NEW i \in 1 .. Len(sent')
      PROVE  Nr(sent'[i].nr) /\ \A s \in Slots : slot'[s].nr = sent'[i].nr => slot'[s].who = sent'[i].who
  <2>1. IsNr(sent'[i].nr) /\ \A s \in Slots : slot[s].nr = sent'[i].nr => slot[s].who = sent'[i].who
    <3>1. CASE i \in 1 .. Len(sent)
      BY <3>1 DEF SentGrows, SessionsInv
    <3>2. CASE i \notin 1 .. Len(sent)
      <4>1. Len(sent) \in Nat /\ Len(sent') \in Nat
        BY DEF SentGrows, TypeInv
      <4>2. i \in Len(sent) + 1 .. Len(sent')
        BY <3>2, <4>1
      <4>3. PICK s \in Slots : slot[s] # Free /\ sent'[i].who = slot[s].who /\ sent'[i].nr = slot[s].nr
        BY <4>2 DEF SentGrows
      <4> QED BY <4>3 DEF SessionsInv
    <3> QED BY <3>1, <3>2
  <2> QED BY <1>1, <1>2, <2>1
<1>5. ASSUME NEW x \in PPs, st'[x].job = "save"
      PROVE  Nr(st'[x].nr) /\ \A s \in Slots : slot'[s].nr = st'[x].nr => s = st'[x].slot /\ slot'[s].uin = st'[x].uin
  <2>1. IsNr(st'[x].nr) /\ \A s \in Slots : slot[s].nr = st'[x].nr => s = st'[x].slot /\ slot[s].uin = st'[x].uin
    BY <1>5 DEF SessionsInv
  <2> QED BY <1>1, <1>2, <2>1
<1> QED BY <1>3, <1>4, <1>5 DEF SessionsInv, IsNr

LEMMA LoginSessions ==
  ASSUME TypeInv, SessionsInv, st' = st, sent' = sent, nevent' = nevent + 1,
         NEW s \in Slots, NEW x \in Places, x # Free, x.nr = nevent + 1, slot' = [slot EXCEPT ![s] = x]
  PROVE  SessionsInv'
<1> DEFINE Nr(y) == y = -1 \/ y \in 1 .. nevent'
<1>1. slot'[s] = x /\ \A k \in Slots : k # s => slot'[k] = slot[k]
  BY DEF TypeInv
<1>2. Nr(x.nr) /\ \A y : IsNr(y) => Nr(y) /\ y # x.nr
  BY NrsAre DEF IsNr
<1>3. ASSUME NEW k \in Slots, NEW y, IsNr(y), slot'[k].nr = y PROVE slot'[k] = slot[k] /\ slot[k].nr = y
  BY <1>1, <1>2, <1>3
<1>4. ASSUME NEW k \in Slots, slot'[k] # Free
      PROVE  Nr(slot'[k].nr) /\ \A j \in Slots : slot'[j].nr = slot'[k].nr => j = k
  <2>1. CASE k = s
    <3>1. \A j \in Slots : j # s => slot[j].nr # x.nr
      <4>1. \A j \in Slots : slot[j] # Free => IsNr(slot[j].nr)
        BY DEF SessionsInv
      <4>2. \A j \in Slots : slot[j] = Free => slot[j].nr = 0
        BY PlaceIs
      <4>3. x.nr # 0
        BY NrsAre
      <4> QED BY <1>2, <4>1, <4>2, <4>3
    <3> QED BY <1>1, <1>2, <2>1, <3>1
  <2>2. CASE k # s
    <3>1. IsNr(slot[k].nr) /\ \A j \in Slots : slot[j].nr = slot[k].nr => j = k
      BY <1>1, <1>4, <2>2 DEF SessionsInv
    <3> QED BY <1>1, <1>2, <1>3, <2>2, <3>1
  <2> QED BY <2>1, <2>2
<1>5. ASSUME NEW i \in 1 .. Len(sent')
      PROVE  Nr(sent'[i].nr) /\ \A k \in Slots : slot'[k].nr = sent'[i].nr => slot'[k].who = sent'[i].who
  BY <1>2, <1>3 DEF SessionsInv
<1>6. ASSUME NEW q \in PPs, st'[q].job = "save"
      PROVE  Nr(st'[q].nr) /\ \A k \in Slots : slot'[k].nr = st'[q].nr => k = st'[q].slot /\ slot'[k].uin = st'[q].uin
  BY <1>2, <1>3, <1>6 DEF SessionsInv
<1> QED BY <1>4, <1>5, <1>6 DEF SessionsInv, IsNr

LEMMA RequestSessions ==
  ASSUME TypeInv, SessionsInv, NEW q \in PPs, Begins(q), nevent' \in Nat, nevent <= nevent'
  PROVE  SessionsInv'
<1>1. \A s \in Slots : slot'[s] = slot[s] \/ slot'[s] = Free
  BY DEF Begins, TypeInv
<1>2. \A x \in PPs : st'[x].job = "save" =>
           \/ st[x].job = "save" /\ st'[x].nr = st[x].nr /\ st'[x].slot = st[x].slot /\ st'[x].uin = st[x].uin
           \/ \E s \in Slots : slot[s] # Free /\ st'[x].nr = slot[s].nr /\ st'[x].slot = s /\ st'[x].uin = slot[s].uin
  BY DEF Begins, Starts, Others
<1> QED BY <1>1, <1>2, SessionsStay DEF Begins

LEMMA WorkSessions ==
  ASSUME TypeInv, SavesInv, SessionsInv, NEW q \in PPs, Works(q)
  PROVE  SessionsInv'
<1>1. Moves(q) /\ slot' = slot /\ SentGrows /\ nevent' \in Nat /\ nevent <= nevent'
  BY WorkTypes, SentStays
<1>2. \A x \in PPs : st'[x].job = "save" =>
        st[x].job = "save" /\ st'[x].nr = st[x].nr /\ st'[x].slot = st[x].slot /\ st'[x].uin = st[x].uin
  BY <1>1 DEF Moves, KeepsJob, Others
<1> QED BY <1>1, <1>2, SessionsStay

LEMMA OtherSessions ==
  ASSUME TypeInv, SessionsInv, NEW q \in PPs, NoSaves(q), slot' = slot, sent' = sent, nevent' \in Nat, nevent <= nevent'
  PROVE  SessionsInv'
<1>1. SentGrows
  BY SentStays
<1>2. \A x \in PPs : st'[x].job = "save" =>
        st[x].job = "save" /\ st'[x].nr = st[x].nr /\ st'[x].slot = st[x].slot /\ st'[x].uin = st[x].uin
  BY DEF NoSaves, Others
<1> QED BY <1>1, <1>2, SessionsStay

LEMMA EndSessions ==
  ASSUME TypeInv, SessionsInv, st' = st, sent' = sent, nevent' = nevent + 1, NEW s \in Slots, slot' = [slot EXCEPT ![s] = Free]
  PROVE  SessionsInv'
<1>1. SentGrows /\ nevent' \in Nat /\ nevent <= nevent' /\ \A k \in Slots : slot'[k] = slot[k] \/ slot'[k] = Free
  BY SentStays DEF TypeInv
<1> QED BY <1>1, SessionsStay

----------------------------------------------------------------------------
(* OwnersInv is inductive *)

SlotsMove == \A s \in Slots : slot'[s] = slot[s] \/ slot'[s] = Free \/ slot'[s].nr = nevent + 1

\* A handler whose place belongs to another session knows it for good.
LEMMA MovedStays ==
  ASSUME TypeInv, SessionsInv, SlotsMove, NEW q \in PPs, st[q].job = "save", Moved(q),
         st'[q].h = st[q].h, st'[q].slot = st[q].slot, st'[q].nr = st[q].nr
  PROVE  st'[q].h.proto = "v7" /\ slot'[st'[q].slot].nr # st'[q].nr
<1>1. st[q] \in SaveJobs
  BY JobIs DEF TypeInv
<1>2. st[q].slot \in Slots
  BY <1>1 DEF SaveJobs
<1>3. IsNr(st[q].nr)
  BY DEF SessionsInv
<1>4. st[q].nr # 0 /\ st[q].nr # nevent + 1 /\ Free.nr = 0
  BY <1>3, NrsAre DEF Free
<1>5. slot[st[q].slot].nr # st[q].nr /\ st[q].h.proto = "v7"
  BY DEF Moved, Same
<1> QED BY <1>2, <1>4, <1>5 DEF SlotsMove

\* Nothing strays: the statement finds the row of the handler's user.
LEMMA AtHome ==
  ASSUME TypeInv, SessionsInv, NEW q \in PPs, st[q] \in SaveJobs, st[q].job = "save", Strays(q, Uin(q)) = {}
  PROVE  Uin(q) = st[q].uin /\ rows[Uin(q)].who = st[q].who /\ ~Moved(q)
<1>1. ~Moved(q)
  BY DEF Strays, Moved
<1>2. Uin(q) = st[q].uin
  <2>1. CASE st[q].h.proto # "v7"
    BY <2>1 DEF Uin
  <2>2. CASE st[q].h.proto = "v7"
    <3>1. slot[st[q].slot].nr = st[q].nr
      BY <1>1, <2>2 DEF Moved, Same
    <3>2. st[q].slot \in Slots
      BY DEF SaveJobs
    <3>3. IsNr(st[q].nr) /\ slot[st[q].slot].uin = st[q].uin
      BY <3>1, <3>2 DEF SessionsInv
    <3>4. slot[st[q].slot] # Free
      BY <3>1, <3>2, <3>3, NrsAre
    <3> QED BY <2>2, <3>3, <3>4 DEF Uin
  <2> QED BY <2>1, <2>2
<1>3. rows[Uin(q)].who = st[q].who
  BY <1>2 DEF Strays
<1> QED BY <1>1, <1>2, <1>3

Strange(v, p) == v.nr > 0 /\ sent'[v.nr].who # p

LEMMA StrangeIs ==
  ASSUME TypeInv, SentGrows, NEW v, IsSent(v), NEW p, Strange(v, p)
  PROVE  Foreign(v, p)
<1>1. Len(sent) \in Nat
  BY DEF TypeInv
<1>2. v.nr \in 1 .. Len(sent)
  BY <1>1 DEF IsSent, Strange
<1> QED BY <1>2 DEF SentGrows, Strange, Foreign

KeepsOwner(x) ==
  /\ st[x].job = "save" /\ st'[x].who = st[x].who /\ st'[x].uin = st[x].uin /\ st'[x].h = st[x].h
  /\ st'[x].slot = st[x].slot /\ st'[x].nr = st[x].nr

LEMMA OwnersStay ==
  ASSUME TypeInv, SavesInv, SessionsInv, OwnersInv, look' = look, SentGrows, SlotsMove, st' \in [PPs -> Jobs],
         \A u \in Uins : odd[u] \subseteq odd'[u],
         \A u \in Uins : rows'[u] # NoRow => \A c \in look :
           \/ rows[u] # NoRow /\ rows'[u].who = rows[u].who /\ rows'[u].val[c] = rows[u].val[c]
           \/ Strange(rows'[u].val[c], rows'[u].who) => odd'[u] # {},
         \A x \in PPs : st'[x].job = "save" =>
           \/ KeepsOwner(x) /\ st'[x].base = st[x].base
           \/ \A c \in look : Strange(st'[x].base[c], st'[x].who) =>
                odd'[st'[x].uin] # {} \/ (st'[x].h.proto = "v7" /\ slot'[st'[x].slot].nr # st'[x].nr)
  PROVE  OwnersInv'
<1>1. ASSUME NEW u \in Uins, rows'[u] # NoRow, NEW c \in look, Strange(rows'[u].val[c], rows'[u].who)
      PROVE  odd'[u] # {}
  <2>1. CASE rows[u] # NoRow /\ rows'[u].who = rows[u].who /\ rows'[u].val[c] = rows[u].val[c]
    <3>1. IsSent(rows[u].val[c])
      BY <2>1 DEF SavesInv, Known
    <3>2. Foreign(rows[u].val[c], rows[u].who)
      BY <1>1, <2>1, <3>1, StrangeIs
    <3>3. odd[u] # {}
      BY <2>1, <3>2 DEF OwnersInv, Known
    <3> QED BY <3>3
  <2>2. CASE Strange(rows'[u].val[c], rows'[u].who) => odd'[u] # {}
    BY <1>1, <2>2
  <2> QED BY <1>1, <2>1, <2>2
<1>2. ASSUME NEW x \in PPs, st'[x].job = "save", NEW c \in look, Strange(st'[x].base[c], st'[x].who)
      PROVE  odd'[st'[x].uin] # {} \/ (st'[x].h.proto = "v7" /\ slot'[st'[x].slot].nr # st'[x].nr)
  <2>1. CASE KeepsOwner(x) /\ st'[x].base = st[x].base
    <3>1. st[x].job = "save" /\ st[x] \in SaveJobs
      BY <2>1, JobIs DEF KeepsOwner, TypeInv
    <3>2. IsSent(st[x].base[c]) /\ st[x].uin \in Uins
      BY <3>1 DEF SavesInv, SaveJobs
    <3>3. Foreign(st[x].base[c], st[x].who)
      BY <1>2, <2>1, <3>2, StrangeIs DEF KeepsOwner
    <3>4. odd[st[x].uin] # {} \/ Moved(x)
      BY <3>1, <3>3 DEF OwnersInv
    <3>5. CASE odd[st[x].uin] # {}
      BY <2>1, <3>2, <3>5 DEF KeepsOwner
    <3>6. CASE Moved(x)
      BY <2>1, <3>1, <3>6, MovedStays DEF KeepsOwner
    <3> QED BY <3>4, <3>5, <3>6
  <2>2. CASE ~(KeepsOwner(x) /\ st'[x].base = st[x].base)
    BY <1>2, <2>2
  <2> QED BY <2>1, <2>2
<1> QED BY <1>1, <1>2 DEF OwnersInv, Foreign, Strange, Known, Moved, Same

LEMMA RequestOwners ==
  ASSUME TypeInv, SavesInv, SessionsInv, OwnersInv, NEW q \in PPs, Begins(q), look' = look, rows' = rows, odd' = odd,
         TypeInv'
  PROVE  OwnersInv'
<1>1. SentGrows /\ SlotsMove /\ st' \in [PPs -> Jobs]
  BY SameTypes DEF Begins, SlotsMove, TypeInv
<1>2. \A u \in Uins : odd[u] \subseteq odd'[u]
  OBVIOUS
<1>3. ASSUME NEW x \in PPs, st'[x].job = "save"
      PROVE  (KeepsOwner(x) /\ st'[x].base = st[x].base) \/ \A c \in look : ~Strange(st'[x].base[c], st'[x].who)
  <2>1. CASE st'[x] = st[x]
    BY <1>3, <2>1 DEF KeepsOwner
  <2>2. CASE st'[x] # st[x]
    <3>1. \A c \in look : st'[x].base[c] = NoValue(Empty)
      BY <2>2 DEF Begins, Starts, Others
    <3>2. ~(NoValue(Empty).nr > 0)
      BY DEF NoValue, Value
    <3> QED BY <3>1, <3>2 DEF Strange
  <2> QED BY <2>1, <2>2
<1> QED BY <1>1, <1>2, <1>3, OwnersStay

\* A statement puts a value into a row that is not its owner's: the row is marked.
LEMMA PutOwners ==
  ASSUME TypeInv, SavesInv, SessionsInv, OwnersInv, NEW q \in PPs, st[q] \in SaveJobs, st[q].job = "save",
         sent' = sent, Known(Uin(q)), NEW v, NEW c \in look,
         (\E x : v = NoValue(x)) \/ v = st[q].base[c] \/ (\E f : v = Value(st[q].n, f)),
         Strange(v, rows[Uin(q)].who)
  PROVE  odd[Uin(q)] \cup Strays(q, Uin(q)) # {}
<1> SUFFICES ASSUME Strays(q, Uin(q)) = {} PROVE odd[Uin(q)] # {}
  OBVIOUS
<1>1. Uin(q) = st[q].uin /\ rows[Uin(q)].who = st[q].who /\ ~Moved(q)
  BY AtHome
<1>2. \A x : ~(NoValue(x).nr > 0)
  BY DEF NoValue, Value
<1>3. \A f : Value(st[q].n, f).nr = st[q].n /\ sent[st[q].n].who = st[q].who
  BY DEF Value, SavesInv
<1>4. v = st[q].base[c]
  BY <1>1, <1>2, <1>3 DEF Strange
<1>5. IsSent(v) /\ SentGrows
  BY <1>4, SentStays DEF SavesInv
<1>6. Foreign(v, st[q].who)
  BY <1>1, <1>5, StrangeIs
<1> QED BY <1>1, <1>4, <1>6 DEF OwnersInv

\* A row is read to be written back.
LEMMA ReadOwners ==
  ASSUME TypeInv, SavesInv, SessionsInv, OwnersInv, NEW q \in PPs, Read(q), Known(Uin(q)), st'[q].job = "save",
         NEW c \in look, Strange(rows[Uin(q)].val[c], st[q].who),
         odd'[Uin(q)] = odd[Uin(q)] \cup Strays(q, Uin(q))
  PROVE  odd'[st'[q].uin] # {} \/ (st'[q].h.proto = "v7" /\ slot'[st'[q].slot].nr # st'[q].nr)
<1> DEFINE u == Uin(q)
<1>1. /\ Moves(q) /\ st[q] \in SaveJobs /\ st[q].job = "save" /\ slot' = slot /\ sent' = sent
      /\ st'[q].uin = st[q].uin /\ st'[q].h = st[q].h /\ st'[q].slot = st[q].slot /\ st'[q].nr = st[q].nr
  BY WorkTypes DEF Works, Moves, KeepsJob
<1>2. u \in Uins
  BY <1>1, UinIs
<1>3. CASE Strays(q, u) = {}
  <2>1. u = st[q].uin /\ rows[u].who = st[q].who
    BY <1>1, <1>3, AtHome
  <2>2. IsSent(rows[u].val[c]) /\ SentGrows
    BY <1>1, <1>2, SentStays DEF SavesInv
  <2>3. Foreign(rows[u].val[c], rows[u].who)
    BY <2>1, <2>2, StrangeIs
  <2>4. odd[u] # {}
    BY <1>2, <2>3 DEF OwnersInv
  <2> QED BY <1>1, <2>1, <2>4
<1>4. CASE Strays(q, u) # {}
  <2>1. Moved(q) \/ u = st[q].uin
    BY <1>4 DEF Strays, Moved
  <2>2. CASE u = st[q].uin
    BY <1>1, <1>4, <2>2
  <2>3. CASE Moved(q)
    BY <1>1, <2>3 DEF Moved, Same
  <2> QED BY <2>1, <2>2, <2>3
<1> QED BY <1>3, <1>4

LEMMA WorkOwners ==
  ASSUME TypeInv, SavesInv, SessionsInv, OwnersInv, NEW q \in PPs, Works(q)
  PROVE  OwnersInv'
<1>1. /\ Moves(q) /\ st[q] \in SaveJobs /\ st[q].job = "save" /\ look' = look /\ sent' = sent /\ slot' = slot
      /\ SentGrows
  BY WorkTypes, SentStays
<1>2. SlotsMove
  BY <1>1 DEF SlotsMove
<1>3. Uin(q) \in Uins
  BY <1>1, UinIs
<1>4. \A x \in PPs : st'[x].job = "save" => KeepsOwner(x)
  BY <1>1 DEF Moves, KeepsJob, Others, KeepsOwner
<1>5. \A x \in PPs : x # q /\ st'[x].job = "save" => KeepsOwner(x) /\ st'[x].base = st[x].base
  BY <1>1, <1>4 DEF Moves, Others
<1>6. CASE Read(q)
  <2>1. rows' = rows /\ \A u \in Uins : odd[u] \subseteq odd'[u]
    BY <1>6, ReadMoves DEF Read, data
  <2>2. st'[q].job = "save" =>
           \/ KeepsOwner(q) /\ st'[q].base = st[q].base
           \/ \A c \in look : Strange(st'[q].base[c], st'[q].who) =>
                odd'[st'[q].uin] # {} \/ (st'[q].h.proto = "v7" /\ slot'[st'[q].slot].nr # st'[q].nr)
    <3>1. CASE KeepsBase(st[q], st'[q])
      BY <1>4, <3>1 DEF KeepsBase
    <3>2. CASE /\ Known(Uin(q)) /\ odd'[Uin(q)] = odd[Uin(q)] \cup Strays(q, Uin(q))
               /\ st'[q].job = "save" => st'[q].base = rows[Uin(q)].val
      <4>1. st'[q].job = "save" => st'[q].who = st[q].who
        BY <1>4 DEF KeepsOwner
      <4> QED BY <1>6, <3>2, <4>1, ReadOwners
    <3> QED BY <1>6, <3>1, <3>2, ReadMoves
  <2>3. \A u \in Uins : rows'[u] # NoRow => \A c \in look :
           rows[u] # NoRow /\ rows'[u].who = rows[u].who /\ rows'[u].val[c] = rows[u].val[c]
    BY <2>1
  <2> QED BY <1>1, <1>2, <1>5, <2>1, <2>2, <2>3, OwnersStay DEF Moves
<1>7. CASE ~Read(q)
  <2>1. \A x \in PPs : st'[x].job = "save" => KeepsOwner(x) /\ st'[x].base = st[x].base
    <3>1. KeepsBase(st[q], st'[q])
      BY <1>7, WriteMoves, FailMoves, AnswerMoves DEF Works
    <3> QED BY <1>4, <1>5, <3>1 DEF KeepsBase
  <2>2. CASE rows' = rows /\ odd' = odd
    <3>1. \A u \in Uins : rows'[u] # NoRow => \A c \in look :
           rows[u] # NoRow /\ rows'[u].who = rows[u].who /\ rows'[u].val[c] = rows[u].val[c]
      BY <2>2
    <3>2. \A u \in Uins : odd[u] \subseteq odd'[u]
      BY <2>2
    <3> QED BY <1>1, <1>2, <2>1, <3>1, <3>2, OwnersStay DEF Moves
  <2>3. ASSUME NEW new, Known(Uin(q)), Put(q, new),
               \A d \in look \cap DOMAIN new : /\ new[d] \in Values
                                               /\ \/ \E x : new[d] = NoValue(x)
                                                  \/ new[d] = st[q].base[d]
                                                  \/ \E f : new[d] = Value(st[q].n, f)
        PROVE  OwnersInv'
    <3>1. /\ \A u \in Uins : rows'[u] = NoRow <=> rows[u] = NoRow
          /\ \A u \in Uins : Known(u) => rows'[u].who = rows[u].who
          /\ \A u \in Uins : u # Uin(q) => rows'[u] = rows[u]
          /\ \A c \in look : rows'[Uin(q)].val[c] = IF c \in DOMAIN new THEN new[c] ELSE rows[Uin(q)].val[c]
          /\ \A u \in Uins : odd'[u] = IF u = Uin(q) THEN odd[u] \cup Strays(q, u) ELSE odd[u]
      BY <1>1, <2>3, PutIs
    <3>2. \A u \in Uins : odd[u] \subseteq odd'[u]
      BY <3>1
    <3>3. ASSUME NEW u \in Uins, rows'[u] # NoRow, NEW c \in look
          PROVE  \/ rows[u] # NoRow /\ rows'[u].who = rows[u].who /\ rows'[u].val[c] = rows[u].val[c]
                 \/ Strange(rows'[u].val[c], rows'[u].who) => odd'[u] # {}
      <4>1. CASE u = Uin(q) /\ c \in DOMAIN new
        <5>1. rows'[u].val[c] = new[c] /\ rows'[u].who = rows[u].who /\ odd'[u] = odd[u] \cup Strays(q, u)
          BY <2>3, <3>1, <4>1
        <5>2. Strange(new[c], rows[u].who) => odd[u] \cup Strays(q, u) # {}
          BY <1>1, <2>3, <4>1, PutOwners
        <5> QED BY <5>1, <5>2
      <4>2. CASE ~(u = Uin(q) /\ c \in DOMAIN new)
        BY <3>1, <3>3, <4>2 DEF Known
      <4> QED BY <4>1, <4>2
    <3> QED BY <1>1, <1>2, <2>1, <3>2, <3>3, OwnersStay DEF Moves
  <2>4. CASE SaveAbout(q) \/ Write(q)
    BY <2>2, <2>3, <2>4, WriteMoves
  <2>5. CASE Fail(q) \/ Answer(q)
    <3>1. rows' = rows /\ odd' = odd
      BY <2>5 DEF Fail, Answer, data
    <3> QED BY <2>2, <3>1
  <2> QED BY <1>7, <2>4, <2>5 DEF Works
<1> QED BY <1>6, <1>7

LEMMA OtherOwners ==
  ASSUME TypeInv, SavesInv, SessionsInv, OwnersInv, look' = look, sent' = sent, odd' = odd, SlotsMove,
         st' \in [PPs -> Jobs], \A x \in PPs : st'[x] = st[x] \/ st'[x].job # "save",
         \A u \in Uins : rows'[u] # NoRow => rows'[u] = rows[u] \/ \E p \in Everyone : rows'[u] = Fresh(p)
  PROVE  OwnersInv'
<1>1. SentGrows
  BY SentStays
<1>2. ASSUME NEW u \in Uins, rows'[u] # NoRow, NEW c \in look
      PROVE  \/ rows[u] # NoRow /\ rows'[u].who = rows[u].who /\ rows'[u].val[c] = rows[u].val[c]
             \/ Strange(rows'[u].val[c], rows'[u].who) => odd'[u] # {}
  <2>1. CASE rows'[u] = rows[u]
    BY <1>2, <2>1
  <2>2. ASSUME NEW p \in Everyone, rows'[u] = Fresh(p) PROVE ~Strange(rows'[u].val[c], rows'[u].who)
    <3>1. rows'[u].val[c] = Value(0, c)
      BY <2>2, FreshIs DEF TypeInv
    <3> QED BY <3>1 DEF Strange, Value
  <2> QED BY <1>2, <2>1, <2>2
<1>3. \A x \in PPs : st'[x].job = "save" => KeepsOwner(x) /\ st'[x].base = st[x].base
  BY DEF KeepsOwner
<1>4. \A u \in Uins : odd[u] \subseteq odd'[u]
  OBVIOUS
<1> QED BY <1>1, <1>2, <1>3, <1>4, OwnersStay

LEMMA LeaveOwners ==
  ASSUME TypeInv, SavesInv, SessionsInv, OwnersInv, NEW q \in PPs,
         \/ \E s \in Slots : Leave(q, s)
         \/ Delete(q) \/ DeleteFails(q) \/ Goodbye(q)
  PROVE  OwnersInv'
<1>1. /\ look' = look /\ sent' = sent /\ odd' = odd /\ slot' = slot
      /\ st' \in [PPs -> Jobs] /\ \A x \in PPs : st'[x] = st[x] \/ st'[x].job # "save"
  BY LeaveTypes DEF Others
<1>2. SlotsMove
  BY <1>1 DEF SlotsMove
<1>3. \A u \in Uins : rows'[u] # NoRow => rows'[u] = rows[u]
  <2>1. CASE Delete(q)
    <3>1. rows' = rows \/ rows' = [rows EXCEPT ![st[q].uin] = NoRow]
      BY <2>1 DEF Delete
    <3> QED BY <3>1 DEF TypeInv
  <2>2. CASE ~Delete(q)
    BY <2>2 DEF Leave, DeleteFails, Goodbye, data
  <2> QED BY <2>1, <2>2
<1> QED BY <1>1, <1>2, <1>3, OtherOwners

LEMMA JoinOwners ==
  ASSUME TypeInv, SavesInv, SessionsInv, OwnersInv, NEW q \in PPs, (\E n \in Newcomers : Join(q, n)) \/ Joins(q)
  PROVE  OwnersInv'
<1>1. /\ look' = look /\ sent' = sent /\ odd' = odd /\ slot' = slot
      /\ st' \in [PPs -> Jobs] /\ \A x \in PPs : st'[x] = st[x] \/ st'[x].job # "save"
  BY JoinTypes DEF Others
<1>2. SlotsMove
  BY <1>1 DEF SlotsMove
<1>3. \A u \in Uins : rows'[u] # NoRow => rows'[u] = rows[u] \/ \E p \in Everyone : rows'[u] = Fresh(p)
  BY JoinRows
<1> QED BY <1>1, <1>2, <1>3, OtherOwners

LEMMA SessionOwners ==
  ASSUME TypeInv, SavesInv, SessionsInv, OwnersInv, (\E p \in Everyone : Login(p)) \/ (\E s \in Slots : Logoff(s))
  PROVE  OwnersInv'
<1>1. /\ look' = look /\ rows' = rows /\ st' = st /\ sent' = sent /\ odd' = odd /\ st' \in [PPs -> Jobs]
      /\ \E s \in Slots : \/ slot' = [slot EXCEPT ![s] = Free]
                          \/ \E x \in Places : x # Free /\ x.nr = nevent + 1 /\ slot' = [slot EXCEPT ![s] = x]
  BY SessionTypes DEF TypeInv
<1>2. SlotsMove
  BY <1>1 DEF SlotsMove, TypeInv
<1> QED BY <1>1, <1>2, OtherOwners

----------------------------------------------------------------------------
(* JoinInv and NumbersInv are inductive *)

LEMMA JoinersAre ==
  ASSUME TypeInv, NEW q \in PPs, st[q].job = "join"
  PROVE  st[q] \in JoinJobs /\ st[q].who \in Newcomers /\ st[q].who \in Everyone /\ st[q].uin \in Uins /\ st[q].way \in Ways
<1>1. st[q] \in JoinJobs
  BY JobIs DEF TypeInv
<1> QED BY <1>1, JoinTodos DEF Everyone

\* What a step must keep for those who have their number.
LEMMA NumbersStay ==
  ASSUME TypeInv, NumbersInv,
         \A n \in Everyone : number'[n] # 0 /\ hasty'[n] = {} => number[n] = number'[n] /\ hasty[n] = {},
         \A n \in Everyone : Deleted(n) /\ number'[n] # 0 => Deleted(n)',
         \A n \in Everyone, u \in Uins : hasty'[n] = {} /\ u = number[n] /\ Placed(n, u) => Placed(n, u)' \/ Deleted(n)'
  PROVE  NumbersInv'
<1>1. ASSUME NEW n \in Everyone, Told(n)'
      PROVE  Told(n) /\ number[n] = number'[n] /\ number[n] \in Uins
  BY <1>1 DEF Told, TypeInv
<1>2. ASSUME NEW n \in Everyone, Told(n)'
      PROVE  Placed(n, number[n])' \/ Deleted(n)'
  <2> DEFINE u == number[n]
  <2>1. Told(n) /\ u = number'[n] /\ u \in Uins /\ number'[n] # 0 /\ hasty'[n] = {}
    BY <1>1, <1>2 DEF Told
  <2>2. Placed(n, u) \/ Deleted(n)
    BY <2>1 DEF NumbersInv
  <2>3. PICK v \in Uins : v = u /\ v = number'[n]
    BY <2>1
  <2>4. Placed(n, v)' \/ Deleted(n)'
    BY <2>1, <2>2, <2>3
  <2> QED BY <2>3, <2>4 DEF Placed, Known
<1>3. ASSUME NEW n \in Everyone, NEW m \in Everyone, n # m, Told(n)', Told(m)', number'[n] = number'[m]
      PROVE  Deleted(n)' \/ Deleted(m)'
  <2>1. Told(n) /\ Told(m) /\ number[n] = number[m] /\ number'[n] # 0 /\ number'[m] # 0
    BY <1>1, <1>3 DEF Told
  <2>2. Deleted(n) \/ Deleted(m)
    BY <1>3, <2>1 DEF NumbersInv
  <2> QED BY <2>1, <2>2
<1> QED BY <1>2, <1>3 DEF NumbersInv

\* A newcomer who is not at work in this step.
LEMMA AloneStays ==
  ASSUME TypeInv, NEW q \in PPs, st[q].job = "join", st'[q] = st[q], Alone(q), pending' = pending,
         number'[st[q].who] = number[st[q].who], ~Leaves(st[q].who)',
         \A x \in PPs : st'[x].job = "join" => st[x].job = "join",
         \A u \in Uins : rows'[u] # NoRow => rows[u] # NoRow /\ rows'[u].who = rows[u].who,
         \A u \in Uins : rows[u] # NoRow /\ rows[u].who = st[q].who => rows'[u] # NoRow
  PROVE  Alone(q)'
<1> DEFINE n == st[q].who  v == st[q].uin
<1>1. v \in Uins /\ n \in Everyone
  BY JoinersAre
<1>2. number'[n] = 0 /\ \A x \in PPs : st'[x].job = "join" => x = q
  BY DEF Alone
<1>3. st[q].todo \in {WExists, WMax2, WCreate, WInsert} => \A u \in Uins : rows'[u] # NoRow => u < v
  BY DEF Alone, Known
<1>4. st[q].todo \in {WCreate, WInsert} => \A e \in pending'.in : e.uin < v
  BY DEF Alone
<1>5. (st[q].todo = WMax2 \/ (st[q].todo = WInsert /\ st[q].way.byhand)) => pending'.made
  BY DEF Alone
<1>6. ASSUME st[q].todo = <<"welcome">>
      PROVE  /\ (rows'[v] # NoRow /\ rows'[v].who = n) \/ [uin |-> v, who |-> n] \in pending'.in
             /\ rows'[v] # NoRow => rows'[v].who = n
             /\ \A e \in pending'.in : e.uin = v => e.who = n
  BY <1>1, <1>6 DEF Alone, Placed, Known
<1> QED BY <1>2, <1>3, <1>4, <1>5, <1>6 DEF Alone, Placed, Known

\* Steps that concern neither those who join nor those who leave.
NoJoins ==
  /\ \A x \in PPs : st'[x] = st[x] \/ (st[x].job \notin {"join", "leave"} /\ st'[x].job \notin {"join", "leave"})
  /\ \A u \in Uins : rows'[u] = NoRow <=> rows[u] = NoRow
  /\ \A u \in Uins : Known(u) => rows'[u].who = rows[u].who
  /\ pending' = pending /\ number' = number /\ hasty' = hasty

LEMMA NoJoinsStay ==
  ASSUME TypeInv, JoinInv, NumbersInv, NoJoins
  PROVE  JoinInv' /\ NumbersInv'
<1>1. /\ \A x \in PPs : st'[x].job \in {"join", "leave"} => st'[x] = st[x]
      /\ \A x \in PPs : st[x].job \in {"join", "leave"} => st'[x] = st[x]
      /\ \A u \in Uins : rows'[u] # NoRow => rows[u] # NoRow /\ rows'[u].who = rows[u].who
      /\ \A u \in Uins : rows[u] # NoRow => rows'[u] # NoRow
      /\ pending' = pending /\ number' = number /\ hasty' = hasty
  BY DEF NoJoins, Known
<1>2. ASSUME NEW q \in PPs, st'[q].job = "join", hasty'[st'[q].who] = {} PROVE Alone(q)'
  <2>1. st'[q] = st[q] /\ st[q].job = "join" /\ hasty[st[q].who] = {}
    BY <1>1, <1>2
  <2>2. Alone(q)
    BY <2>1 DEF JoinInv
  <2>3. ~Leaves(st[q].who)'
    BY <1>1, <2>1, <2>2 DEF Alone, Leaves
  <2>4. \A x \in PPs : st'[x].job = "join" => st[x].job = "join"
    BY <1>1
  <2> QED BY <1>1, <2>1, <2>2, <2>3, <2>4, AloneStays
<1>3. JoinInv'
  BY <1>1, <1>2 DEF JoinInv
<1>4. \A n \in Everyone : Deleted(n) => Deleted(n)'
  BY <1>1 DEF Deleted
<1>5. \A n \in Everyone, u \in Uins : Placed(n, u) => Placed(n, u)'
  BY <1>1 DEF Placed, Known
<1>6. NumbersInv'
  BY <1>1, <1>4, <1>5, NumbersStay
<1> QED BY <1>3, <1>6

\* The steps of those who leave: nobody who leaves joins without a mark, and a
\* user whose row is removed asked for it or is marked.
LEMMA LeaveStays ==
  ASSUME TypeInv, JoinInv, NumbersInv, NEW q \in PPs, st[q] = Idle, NEW s \in Slots, Leave(q, s)
  PROVE  JoinInv' /\ NumbersInv'
<1> DEFINE p == slot[s].who
<1>1. /\ st' \in [PPs -> Jobs] /\ Others(q) /\ st'[q].job = "leave" /\ st'[q].who = p /\ p \in Everyone
      /\ st[q].job = "idle"
  BY LeaveMoves, IdleIs
<1>2. /\ rows' = rows /\ pending' = pending /\ number' = number
      /\ hasty' = IF Joining(p) THEN Crossed(p) ELSE hasty
  BY DEF Leave, data
<1>3. hasty \in [Everyone -> SUBSET Marks]
  BY DEF TypeInv
<1>4. \A m \in Everyone : hasty[m] \subseteq hasty'[m]
  BY <1>1, <1>2, <1>3, CrossedIs
<1>5. ASSUME NEW x \in PPs, st'[x].job = "join", hasty'[st'[x].who] = {} PROVE Alone(x)'
  <2>1. x # q /\ st'[x] = st[x] /\ st[x].job = "join"
    BY <1>1, <1>5 DEF Others
  <2>2. st[x].who \in Everyone
    BY <2>1, JoinersAre
  <2>3. hasty[st[x].who] = {}
    BY <1>4, <1>5, <2>1, <2>2
  <2>4. Alone(x)
    BY <2>1, <2>3 DEF JoinInv
  <2>5. st[x].who # p
    <3>1. SUFFICES ASSUME st[x].who = p PROVE FALSE
      OBVIOUS
    <3>2. Joining(p)
      BY <2>1, <3>1 DEF Joining
    <3> QED BY <1>1, <1>2, <1>3, <1>5, <2>1, <3>1, <3>2, CrossedIs
  <2>6. ~Leaves(st[x].who)'
    BY <1>1, <2>1, <2>4, <2>5 DEF Alone, Leaves, Others
  <2>7. \A y \in PPs : st'[y].job = "join" => st[y].job = "join"
    BY <1>1 DEF Others
  <2> QED BY <1>2, <2>1, <2>4, <2>6, <2>7, AloneStays
<1>6. JoinInv'
  BY <1>2, <1>5 DEF JoinInv
<1>7. \A n \in Everyone : Deleted(n) => Deleted(n)'
  BY <1>1, <1>2 DEF Deleted, Others
<1>8. \A n \in Everyone, u \in Uins : Placed(n, u) => Placed(n, u)'
  BY <1>2 DEF Placed, Known
<1>9. NumbersInv'
  BY <1>2, <1>4, <1>7, <1>8, NumbersStay
<1> QED BY <1>6, <1>9

LEMMA DeleteStays ==
  ASSUME TypeInv, JoinInv, NumbersInv, NEW q \in PPs, Delete(q) \/ DeleteFails(q)
  PROVE  JoinInv' /\ NumbersInv'
<1>1. /\ st' \in [PPs -> Jobs] /\ Others(q) /\ st[q].job = "leave" /\ st'[q].job = "leave" /\ st'[q].who = st[q].who
      /\ st[q].todo # <<"goodbye">>
  BY DeleteMoves, DeleteFailsMoves DEF Moves, KeepsJob
<1>2. /\ pending' = pending /\ number' = number /\ \A p \in Everyone : hasty[p] \subseteq hasty'[p]
      /\ \A u \in Uins : rows'[u] # NoRow => rows'[u] = rows[u] /\ rows[u] # NoRow
      /\ \A u \in Uins : rows[u] # NoRow =>
           \/ rows'[u] # NoRow
           \/ hasty'[rows[u].who] # {}
           \/ (Delete(q) /\ rows[u].who = st[q].who /\ u = st[q].uin)
  <2>1. CASE Delete(q)
    <3>1. pending' = pending /\ number' = number
      BY <2>1 DEF Delete
    <3> QED BY <2>1, <3>1, DeleteRows
  <2>2. CASE DeleteFails(q)
    BY <2>2 DEF DeleteFails, data, past
  <2> QED BY <2>1, <2>2
<1>3. ASSUME NEW x \in PPs, st'[x].job = "join", hasty'[st'[x].who] = {} PROVE Alone(x)'
  <2>1. x # q /\ st'[x] = st[x] /\ st[x].job = "join"
    BY <1>1, <1>3 DEF Others
  <2>5. st[x].who \in Everyone /\ hasty[st[x].who] = {} /\ hasty'[st[x].who] = {}
    BY <1>2, <1>3, <2>1, JoinersAre
  <2>2. Alone(x)
    BY <2>1, <2>5 DEF JoinInv
  <2>3. ~Leaves(st[x].who)' /\ st[x].who # st[q].who
    BY <1>1, <2>1, <2>2 DEF Alone, Leaves, Others
  <2>4. \A y \in PPs : st'[y].job = "join" => st[y].job = "join"
    BY <1>1 DEF Others
  <2> QED BY <1>2, <2>1, <2>2, <2>3, <2>4, <2>5, AloneStays
<1>4. JoinInv'
  BY <1>2, <1>3 DEF JoinInv
<1>5. \A n \in Everyone : Deleted(n) => Deleted(n)'
  BY <1>1, <1>2 DEF Deleted, Others
<1>6. \A n \in Everyone, u \in Uins : hasty'[n] = {} /\ u = number[n] /\ Placed(n, u) => Placed(n, u)' \/ Deleted(n)'
  <2>1. SUFFICES ASSUME NEW n \in Everyone, NEW u \in Uins, hasty'[n] = {}, u = number[n], Placed(n, u), ~Placed(n, u)'
                 PROVE  Deleted(n)'
    OBVIOUS
  <2>2. Delete(q) /\ n = st[q].who /\ u = st[q].uin
    BY <1>2, <2>1 DEF Placed, Known
  <2>3. number'[n] = u
    BY <1>2, <2>1
  <2> QED BY <2>2, <2>3, DeleteMoves DEF Deleted
<1>8. \A n \in Everyone : number'[n] # 0 /\ hasty'[n] = {} => number[n] = number'[n] /\ hasty[n] = {}
  BY <1>2
<1>7. NumbersInv'
  BY <1>2, <1>5, <1>6, <1>8, NumbersStay
<1> QED BY <1>4, <1>7

LEMMA GoodbyeStays ==
  ASSUME TypeInv, JoinInv, NumbersInv, NEW q \in PPs, Goodbye(q)
  PROVE  JoinInv' /\ NumbersInv'
<1>1. /\ Others(q) /\ st[q] \in LeaveJobs /\ st[q].job = "leave" /\ st'[q].job = "idle" /\ st[q].who \in Everyone
  BY GoodbyeMoves, IdleIs DEF Moves, LeaveJobs
<1>2. /\ rows' = rows /\ pending' = pending /\ hasty' = hasty
      /\ number' = IF st[q].ok /\ st[q].uin = number[st[q].who] THEN [number EXCEPT ![st[q].who] = 0] ELSE number
  BY DEF Goodbye, data
<1>3. \A n \in Everyone : number'[n] = number[n] \/ (n = st[q].who /\ st[q].ok /\ number'[n] = 0)
  BY <1>2 DEF TypeInv
<1>4. st[q].ok /\ st[q].uin = number[st[q].who] => number'[st[q].who] = 0
  BY <1>1, <1>2 DEF TypeInv
<1>5. ASSUME NEW x \in PPs, st'[x].job = "join", hasty'[st'[x].who] = {} PROVE Alone(x)'
  <2>1. x # q /\ st'[x] = st[x] /\ st[x].job = "join"
    BY <1>1, <1>5 DEF Others
  <2>2. Alone(x) /\ st[x].who \in Everyone
    BY <1>2, <1>5, <2>1, JoinersAre DEF JoinInv
  <2>3. ~Leaves(st[x].who)' /\ st[x].who # st[q].who
    BY <1>1, <2>1, <2>2 DEF Alone, Leaves, Others
  <2>4. \A y \in PPs : st'[y].job = "join" => st[y].job = "join"
    BY <1>1 DEF Others
  <2>5. number'[st[x].who] = number[st[x].who]
    BY <1>3, <2>2, <2>3
  <2> QED BY <1>2, <2>1, <2>2, <2>3, <2>4, <2>5, AloneStays
<1>6. JoinInv'
  BY <1>2, <1>5 DEF JoinInv
<1>7. \A n \in Everyone : Deleted(n) /\ number'[n] # 0 => Deleted(n)'
  BY <1>1, <1>3, <1>4 DEF Deleted, Others
<1>8. \A n \in Everyone, u \in Uins : Placed(n, u) => Placed(n, u)'
  BY <1>2 DEF Placed, Known
<1>9. \A n \in Everyone : number'[n] # 0 /\ hasty'[n] = {} => number[n] = number'[n] /\ hasty[n] = {}
  BY <1>2, <1>3
<1>10. NumbersInv'
  BY <1>7, <1>8, <1>9, NumbersStay
<1> QED BY <1>6, <1>10

\* A newcomer begins: those who join already are marked, and so is he.
LEMMA JoinStays ==
  ASSUME TypeInv, JoinInv, NumbersInv, NEW q \in PPs, st[q] = Idle, NEW n \in Newcomers, Join(q, n)
  PROVE  JoinInv' /\ NumbersInv'
<1>1. /\ st' \in [PPs -> Jobs] /\ Others(q) /\ st'[q] \in JoinJobs /\ st'[q].job = "join" /\ st'[q].who = n
      /\ st'[q].todo \in {WMax, <<"exists", "insert">>} /\ st[q].job = "idle" /\ n \in Everyone
  BY JoinMoves, JoinTodos, IdleIs DEF Everyone
<1>2. number[n] = 0 /\ rows' = rows /\ pending' = pending /\ number' = number
  BY DEF Join, data
<1>3. /\ hasty' \in [Everyone -> SUBSET Marks]
      /\ \A m \in Everyone : hasty[m] \subseteq hasty'[m]
      /\ Leaves(n) => hasty'[n] # {}
      /\ \A x \in PPs : st[x].job = "join" => hasty'[n] # {} /\ hasty'[st[x].who] # {}
  BY RaceIs
<1>4. ASSUME NEW x \in PPs, st'[x].job = "join", hasty'[st'[x].who] = {} PROVE Alone(x)'
  <2>1. x = q
    BY <1>1, <1>3, <1>4 DEF Others
  <2>2. \A y \in PPs : st'[y].job = "join" => y = q
    BY <1>1, <1>3, <1>4, <2>1 DEF Others
  <2>3. ~Leaves(n)'
    BY <1>1, <1>3, <1>4, <2>1 DEF Leaves, Others
  <2>4. st'[q].todo \notin {WExists, WMax2, WCreate, WInsert, <<"welcome">>}
    <3>1. <<"exists", "insert">> \in NTodos
      BY DEF NTodos
    <3> QED BY <1>1, <3>1, TodosDiffer
  <2> QED BY <1>1, <1>2, <2>1, <2>2, <2>3, <2>4 DEF Alone
<1>5. JoinInv'
  BY <1>2, <1>4 DEF JoinInv
<1>6. \A m \in Everyone : Deleted(m) => Deleted(m)'
  BY <1>1, <1>2 DEF Deleted, Others
<1>7. \A m \in Everyone, u \in Uins : Placed(m, u) => Placed(m, u)'
  BY <1>2 DEF Placed, Known
<1>8. NumbersInv'
  BY <1>2, <1>3, <1>6, <1>7, NumbersStay
<1> QED BY <1>5, <1>8

\* While somebody joins, only he can be without a mark.
LEMMA OneJoins ==
  ASSUME TypeInv, JoinInv, NEW q \in PPs, st[q].job = "join", Others(q),
         ~pending'.made => pending'.in = {}, \A p \in Everyone : hasty[p] \subseteq hasty'[p],
         st'[q].job = "join" /\ hasty'[st'[q].who] = {} => Alone(q)'
  PROVE  JoinInv'
<1>1. ASSUME NEW x \in PPs, st'[x].job = "join", hasty'[st'[x].who] = {} PROVE Alone(x)'
  <2>1. CASE x = q
    BY <1>1, <2>1
  <2>2. CASE x # q
    <3>1. st'[x] = st[x] /\ st[x].job = "join"
      BY <1>1, <2>2 DEF Others
    <3>2. hasty[st[x].who] = {}
      BY <1>1, <3>1, JoinersAre
    <3>3. Alone(x)
      BY <3>1, <3>2 DEF JoinInv
    <3> QED BY <2>2, <3>3 DEF Alone
  <2> QED BY <2>1, <2>2
<1> QED BY <1>1 DEF JoinInv

LEMMA AloneGoesOn ==
  ASSUME TypeInv, JoinInv, NEW q \in PPs, NEW u, NEW d, Proceeds(q, u, d), number' = number,
         hasty[st[q].who] = {},
         d \in {WExists, WMax2, WCreate, WInsert} => \A v \in Uins : rows'[v] # NoRow => v < u,
         d \in {WCreate, WInsert} => \A e \in pending'.in : e.uin < u,
         d = WMax2 \/ (d = WInsert /\ st[q].way.byhand) => pending'.made,
         d = <<"welcome">> =>
           /\ (rows'[u] # NoRow /\ rows'[u].who = st[q].who) \/ [uin |-> u, who |-> st[q].who] \in pending'.in
           /\ rows'[u] # NoRow => rows'[u].who = st[q].who
           /\ \A e \in pending'.in : e.uin = u => e.who = st[q].who
  PROVE  Alone(q)'
<1>1. /\ st[q].job = "join" /\ Others(q) /\ st'[q].who = st[q].who /\ st'[q].way = st[q].way
      /\ st'[q].uin = u /\ st'[q].todo = d /\ st'[q].job = "join"
  BY JoinTodos DEF Proceeds, Moves
<1>2. Alone(q)
  BY <1>1 DEF JoinInv
<1>3. /\ number'[st'[q].who] = 0 /\ ~\E x \in PPs : st'[x].job = "leave" /\ st'[x].who = st'[q].who
      /\ \A x \in PPs : st'[x].job = "join" => x = q
  BY <1>1, <1>2 DEF Alone, Leaves, Others
<1> QED BY <1>1, <1>3 DEF Alone, Leaves, Placed, Known

\* Those who are not told their number.
LEMMA AloneByHand ==
  ASSUME TypeInv, JoinInv, NEW q \in PPs, NEW u, NEW d \in NTodos, Proceeds(q, u, d), number' = number,
         hasty[st[q].who] = {}
  PROVE  Alone(q)'
<1>1. d \notin {WExists, WMax2, WCreate, WInsert, <<"welcome">>}
  BY TodosDiffer
<1> QED BY <1>1, AloneGoesOn

\* Rows are added; nobody is told a number.
LEMMA JoinNumbers ==
  ASSUME TypeInv, NumbersInv, NEW q \in PPs, st[q].job = "join", Others(q), number' = number,
         \A p \in Everyone : hasty[p] \subseteq hasty'[p], pending.in \subseteq pending'.in,
         \A u \in Uins : rows[u] # NoRow => rows'[u] = rows[u]
  PROVE  NumbersInv'
<1>1. \A n \in Everyone : Deleted(n) => Deleted(n)'
  BY DEF Deleted, Others
<1>2. \A n \in Everyone, u \in Uins : Placed(n, u) => Placed(n, u)'
  BY DEF Placed, Known
<1> QED BY <1>1, <1>2, NumbersStay

LEMMA NewUinStays ==
  ASSUME TypeInv, JoinInv, NumbersInv, NEW q \in PPs, NewUin(q)
  PROVE  JoinInv' /\ NumbersInv'
<1> DEFINE known == {u \in Uins : Known(u)}  u == Top(known) + 1
<1>1. Proceeds(q, u, WExists) /\ rows' = rows /\ pending' = pending /\ number' = number /\ hasty' = hasty
  BY NewUinMoves DEF NewUin, data, past
<1>2. \A v \in Uins : rows'[v] # NoRow => v < u
  <2>1. \A v \in known : v < Top(known) + 1
    BY NextIs
  <2> QED BY <1>1, <2>1 DEF Known
<1> HIDE DEF u
<1>3. hasty[st[q].who] = {} => Alone(q)'
  BY <1>1, <1>2, TodosDiffer, AloneGoesOn
<1>4. st[q].job = "join" /\ Others(q) /\ st'[q].who = st[q].who
  BY <1>1 DEF Proceeds, Moves
<1>5. JoinInv'
  BY <1>1, <1>3, <1>4, OneJoins DEF JoinInv
<1> QED BY <1>1, <1>4, <1>5, JoinNumbers

LEMMA TableExistsStays ==
  ASSUME TypeInv, JoinInv, NumbersInv, NEW q \in PPs, TableExists(q)
  PROVE  JoinInv' /\ NumbersInv'
<1> DEFINE u == st[q].uin
           d == IF pending.made THEN WMax2 ELSE IF st[q].way.creates THEN WCreate ELSE WInsert
<1>1. rows' = rows /\ pending' = pending /\ number' = number /\ hasty' = hasty
  BY DEF TableExists, data, past
<1>2. \E e \in NTodos \cup {d} : Proceeds(q, u, e)
  BY TableExistsMoves
<1>3. st[q].job = "join" /\ Others(q) /\ st'[q].who = st[q].who
  BY <1>2 DEF Proceeds, Moves
<1>4. ASSUME hasty[st[q].who] = {} PROVE Alone(q)'
  <2>1. CASE st[q].todo = WExists
    <3>1. Proceeds(q, u, d)
      BY <2>1, TableExistsMoves
    <3>2. Alone(q) /\ \A v \in Uins : rows'[v] # NoRow => v < u
      BY <1>1, <1>3, <1>4, <2>1 DEF JoinInv, Alone, Known
    <3>3. d \in {WCreate, WInsert} => \A e \in pending'.in : e.uin < u
      BY <1>1, TodosDiffer DEF JoinInv
    <3>4. d = WMax2 => pending'.made
      BY <1>1, TodosDiffer
    <3>5. d = WInsert => ~pending.made /\ ~st[q].way.creates
      BY TodosDiffer
    <3>6. d = WInsert => ~st[q].way.byhand
      <4>1. ~st[q].way.creates => ~st[q].way.byhand
        BY <2>1, <1>3, JoinersAre DEF Ways
      <4> QED BY <3>5, <4>1
    <3>7. d # <<"welcome">>
      BY TodosDiffer
    <3> HIDE DEF d, u
    <3> QED BY <1>1, <1>4, <3>1, <3>2, <3>3, <3>4, <3>6, <3>7, AloneGoesOn
  <2>2. CASE st[q].todo # WExists
    BY <1>1, <1>4, <2>2, TableExistsMoves, AloneByHand
  <2> QED BY <2>1, <2>2
<1>5. JoinInv'
  BY <1>1, <1>3, <1>4, OneJoins DEF JoinInv
<1> QED BY <1>1, <1>3, <1>5, JoinNumbers

LEMMA NewUin2Stays ==
  ASSUME TypeInv, JoinInv, NumbersInv, NEW q \in PPs, NewUin2(q)
  PROVE  JoinInv' /\ NumbersInv'
<1>1. rows' = rows /\ pending' = pending /\ number' = number /\ hasty' = hasty
  BY DEF NewUin2, data, past
<1>2. PICK u \in Uins :
           /\ st[q].uin <= u /\ \A e \in pending.in : e.uin < u
           /\ st[q].todo = WMax2 => Proceeds(q, u, WInsert)
           /\ st[q].todo # WMax2 => \E d \in NTodos : Proceeds(q, u, d)
  BY NewUin2Moves
<1>3. st[q].job = "join" /\ Others(q) /\ st'[q].who = st[q].who
  BY <1>2 DEF Proceeds, Moves
<1>4. ASSUME hasty[st[q].who] = {} PROVE Alone(q)'
  <2>1. CASE st[q].todo = WMax2
    <3>1. Alone(q)
      BY <1>3, <1>4 DEF JoinInv
    <3>2. (\A v \in Uins : rows'[v] # NoRow => v < st[q].uin) /\ pending.made
      BY <1>1, <2>1, <3>1 DEF Alone, Known
    <3>3. \A v \in Uins : rows'[v] # NoRow => v < u
      <4>1. \A v \in Uins : v \in Nat
        BY DEF Uins
      <4>2. st[q].uin \in Uins
        BY <1>3, JoinersAre
      <4> QED BY <1>2, <3>2, <4>1, <4>2
    <3> QED BY <1>1, <1>2, <1>4, <2>1, <3>2, <3>3, TodosDiffer, AloneGoesOn
  <2>2. CASE st[q].todo # WMax2
    BY <1>1, <1>2, <1>4, <2>2, AloneByHand
  <2> QED BY <2>1, <2>2
<1>5. JoinInv'
  BY <1>1, <1>3, <1>4, OneJoins DEF JoinInv
<1> QED BY <1>1, <1>3, <1>5, JoinNumbers

LEMMA CreateTableStays ==
  ASSUME TypeInv, JoinInv, NumbersInv, NEW q \in PPs, CreateTable(q)
  PROVE  JoinInv' /\ NumbersInv'
<1>1. rows' = rows /\ number' = number /\ hasty' = hasty /\ pending'.made = TRUE /\ pending'.in = pending.in
  BY DEF CreateTable, past, TypeInv
<1>2. \E d \in NTodos \cup {WInsert} : Proceeds(q, st[q].uin, d)
  BY CreateTableMoves
<1>3. st[q].job = "join" /\ Others(q) /\ st'[q].who = st[q].who
  BY <1>2 DEF Proceeds, Moves
<1>4. ASSUME hasty[st[q].who] = {} PROVE Alone(q)'
  <2>1. CASE st[q].todo = WCreate
    <3>1. Alone(q)
      BY <1>3, <1>4 DEF JoinInv
    <3>2. /\ \A v \in Uins : rows'[v] # NoRow => v < st[q].uin
          /\ \A e \in pending'.in : e.uin < st[q].uin
      BY <1>1, <2>1, <3>1 DEF Alone, Known
    <3> QED BY <1>1, <1>4, <2>1, <3>2, CreateTableMoves, TodosDiffer, AloneGoesOn
  <2>2. CASE st[q].todo # WCreate
    BY <1>1, <1>4, <2>2, CreateTableMoves, AloneByHand
  <2> QED BY <2>1, <2>2
<1>5. JoinInv'
  BY <1>1, <1>3, <1>4, OneJoins
<1> QED BY <1>1, <1>3, <1>5, JoinNumbers

LEMMA InsertStays ==
  ASSUME TypeInv, JoinInv, NumbersInv, NEW q \in PPs, Insert(q)
  PROVE  JoinInv' /\ NumbersInv'
<1> DEFINE n == st[q].who  u == st[q].uin
           e == [uin |-> u, who |-> n]
<1>1. /\ Moves(q) /\ st[q].job = "join" /\ st[q].todo \in {WInsert, <<"insert">>}
      /\ st[q].todo = WInsert => Proceeds(q, u, <<"welcome">>)
      /\ st[q].todo # WInsert => st'[q].job = "idle"
  BY InsertMoves, IdleIs
<1>2. n \in Everyone /\ u \in Uins /\ u \in Nat
  BY <1>1, JoinersAre DEF Uins
<1>3. number' = number /\ hasty' = hasty
  BY DEF Insert, past
<1>4. /\ st[q].way.byhand => rows' = rows /\ pending'.made = pending.made
                             /\ pending'.in = IF pending.made THEN pending.in \cup {e} ELSE pending.in
      /\ ~st[q].way.byhand => pending' = pending /\ rows' = IF Known(u) THEN rows ELSE [rows EXCEPT ![u] = Fresh(n)]
  BY DEF Insert, TypeInv
<1>5. Fresh(n) # NoRow /\ Fresh(n).who = n
  BY <1>2, FreshIs, RowsAreRows DEF TypeInv
<1>6. /\ pending.in \subseteq pending'.in
      /\ ~pending'.made => pending'.in = {}
      /\ \A v \in Uins : rows[v] # NoRow => rows'[v] = rows[v]
  BY <1>2, <1>4 DEF TypeInv, JoinInv, Known
<1>7. ASSUME st[q].todo = WInsert, hasty[n] = {} PROVE Alone(q)'
  <2>1. Alone(q)
    BY <1>1, <1>7 DEF JoinInv
  <2>2. /\ \A v \in Uins : Known(v) => v < u
        /\ \A x \in pending.in : x.uin < u
        /\ st[q].way.byhand => pending.made
    BY <1>7, <2>1 DEF Alone
  <2>3. ~Known(u) /\ \A x \in pending.in : x.uin # u
    BY <1>2, <2>2
  <2>4. CASE st[q].way.byhand
    <3>1. e \in pending'.in /\ rows'[u] = NoRow /\ \A x \in pending'.in : x.uin = u => x.who = n
      BY <1>4, <2>2, <2>3, <2>4 DEF Known
    <3> QED BY <1>1, <1>3, <1>7, <3>1, TodosDiffer, AloneGoesOn
  <2>5. CASE ~st[q].way.byhand
    <3>1. rows'[u] = Fresh(n) /\ pending' = pending
      BY <1>2, <1>4, <2>3, <2>5 DEF TypeInv
    <3> QED BY <1>1, <1>3, <1>5, <1>7, <2>3, <3>1, TodosDiffer, AloneGoesOn
  <2> QED BY <2>4, <2>5
<1>8. st'[q].job = "join" => st[q].todo = WInsert /\ st'[q].who = n
  BY <1>1 DEF Moves, KeepsJob
<1>9. JoinInv'
  BY <1>1, <1>3, <1>6, <1>7, <1>8, OneJoins DEF Moves
<1> QED BY <1>1, <1>3, <1>6, <1>9, JoinNumbers DEF Moves

LEMMA JoinFailsStays ==
  ASSUME TypeInv, JoinInv, NumbersInv, NEW q \in PPs, JoinFails(q)
  PROVE  JoinInv' /\ NumbersInv'
<1>1. Others(q) /\ st[q].job = "join" /\ (st'[q].job = "join" => st'[q].who = st[q].who)
  BY JoinFailsMoves DEF Moves, KeepsJob
<1>2. rows' = rows /\ pending' = pending /\ number' = number
      /\ hasty' = [hasty EXCEPT ![st[q].who] = hasty[st[q].who] \cup {"failed"}]
  BY DEF JoinFails, data
<1>3. hasty'[st[q].who] # {} /\ \A p \in Everyone : hasty[p] \subseteq hasty'[p]
  BY <1>1, <1>2, JoinersAre DEF TypeInv
<1>4. JoinInv'
  BY <1>1, <1>2, <1>3, OneJoins DEF JoinInv
<1> QED BY <1>1, <1>2, <1>3, <1>4, JoinNumbers

\* He is told his number: it is in the table, under his name, or he has asked for it
\* alone; whoever had it before has deleted it.
LEMMA WelcomeStays ==
  ASSUME TypeInv, JoinInv, NumbersInv, NEW q \in PPs, Welcome(q)
  PROVE  JoinInv' /\ NumbersInv'
<1>1. Others(q) /\ st[q].job = "join" /\ st'[q].job = "idle" /\ st[q].todo = <<"welcome">>
  BY WelcomeMoves, IdleIs DEF Moves
<1>2. PICK n \in Everyone, u \in Uins : n = st[q].who /\ u = st[q].uin
  BY <1>1, JoinersAre
<1>3. rows' = rows /\ pending' = pending /\ hasty' = hasty /\ number' = [number EXCEPT ![n] = u]
  BY <1>2 DEF Welcome, data
<1>4. number'[n] = u /\ \A m \in Everyone : m # n => number'[m] = number[m]
  BY <1>2, <1>3 DEF TypeInv
<1>5. JoinInv'
  BY <1>1, <1>3, OneJoins DEF JoinInv
<1>6. \A m \in Everyone : m # n /\ Deleted(m) => Deleted(m)'
  BY <1>1, <1>4 DEF Deleted, Others
<1>7. \A m \in Everyone, v \in Uins : Placed(m, v)' <=> Placed(m, v)
  BY <1>3 DEF Placed, Known
<1>8. ASSUME hasty[n] = {}
      PROVE  Placed(n, u) /\ \A m \in Everyone : m # n => ~Placed(m, u)
  <2>1. Alone(q)
    BY <1>1, <1>2, <1>8 DEF JoinInv
  <2> QED BY <1>1, <1>2, <2>1 DEF Alone, Placed
<1>9. ASSUME NEW m \in Everyone, m # n, Told(m)' PROVE Told(m) /\ number[m] = number'[m] /\ number[m] \in Uins
  BY <1>3, <1>4, <1>9 DEF Told, TypeInv
<1>10. ASSUME NEW m \in Everyone, Told(m)' PROVE Placed(m, number[m])' \/ Deleted(m)'
  <2>1. PICK v \in Uins : v = number'[m]
    BY <1>2, <1>4, <1>10 DEF TypeInv
  <2>2. Placed(m, v)' \/ Deleted(m)'
    <3>1. CASE m = n
      BY <1>2, <1>3, <1>4, <1>7, <1>8, <1>10, <2>1, <3>1 DEF Told
    <3>2. CASE m # n
      <4>1. Placed(m, v) \/ Deleted(m)
        BY <1>9, <1>10, <2>1, <3>2 DEF NumbersInv
      <4> QED BY <1>6, <1>7, <3>2, <4>1
    <3> QED BY <3>1, <3>2
  <2> QED BY <2>1, <2>2 DEF Placed, Known
<1>11. ASSUME NEW m \in Everyone, m # n, Told(n)', Told(m)', number'[m] = u PROVE Deleted(m)'
  <2>1. Told(m) /\ number[m] = u /\ hasty[n] = {}
    BY <1>3, <1>9, <1>11 DEF Told
  <2>2. Placed(m, u) \/ Deleted(m)
    BY <2>1 DEF NumbersInv
  <2> QED BY <1>6, <1>8, <1>11, <2>1, <2>2
<1>12. ASSUME NEW m \in Everyone, NEW l \in Everyone, m # l, Told(m)', Told(l)', number'[m] = number'[l]
       PROVE  Deleted(m)' \/ Deleted(l)'
  <2>1. CASE m = n
    BY <1>4, <1>11, <1>12, <2>1
  <2>2. CASE l = n
    BY <1>4, <1>11, <1>12, <2>2
  <2>3. CASE m # n /\ l # n
    <3>1. Told(m) /\ Told(l) /\ number[m] = number[l]
      BY <1>9, <1>12, <2>3
    <3>2. Deleted(m) \/ Deleted(l)
      BY <1>12, <3>1 DEF NumbersInv
    <3> QED BY <1>6, <2>3, <3>2
  <2> QED BY <2>1, <2>2, <2>3
<1>13. NumbersInv'
  BY <1>10, <1>12 DEF NumbersInv
<1> QED BY <1>5, <1>13

LEMMA RequestStays ==
  ASSUME TypeInv, JoinInv, NumbersInv, NEW q \in PPs, st[q] = Idle, Begins(q),
         rows' = rows, pending' = pending, number' = number, hasty' = hasty
  PROVE  JoinInv' /\ NumbersInv'
<1>1. st[q].job = "idle"
  BY IdleIs
<1>2. st' = st \/ (Others(q) /\ st'[q].job = "save")
  BY DEF Begins, Starts
<1>3. NoJoins
  BY <1>1, <1>2 DEF NoJoins, Others
<1> QED BY <1>3, NoJoinsStay

LEMMA WorkStays ==
  ASSUME TypeInv, SavesInv, JoinInv, NumbersInv, NEW q \in PPs, Works(q)
  PROVE  JoinInv' /\ NumbersInv'
<1>1. /\ Moves(q) /\ st[q] \in SaveJobs /\ st[q].job = "save"
      /\ pending' = pending /\ number' = number /\ hasty' = hasty
  BY WorkTypes
<1>2. st'[q].job \notin {"join", "leave"}
  BY <1>1 DEF Moves, KeepsJob
<1>3. /\ \A u \in Uins : rows'[u] = NoRow <=> rows[u] = NoRow
      /\ \A u \in Uins : Known(u) => rows'[u].who = rows[u].who
  <2>1. CASE Read(q) \/ Fail(q) \/ Answer(q)
    BY <2>1 DEF Read, Fail, Answer, data
  <2>2. CASE SaveAbout(q) \/ Write(q)
    <3>1. CASE rows' = rows
      BY <3>1
    <3>2. CASE rows' # rows
      BY <1>1, <2>2, <3>2, WriteMoves, PutIs
    <3> QED BY <3>1, <3>2
  <2> QED BY <2>1, <2>2 DEF Works
<1>4. NoJoins
  BY <1>1, <1>2, <1>3 DEF NoJoins, Moves, Others
<1> QED BY <1>4, NoJoinsStay

LEMMA SessionStays ==
  ASSUME TypeInv, JoinInv, NumbersInv, (\E p \in Everyone : Login(p)) \/ (\E s \in Slots : Logoff(s))
  PROVE  JoinInv' /\ NumbersInv'
<1>1. rows' = rows /\ pending' = pending /\ st' = st /\ number' = number /\ hasty' = hasty
  BY SessionTypes
<1>2. NoJoins
  BY <1>1 DEF NoJoins
<1> QED BY <1>2, NoJoinsStay

----------------------------------------------------------------------------
(* The initial states *)

LEMMA UsersAreNumbered ==
  LET F == {f \in [Users -> 1 .. Cardinality(Users)] : IsInjective(f)}
  IN  (CHOOSE f \in [Users -> 1 .. Cardinality(Users)] : IsInjective(f)) \in F
<1> DEFINE N == Cardinality(Users)
<1>1. ExistsBijection(1 .. N, Users)
  BY UsersAssumption, FS_CardinalityType
<1>2. ExistsBijection(Users, 1 .. N)
  BY <1>1, Fun_ExistsBijSymmetric
<1>3. PICK f \in Bijection(Users, 1 .. N) : TRUE
  BY <1>2 DEF ExistsBijection
<1>4. f \in [Users -> 1 .. N] /\ IsInjective(f)
  BY <1>3 DEF Bijection, Injection
<1> QED BY <1>4

\* What Init says of the rows, the numbers and the session.
LEMMA InitIs ==
  ASSUME Init
  PROVE  \E f \in [Users -> 1 .. Cardinality(Users)] :
           /\ \A p, m \in Users : f[p] = f[m] => p = m
           /\ number = [p \in Everyone |-> IF p \in Users THEN f[p] ELSE 0]
           /\ \A p \in Users : f[p] \in Uins /\ f[p] # 0
           /\ rows \in [Uins -> {NoRow} \cup {Fresh(p) : p \in Users}]
           /\ \A p \in Users : rows[f[p]] = Fresh(p)
<1> DEFINE N == Cardinality(Users)
<1>1. PICK f \in {CHOOSE g \in [Users -> 1 .. N] : IsInjective(g)} :
        /\ rows = [u \in Uins |-> IF u \in Range(f) THEN Fresh(CHOOSE p \in Users : f[p] = u) ELSE NoRow]
        /\ number = [p \in Everyone |-> IF p \in Users THEN f[p] ELSE 0]
  BY DEF Init
<1>2. f \in [Users -> 1 .. N] /\ IsInjective(f)
  BY <1>1, UsersAreNumbered
<1>3. \A p, m \in Users : f[p] = f[m] => p = m
  BY <1>2 DEF IsInjective
<1>4. \A p \in Users : f[p] \in Uins /\ f[p] # 0
  <2>1. N \in Nat /\ N <= MaxUin /\ MaxUin \in Nat
    BY UsersAssumption, FS_CardinalityType, BoundsAssumption
  <2> QED BY <1>2, <2>1 DEF Uins
<1>5. ASSUME NEW p \in Users PROVE f[p] \in Range(f) /\ (CHOOSE m \in Users : f[m] = f[p]) = p
  <2>1. f[p] \in Range(f)
    BY <1>2 DEF Range
  <2>2. f[CHOOSE m \in Users : f[m] = f[p]] = f[p] /\ (CHOOSE m \in Users : f[m] = f[p]) \in Users
    OBVIOUS
  <2> QED BY <1>3, <2>1, <2>2
<1>6. \A p \in Users : rows[f[p]] = Fresh(p)
  BY <1>1, <1>4, <1>5
<1>7. ASSUME NEW u \in Uins PROVE rows[u] \in {NoRow} \cup {Fresh(p) : p \in Users}
  <2>1. CASE u \in Range(f)
    <3>1. PICK p \in Users : u = f[p]
      BY <1>2, <2>1 DEF Range
    <3> QED BY <1>6, <3>1
  <2>2. CASE u \notin Range(f)
    BY <1>1, <2>2
  <2> QED BY <2>1, <2>2
<1>8. rows \in [Uins -> {NoRow} \cup {Fresh(p) : p \in Users}]
  BY <1>1, <1>7
<1> QED BY <1>2, <1>1, <1>3, <1>4, <1>6, <1>8

\* One place is taken: the first one.
LEMMA FirstPlaceIs ==
  ASSUME Init, number \in [Everyone -> Uins]
  PROVE  /\ slot \in [Slots -> Places]
         /\ \A s \in Slots : slot[s] # Free => slot[s].nr = -1 /\ \A k \in Slots : s <= k
         /\ \A s \in Slots : slot[s] = Free => slot[s].nr = 0
<1>1. PICK p \in Users, proto \in {"v3", "v5", "v7"} :
           slot = [s \in Slots |-> IF \A k \in Slots : s <= k THEN Session(p, -1, number[p], proto) ELSE Free]
  BY DEF Init
<1>2. p \in Everyone /\ number[p] \in Uins
  BY DEF Everyone
<1>3. Session(p, -1, number[p], proto) \in Places /\ Session(p, -1, number[p], proto).nr = -1
  BY <1>2 DEF Session, Places
<1> HIDE DEF Session
<1>4. Free \in Places /\ Free.nr = 0
  BY DEF Places, Free
<1> QED BY <1>1, <1>3, <1>4

LEMMA InitTypes ==
  ASSUME Init
  PROVE  TypeInv
<1>1. PICK f \in [Users -> 1 .. Cardinality(Users)] :
           /\ number = [p \in Everyone |-> IF p \in Users THEN f[p] ELSE 0]
           /\ \A p \in Users : f[p] \in Uins
           /\ rows \in [Uins -> {NoRow} \cup {Fresh(p) : p \in Users}]
  BY InitIs
<1>2. look \in Looks
  BY DEF Init
<1>3. number \in [Everyone -> Uins]
  BY <1>1, BoundsAssumption DEF Uins
<1>4. \A p \in Users : Fresh(p) \in Rows
  BY <1>2, FreshIs, RowsAreRows DEF Everyone
<1>5. rows \in [Uins -> Rows]
  BY <1>1, <1>4 DEF Rows
<1>6. slot \in [Slots -> Places]
  BY <1>3, FirstPlaceIs
<1>7. pending \in [made : BOOLEAN, in : SUBSET [uin : Uins, who : Newcomers]]
  <2>1. PICK b \in BOOLEAN : pending = [made |-> b, in |-> {}]
    BY DEF Init
  <2> QED BY <2>1
<1>8. st \in [PPs -> Jobs]
  BY IdleIs DEF Init
<1>9. sent \in Seq([who : Everyone, hide : SUBSET Names, h : Handlers, nr : Int]) /\ Len(sent) = 0
  BY DEF Init
<1>10. told \in [Everyone -> [look -> 0 .. Len(sent)]]
  BY <1>9 DEF Init
<1>11. /\ odd \in [Uins -> SUBSET {"place", "reused"}]
       /\ hasty \in [Everyone -> SUBSET Marks] /\ nevent \in Nat
  BY DEF Init
<1> QED BY <1>2, <1>3, <1>5, <1>6, <1>7, <1>8, <1>9, <1>10, <1>11 DEF TypeInv

LEMMA InitInv ==
  ASSUME Init
  PROVE  IInv
<1>1. TypeInv
  BY InitTypes
<1>2. PICK f \in [Users -> 1 .. Cardinality(Users)] :
           /\ \A p, m \in Users : f[p] = f[m] => p = m
           /\ number = [p \in Everyone |-> IF p \in Users THEN f[p] ELSE 0]
           /\ \A p \in Users : f[p] \in Uins /\ f[p] # 0
           /\ rows \in [Uins -> {NoRow} \cup {Fresh(p) : p \in Users}]
           /\ \A p \in Users : rows[f[p]] = Fresh(p)
  BY InitIs
<1>3. Len(sent) = 0 /\ nevent = 0 /\ \A q \in PPs : st[q].job = "idle"
  BY IdleIs DEF Init
<1>4. ASSUME NEW u \in Uins, Known(u), NEW c \in look PROVE rows[u].val[c].nr = 0
  <2>1. PICK p \in Users : rows[u] = Fresh(p)
    BY <1>2, <1>4 DEF Known
  <2>2. rows[u].val[c] = Value(0, c)
    BY <1>1, <2>1, FreshIs DEF TypeInv, Everyone
  <2> QED BY <2>2 DEF Value
<1>5. SavesInv
  BY <1>3, <1>4 DEF SavesInv, IsSent
<1>6. SessionsInv
  <2>1. /\ \A s \in Slots : slot[s] # Free => slot[s].nr = -1 /\ \A k \in Slots : s <= k
        /\ \A s \in Slots : slot[s] = Free => slot[s].nr = 0
    BY <1>1, FirstPlaceIs DEF TypeInv
  <2>2. ASSUME NEW s \in Slots, slot[s] # Free, NEW k \in Slots, slot[k].nr = slot[s].nr PROVE k = s
    <3>1. s <= k /\ k <= s /\ s \in Nat /\ k \in Nat
      BY <2>1, <2>2, SlotsAssumption
    <3> QED BY <3>1
  <2> QED BY <1>3, <2>1, <2>2 DEF SessionsInv, IsNr
<1>7. OwnersInv
  BY <1>3, <1>4 DEF OwnersInv, Foreign
<1>8. JoinInv
  <2>1. pending.in = {}
    BY DEF Init
  <2> QED BY <1>3, <2>1 DEF JoinInv
<1>9. NumbersInv
  <2>1. ASSUME NEW n \in Everyone, Told(n) PROVE n \in Users /\ number[n] = f[n] /\ Placed(n, number[n])
    <3>1. n \in Users /\ number[n] = f[n]
      BY <1>2, <2>1 DEF Told
    <3>2. rows[f[n]].who = n /\ rows[f[n]] # NoRow
      BY <1>1, <1>2, <3>1, FreshIs, RowsAreRows DEF TypeInv, Everyone
    <3> QED BY <3>1, <3>2 DEF Placed, Known
  <2>2. ASSUME NEW n \in Everyone, NEW m \in Everyone, Told(n), Told(m), number[n] = number[m] PROVE n = m
    BY <1>2, <2>1, <2>2
  <2> QED BY <2>1, <2>2 DEF NumbersInv
<1> QED BY <1>1, <1>5, <1>6, <1>7, <1>8, <1>9 DEF IInv

----------------------------------------------------------------------------
(* Every step keeps the invariant *)

LEMMA RequestStep ==
  ASSUME IInv, NEW q \in PPs, st[q] = Idle,
         \/ \E s \in Slots : Save(q, s) \/ TooLong(q, s)
         \/ \E n \in 1 .. Len(sent) : Again(q, n)
  PROVE  IInv'
<1>1. TypeInv /\ SavesInv /\ SessionsInv /\ OwnersInv /\ JoinInv /\ NumbersInv
  BY DEF IInv
<1>2. /\ TypeInv' /\ Begins(q) /\ look' = look /\ rows' = rows /\ pending' = pending
      /\ number' = number /\ odd' = odd /\ hasty' = hasty /\ nevent' \in Nat /\ nevent <= nevent'
  BY <1>1, SaveTypes
<1>3. SavesInv'
  BY <1>1, <1>2, RequestSaves
<1>4. SessionsInv'
  BY <1>1, <1>2, RequestSessions
<1>5. OwnersInv'
  BY <1>1, <1>2, RequestOwners
<1>6. JoinInv' /\ NumbersInv'
  BY <1>1, <1>2, RequestStays
<1> QED BY <1>2, <1>3, <1>4, <1>5, <1>6 DEF IInv

LEMMA WorkStep ==
  ASSUME IInv, NEW q \in PPs, Works(q)
  PROVE  IInv'
<1>1. TypeInv /\ SavesInv /\ SessionsInv /\ OwnersInv /\ JoinInv /\ NumbersInv
  BY DEF IInv
<1> QED BY <1>1, WorkTypes, WorkSaves, WorkSessions, WorkOwners, WorkStays DEF IInv

LEMMA LeaveStep ==
  ASSUME IInv, NEW q \in PPs,
         \/ st[q] = Idle /\ \E s \in Slots : Leave(q, s)
         \/ Delete(q) \/ DeleteFails(q) \/ Goodbye(q)
  PROVE  IInv'
<1>1. TypeInv /\ SavesInv /\ SessionsInv /\ OwnersInv /\ JoinInv /\ NumbersInv
  BY DEF IInv
<1>2. /\ TypeInv' /\ look' = look /\ slot' = slot /\ sent' = sent
      /\ nevent' \in Nat /\ nevent <= nevent'
  BY <1>1, LeaveTypes
<1>3. SavesInv' /\ NoSaves(q)
  BY <1>1, LeaveSaves
<1>4. SessionsInv'
  BY <1>1, <1>2, <1>3, OtherSessions
<1>5. OwnersInv'
  BY <1>1, LeaveOwners
<1>6. JoinInv' /\ NumbersInv'
  BY <1>1, LeaveStays, DeleteStays, GoodbyeStays
<1> QED BY <1>2, <1>3, <1>4, <1>5, <1>6 DEF IInv

LEMMA JoinStep ==
  ASSUME IInv, NEW q \in PPs, (st[q] = Idle /\ \E n \in Newcomers : Join(q, n)) \/ Joins(q)
  PROVE  IInv'
<1>1. TypeInv /\ SavesInv /\ SessionsInv /\ OwnersInv /\ JoinInv /\ NumbersInv
  BY DEF IInv
<1>2. /\ TypeInv' /\ look' = look /\ slot' = slot /\ sent' = sent
      /\ nevent' \in Nat /\ nevent <= nevent'
  BY <1>1, JoinTypes
<1>3. SavesInv' /\ NoSaves(q)
  BY <1>1, JoinSaves
<1>4. SessionsInv'
  BY <1>1, <1>2, <1>3, OtherSessions
<1>5. OwnersInv'
  BY <1>1, JoinOwners
<1>6. JoinInv' /\ NumbersInv'
  BY <1>1, JoinStays, NewUinStays, TableExistsStays, NewUin2Stays, CreateTableStays, InsertStays,
     JoinFailsStays, WelcomeStays DEF Joins
<1> QED BY <1>2, <1>3, <1>4, <1>5, <1>6 DEF IInv

LEMMA SessionStep ==
  ASSUME IInv, (\E p \in Everyone : Login(p)) \/ (\E s \in Slots : Logoff(s))
  PROVE  IInv'
<1>1. TypeInv /\ SavesInv /\ SessionsInv /\ OwnersInv /\ JoinInv /\ NumbersInv
  BY DEF IInv
<1>2. /\ TypeInv' /\ look' = look /\ rows' = rows /\ st' = st /\ sent' = sent /\ nevent' = nevent + 1
      /\ \E s \in Slots : \/ slot' = [slot EXCEPT ![s] = Free]
                          \/ \E x \in Places : x # Free /\ x.nr = nevent + 1 /\ slot' = [slot EXCEPT ![s] = x]
  BY <1>1, SessionTypes
<1>3. SavesInv'
  BY <1>1, <1>2, SessionSaves
<1>4. SessionsInv'
  BY <1>1, <1>2, LoginSessions, EndSessions
<1>5. OwnersInv'
  BY <1>1, SessionOwners
<1>6. JoinInv' /\ NumbersInv'
  BY <1>1, SessionStays
<1> QED BY <1>2, <1>3, <1>4, <1>5, <1>6 DEF IInv

LEMMA Stutter ==
  ASSUME IInv, UNCHANGED vars
  PROVE  IInv'
<1>1. TypeInv /\ SavesInv /\ SessionsInv /\ OwnersInv /\ JoinInv /\ NumbersInv
  BY DEF IInv
<1>2. /\ look' = look /\ rows' = rows /\ pending' = pending /\ slot' = slot /\ st' = st /\ sent' = sent /\ told' = told
      /\ number' = number /\ odd' = odd /\ hasty' = hasty /\ nevent' = nevent
  BY DEF vars, data, past
<1>3. TypeInv'
  BY <1>1, <1>2, TypesStay DEF TypeInv, Requests
<1>4. SavesInv'
  BY <1>1, <1>2, SessionSaves
<1>5. SessionsInv'
  BY <1>1, <1>2, SentStays, SessionsStay DEF TypeInv
<1>6. OwnersInv'
  <2>1. SlotsMove /\ st' \in [PPs -> Jobs]
    BY <1>1, <1>2 DEF SlotsMove, TypeInv
  <2> QED BY <1>1, <1>2, <2>1, OtherOwners
<1>7. JoinInv' /\ NumbersInv'
  BY <1>1, <1>2, NoJoinsStay DEF NoJoins
<1> QED BY <1>3, <1>4, <1>5, <1>6, <1>7 DEF IInv

\* From the states in which the server starts, whatever the packet processors do.
THEOREM DirectoryInv == Spec => []IInv
<1>1. Init => IInv
  BY InitInv
<1>2. IInv /\ [Next]_vars => IInv'
  <2> SUFFICES ASSUME IInv, [Next]_vars PROVE IInv'
    OBVIOUS
  <2>1. ASSUME NEW q \in PPs, st[q] = Idle, \E s \in Slots : Save(q, s) \/ TooLong(q, s) \/ Leave(q, s)
        PROVE  IInv'
    BY <2>1, RequestStep, LeaveStep
  <2>2. ASSUME NEW q \in PPs, st[q] = Idle, \E n \in 1 .. Len(sent) : Again(q, n) PROVE IInv'
    BY <2>2, RequestStep
  <2>3. ASSUME NEW q \in PPs, st[q] = Idle, \E n \in Newcomers : Join(q, n) PROVE IInv'
    BY <2>3, JoinStep
  <2>4. ASSUME NEW q \in PPs, Works(q) PROVE IInv'
    BY <2>4, WorkStep
  <2>5. ASSUME NEW q \in PPs, Delete(q) \/ DeleteFails(q) \/ Goodbye(q) PROVE IInv'
    BY <2>5, LeaveStep
  <2>6. ASSUME NEW q \in PPs, Joins(q) PROVE IInv'
    BY <2>6, JoinStep
  <2>7. ASSUME (\E p \in Everyone : Login(p)) \/ (\E s \in Slots : Logoff(s)) PROVE IInv'
    BY <2>7, SessionStep
  <2>8. CASE UNCHANGED vars
    BY <2>8, Stutter
  <2> QED BY <2>1, <2>2, <2>3, <2>4, <2>5, <2>6, <2>7, <2>8 DEF Next, Works, Joins
<1> QED BY <1>1, <1>2, PTL DEF Spec

\* What a row holds was sent by its owner, whoever else writes to the table, unless
\* a V7 handler outlived its session and its place got another user, or the number
\* of a handler's user got another owner (OwnersWrite).
THEOREM RowsAreTheirOwners == Spec => []OwnersWrite
<1>1. IInv => OwnersWrite
  BY DEF IInv, OwnersInv, OwnersWrite, Foreign
<1> QED BY <1>1, DirectoryInv, PTL

\* The number that a newcomer was told is registered under his name, or he has asked
\* for it, and nobody else was told it, unless two joined at once, a statement failed,
\* he left while he joined, or who had it before is just leaving (UinIsHis).
THEOREM NumbersAreTheirOwners == Spec => []UinIsHis
<1>1. IInv => TypeOK
  <2> SUFFICES ASSUME TypeInv, SavesInv PROVE TypeOK
    BY DEF IInv
  <2>1. \A u \in Uins : Known(u) => rows[u].who \in Everyone /\ DOMAIN rows[u].val = look
    BY RowIs
  <2>2. \A u \in Uins : Known(u) => \A c \in look : rows[u].val[c].nr \in -1 .. Len(sent)
    BY DEF SavesInv, IsSent
  <2>3. pending.made \in BOOLEAN /\ \A e \in pending.in : e.uin \in Uins /\ e.who \in Everyone
    BY DEF TypeInv, Everyone
  <2>4. \A s \in Slots : slot[s] = Free \/ (slot[s].who \in Everyone /\ slot[s].uin \in Uins)
    BY PlaceIs
  <2>5. look \in Looks /\ \A p \in Everyone : number[p] \in Uins /\ told[p] \in [look -> 0 .. Len(sent)]
    BY DEF TypeInv
  <2> QED BY <2>1, <2>2, <2>3, <2>4, <2>5 DEF TypeOK
<1>2. ASSUME IInv, NEW n \in Newcomers, number[n] # 0, hasty[n] = {}, ~Leaving(n)
      PROVE  /\ Mine(n) \/ [uin |-> number[n], who |-> n] \in pending.in
             /\ \A m \in Everyone \ {n} : number[m] = number[n] => hasty[m] # {} \/ Leaving(m)
  <2>1. NumbersInv /\ n \in Everyone /\ Told(n) /\ ~Deleted(n)
    BY <1>2 DEF IInv, Told, Deleted, Leaving, Everyone
  <2>2. Placed(n, number[n])
    BY <2>1 DEF NumbersInv
  <2>3. ASSUME NEW m \in Everyone \ {n}, number[m] = number[n], hasty[m] = {} PROVE Leaving(m)
    <3>1. Told(m) /\ n # m
      BY <1>2, <2>3 DEF Told
    <3>2. Deleted(m)
      BY <2>1, <2>3, <3>1 DEF NumbersInv
    <3> QED BY <3>2 DEF Deleted, Leaving
  <2> QED BY <1>2, <2>2, <2>3 DEF Placed, Mine
<1>3. IInv => UinIsHis
  BY <1>1, <1>2 DEF UinIsHis
<1> QED BY <1>3, DirectoryInv, PTL
----------------------------------------------------------------------------
(* The address that is hidden, and the flag that hides it                  *)

\* Among requests ss: an email1 that was sent as hidden by a handler that keeps its flag; it
\* is nowhere but in its column, and its flag is there too.
Bare(ss, v) == v.nr > 0 /\ v.of = "email1" /\ "email1" \in ss[v.nr].hide /\ "e1publ" \notin ss[v.nr].h.spoils
Shielded(ss, val) == \A c \in InfoEmails :
  Bare(ss, val[c]) => c = "email1" /\ val["e1publ"].nr > 0 /\ "email1" \in ss[val["e1publ"].nr].hide
\* To hide email1 means to carry the flag.
Honest(r) == r.h.at = InfoEmails /\ ("email1" \in r.hide => "e1publ" \in r.h.fields)
Whole(h) == {{}, h.fields, {"notes"}}
AddressInv ==
  "email1" \in look =>
    /\ \A u \in Uins : Known(u) => Shielded(sent, rows[u].val)
    /\ \A q \in PPs : st[q].job = "save" =>
         st[q].h = sent[st[q].n].h /\ st[q].junk \in Whole(st[q].h) /\ Shielded(sent, st[q].base)
    /\ \A n \in 1 .. Len(sent) : Honest(sent[n])

LEMMA EmailsAre ==
  ASSUME look \in Looks, "email1" \in look
  PROVE  look = InfoEmails
<1> DEFINE others == {SetInterests, InfoLangs, {"past_num", "past_key1", "past_key2", "past_key3"},
                   {"aff_num", "aff_key1", "aff_key2", "aff_key3"}, {"hzip", "hzip2"}, {"wzip", "wzip2"}}
           all == (UNION {r.cols : r \in Showing}) \cup (UNION {h.fields : h \in Saving})
<1>1. look \in ({InfoEmails} \cup others) \cup {{c} : c \in all \ UNION ({InfoEmails} \cup others)}
  <2>1. {InfoEmails} \cup others =
          {InfoEmails, SetInterests, InfoLangs, {"past_num", "past_key1", "past_key2", "past_key3"},
           {"aff_num", "aff_key1", "aff_key2", "aff_key3"}, {"hzip", "hzip2"}, {"wzip", "wzip2"}}
    OBVIOUS
  <2> HIDE DEF others, all
  <2> QED BY <2>1, LooksAssumption DEF Aspects, all
<1>2. "email1" \in InfoEmails
  BY DEF InfoEmails
<1>3. \A s \in others : "email1" \notin s
  BY DEF SetInterests, InfoLangs
<1> HIDE DEF others, all
<1> QED BY <1>1, <1>2, <1>3

\* The addresses and the flag in a handler: what it does with the one, it does with the other.
Pairs(h) ==
  /\ "email1" \in h.flags => "e1publ" \in h.fields
  /\ \A c \in InfoEmails : c \in DOMAIN h.writes /\ h.writes[c] = "email1" =>
       \/ "e1publ" \in h.spoils
       \/ c = "email1" /\ {"email1", "e1publ"} \subseteq h.fields /\ "e1publ" \in DOMAIN h.writes /\ h.writes["e1publ"] = "e1publ"
  /\ "e1publ" \in DOMAIN h.writes => "email1" \in DOMAIN h.writes
  /\ h.reads => /\ "email1" \in DOMAIN h.writes /\ "e1publ" \in DOMAIN h.writes
                /\ h.writes["email1"] = Empty /\ h.writes["e1publ"] = Empty
\* What is written from the field of its own name, or from none.
LEMMA SavesPairs ==
  ASSUME NEW proto, NEW cols, NEW packet, NEW reply, NEW toolong, NEW spoils,
         "email1" \in cols \cap packet => "e1publ" \in cols \cap packet,
         "e1publ" \in cols => "email1" \in cols
  PROVE  Pairs(Saves(proto, packet, From(cols, packet, Empty), reply, toolong, spoils))
<1> DEFINE h == Saves(proto, packet, From(cols, packet, Empty), reply, toolong, spoils)
<1>1. /\ h.fields = packet /\ h.writes = From(cols, packet, Empty) /\ h.reads = FALSE
      /\ h.flags = IF "e1publ" \in packet THEN {"email1"} ELSE {}
  BY DEF Saves
<1> HIDE DEF h
<1>2. DOMAIN h.writes = cols /\ \A c \in cols : h.writes[c] = IF c \in packet THEN c ELSE Empty
  BY <1>1 DEF From
<1>3. Empty # "email1"
  BY DEF Empty
<1>4. Pairs(h)
  BY <1>1, <1>2, <1>3 DEF Pairs
<1> QED BY <1>4 DEF h

LEMMA PlainPairs ==
  ASSUME NEW proto, NEW cols, NEW reply, NEW toolong,
         "email1" \in cols <=> "e1publ" \in cols
  PROVE  Pairs(Plain(proto, cols, reply, toolong))
BY SavesPairs DEF Plain

LEMMA V3PlainPairs == \A h \in {V3Auth, V3Pass, V3HomePage, V3WorkPage, V3Notes} : Pairs(h)
<1>1. Pairs(V3Auth)
  <2>1. "email1" \in SetAuthMode <=> "e1publ" \in SetAuthMode
    BY DEF SetAuthMode
  <2> QED BY <2>1, PlainPairs DEF V3Auth, SetAuthMode
<1>2. Pairs(V3Pass)
  <2>1. "email1" \in SetPassword <=> "e1publ" \in SetPassword
    BY DEF SetPassword
  <2> QED BY <2>1, PlainPairs DEF V3Pass, SetPassword
<1>3. Pairs(V3HomePage)
  <2>1. "email1" \in SetHomePage <=> "e1publ" \in SetHomePage
    BY DEF SetHomePage
  <2> QED BY <2>1, PlainPairs DEF V3HomePage, SetHomePage
<1>4. Pairs(V3WorkPage)
  <2>1. "email1" \in SetWorkPage <=> "e1publ" \in SetWorkPage
    BY DEF SetWorkPage
  <2> QED BY <2>1, PlainPairs DEF V3WorkPage, SetWorkPage
<1>5. Pairs(V3Notes)
  <2>1. "email1" \in SetNotes <=> "e1publ" \in SetNotes
    BY DEF SetNotes
  <2> QED BY <2>1, PlainPairs DEF V3Notes, SetNotes
<1> QED BY <1>1, <1>2, <1>3, <1>4, <1>5

LEMMA V5PlainPairs == \A h \in {V5Pass, V5Interests, V5Affilation, V5Basic, V5Basic2, V5More, V5More2, V5HPageCat, V5Secure, V5Work, V5Work2, V5About} : Pairs(h)
<1>1. Pairs(V5Pass)
  <2>1. "email1" \in SetPassword <=> "e1publ" \in SetPassword
    BY DEF SetPassword
  <2> QED BY <2>1, PlainPairs DEF V5Pass
<1>2. Pairs(V5Interests)
  <2>1. "email1" \in SetInterests <=> "e1publ" \in SetInterests
    BY DEF SetInterests
  <2> QED BY <2>1, PlainPairs DEF V5Interests
<1>3. Pairs(V5Affilation)
  <2>1. "email1" \in SetAffilations <=> "e1publ" \in SetAffilations
    BY DEF SetAffilations
  <2> QED BY <2>1, PlainPairs DEF V5Affilation
<1>4. Pairs(V5Basic)
  <2>1. "email1" \in SetBasic2 <=> "e1publ" \in SetBasic2
    BY DEF SetBasic2
  <2> QED BY <2>1, PlainPairs DEF V5Basic
<1>5. Pairs(V5Basic2)
  <2>1. "email1" \in SetBasic2 <=> "e1publ" \in SetBasic2
    BY DEF SetBasic2
  <2> QED BY <2>1, PlainPairs DEF V5Basic2
<1>6. Pairs(V5More)
  <2>1. "email1" \in SetV5More <=> "e1publ" \in SetV5More
    BY DEF SetV5More
  <2> QED BY <2>1, PlainPairs DEF V5More
<1>7. Pairs(V5More2)
  <2>1. "email1" \in SetV5More <=> "e1publ" \in SetV5More
    BY DEF SetV5More
  <2> QED BY <2>1, PlainPairs DEF V5More2
<1>8. Pairs(V5HPageCat)
  <2>1. "email1" \in SetHPageCat <=> "e1publ" \in SetHPageCat
    BY DEF SetHPageCat
  <2> QED BY <2>1, PlainPairs DEF V5HPageCat
<1>9. Pairs(V5Secure)
  <2>1. "email1" \in SetSecure <=> "e1publ" \in SetSecure
    BY DEF SetSecure
  <2> QED BY <2>1, PlainPairs DEF V5Secure
<1>10. Pairs(V5Work)
  <2>1. "email1" \in SetWork2 <=> "e1publ" \in SetWork2
    BY DEF SetWork2
  <2> QED BY <2>1, PlainPairs DEF V5Work
<1>11. Pairs(V5Work2)
  <2>1. "email1" \in SetWork2 <=> "e1publ" \in SetWork2
    BY DEF SetWork2
  <2> QED BY <2>1, PlainPairs DEF V5Work2
<1>12. Pairs(V5About)
  <2>1. "email1" \in SetNotes <=> "e1publ" \in SetNotes
    BY DEF SetNotes
  <2> QED BY <2>1, PlainPairs DEF V5About
<1> QED BY <1>1, <1>2, <1>3, <1>4, <1>5, <1>6, <1>7, <1>8, <1>9, <1>10, <1>11, <1>12

LEMMA V7PlainPairs == \A h \in {V7HPageCat, V7Affilation, V7Interests, V7Perms, V7Notes, V7More, V7Pass} : Pairs(h)
<1>1. Pairs(V7HPageCat)
  <2>1. "email1" \in SetHPageCat <=> "e1publ" \in SetHPageCat
    BY DEF SetHPageCat
  <2> QED BY <2>1, PlainPairs DEF V7HPageCat
<1>2. Pairs(V7Affilation)
  <2>1. "email1" \in SetAffilations <=> "e1publ" \in SetAffilations
    BY DEF SetAffilations
  <2> QED BY <2>1, PlainPairs DEF V7Affilation
<1>3. Pairs(V7Interests)
  <2>1. "email1" \in SetInterests <=> "e1publ" \in SetInterests
    BY DEF SetInterests
  <2> QED BY <2>1, PlainPairs DEF V7Interests
<1>4. Pairs(V7Perms)
  <2>1. "email1" \in SetSecure <=> "e1publ" \in SetSecure
    BY DEF SetSecure
  <2> QED BY <2>1, PlainPairs DEF V7Perms
<1>5. Pairs(V7Notes)
  <2>1. "email1" \in SetNotes <=> "e1publ" \in SetNotes
    BY DEF SetNotes
  <2> QED BY <2>1, PlainPairs DEF V7Notes
<1>6. Pairs(V7More)
  <2>1. "email1" \in SetV5More <=> "e1publ" \in SetV5More
    BY DEF SetV5More
  <2> QED BY <2>1, PlainPairs DEF V7More
<1>7. Pairs(V7Pass)
  <2>1. "email1" \in SetPassword <=> "e1publ" \in SetPassword
    BY DEF SetPassword
  <2> QED BY <2>1, PlainPairs DEF V7Pass
<1> QED BY <1>1, <1>2, <1>3, <1>4, <1>5, <1>6, <1>7
\* A handler that has nothing to do with addresses.
LEMMA ApartPairs ==
  ASSUME NEW h, DOMAIN h.writes \cap InfoEmails = {}, "email1" \notin h.flags, h.reads = FALSE
  PROVE  Pairs(h)
BY DEF Pairs, InfoEmails

\* One request with fields that the client chooses: each is written from itself.
LEMMA ChosenPairs ==
  ASSUME NEW cols, "email1" \in cols <=> "e1publ" \in cols
  PROVE  Pairs(Chosen(cols))
<1> DEFINE h == Chosen(cols)
<1>1. /\ h.fields = cols /\ h.writes = From(cols \ {"notes"}, cols, Empty) /\ h.reads = FALSE
      /\ h.flags = IF "e1publ" \in cols THEN {"email1"} ELSE {}
  BY DEF Chosen, Plain, Saves
<1> HIDE DEF h
<1>2. DOMAIN h.writes = cols \ {"notes"} /\ \A c \in cols \ {"notes"} : h.writes[c] = c
  BY <1>1 DEF From
<1>3. Pairs(h)
  BY <1>1, <1>2 DEF Pairs
<1> QED BY <1>3 DEF h

\* A list that is not full: nothing of it is in email1, and the flags that it has are dropped.
Carried(stored, flags) == {stored[c] : c \in DOMAIN stored} \cup (IF flags # {} THEN {"e1publ"} ELSE {})
Numbers == {"int_num", "past_num", "aff_num"}

LEMMA FewPairs ==
  ASSUME NEW stored, NEW flags, "e1publ" \notin DOMAIN stored,
         flags # {} \/ DOMAIN stored \cap InfoEmails = {}
  PROVE  Pairs(FewOf(stored, flags))
<1> DEFINE carried == Carried(stored, flags)
           spoils == (carried \cup DOMAIN stored) \ Numbers
           h == FewOf(stored, flags)
<1>1. h = [Chosen(carried) EXCEPT !.writes = stored, !.spoils = spoils, !.flags = flags]
  BY DEF FewOf, Carried, Numbers
<1>2. flags # {} => "e1publ" \in carried /\ "e1publ" \in spoils
  BY DEF Carried, Numbers
<1> HIDE DEF carried, spoils, h
<1>3. /\ h.fields = carried /\ h.writes = stored /\ h.spoils = spoils
      /\ h.flags = flags /\ h.reads = FALSE
  BY <1>1 DEF Chosen, Plain, Saves
<1>4. Pairs(h)
  BY <1>2, <1>3 DEF Pairs
<1> QED BY <1>4 DEF h

\* V3 knows one address.
LEMMA V3OtherPairs == \A h \in {V3Work, V3Home, V3Basic} : Pairs(h)
<1>1. Pairs(V3Work)
  <2>1. /\ V3Work.writes = From(SetWork, SetWork \ {"wzip2"}, Undefined) /\ V3Work.reads = FALSE
        /\ V3Work.flags = IF "e1publ" \in SetWork \ {"wzip2"} THEN {"email1"} ELSE {}
    BY DEF V3Work, Saves
  <2>2. DOMAIN V3Work.writes = SetWork
    BY <2>1 DEF From
  <2>3. SetWork \cap InfoEmails = {} /\ "e1publ" \notin SetWork
    BY DEF SetWork, InfoEmails
  <2> QED BY <2>1, <2>2, <2>3, ApartPairs
<1>2. Pairs(V3Home)
  <2>1. /\ V3Home.writes = From(SetHome, SetHome \ {"hzip2"}, Empty) /\ V3Home.reads = FALSE
        /\ V3Home.flags = IF "e1publ" \in SetHome \ {"hzip2"} THEN {"email1"} ELSE {}
    BY DEF V3Home, Saves
  <2>2. DOMAIN V3Home.writes = SetHome
    BY <2>1 DEF From
  <2>3. SetHome \cap InfoEmails = {} /\ "e1publ" \notin SetHome
    BY DEF SetHome, InfoEmails
  <2> QED BY <2>1, <2>2, <2>3, ApartPairs
<1>3. Pairs(V3Basic)
  <2>1. /\ V3Basic.writes = From(SetBasic, SetBasic \ {"email1"}, "email2") /\ V3Basic.fields = SetBasic \ {"email1"}
        /\ V3Basic.reads = FALSE /\ V3Basic.flags = IF "e1publ" \in SetBasic \ {"email1"} THEN {"email1"} ELSE {}
    BY DEF V3Basic, Saves
  <2>2. /\ DOMAIN V3Basic.writes = SetBasic
        /\ \A c \in SetBasic : V3Basic.writes[c] = IF c \in SetBasic \ {"email1"} THEN c ELSE "email2"
    BY <2>1 DEF From
  <2>3. "e1publ" \notin SetBasic
    BY DEF SetBasic
  <2> QED BY <2>1, <2>2, <2>3 DEF Pairs
<1> QED BY <1>1, <1>2, <1>3

LEMMA V7OtherPairs == \A h \in {V7Work, V7Home, V7Email, V7IcqPhone} : Pairs(h)
<1>1. Pairs(V7Work)
  <2>1. "email1" \notin SetWork2 /\ "e1publ" \notin SetWork2
    BY DEF SetWork2
  <2>2. "e1publ" \notin (SetWork2 \ {"wzip"}) \cup {"wzip2"}
    BY <2>1
  <2> QED BY <2>1, <2>2, SavesPairs DEF V7Work
<1>2. Pairs(V7Home)
  <2>1. "email1" \in SetBasic3 /\ "e1publ" \in SetBasic3
    BY DEF SetBasic3, SetBasic2
  <2> QED BY <2>1, SavesPairs DEF V7Home
<1>3. Pairs(V7Email)
  <2>1. V7Email.writes = From(SetBasic2, {"email2", "email3"}, Empty) /\ V7Email.flags = {"email2", "email3"}
    BY DEF V7Email, Saves
  <2>2. "email1" \in SetBasic2 /\ "e1publ" \in SetBasic2
    BY DEF SetBasic2
  <2>3. /\ DOMAIN V7Email.writes = SetBasic2
        /\ \A c \in SetBasic2 : V7Email.writes[c] = IF c \in {"email2", "email3"} THEN c ELSE Empty
    BY <2>1 DEF From
  <2>4. Empty # "email1"
    BY DEF Empty
  <2> QED BY <2>1, <2>2, <2>3, <2>4 DEF Pairs
<1>4. Pairs(V7IcqPhone)
  <2>1. V7IcqPhone.flags = {} /\ V7IcqPhone.writes = From({}, {}, Empty) /\ V7IcqPhone.reads = FALSE
    BY DEF V7IcqPhone, Plain, Saves
  <2>2. DOMAIN V7IcqPhone.writes = {}
    BY <2>1 DEF From
  <2> QED BY <2>1, <2>2, ApartPairs
<1> QED BY <1>1, <1>2, <1>3, <1>4

LEMMA V7InfoPairs == \A h \in {V7Info, V7InfoOne, V7InfoTwo, V7InfoThree, V7InfoZips, V7InfoNotes} : Pairs(h)
<1>1. Pairs(V7Info)
  <2> DEFINE flags == InfoEmails \ {"e1publ"}
  <2>1. "email1" \in InfoAll /\ "e1publ" \in InfoAll
    BY DEF InfoAll, InfoEmails
  <2>2. V7Info = [Chosen(InfoAll) EXCEPT !.flags = flags]
    BY DEF V7Info
  <2> HIDE DEF flags
  <2>3. V7Info.fields = InfoAll /\ V7Info.writes = From(InfoAll \ {"notes"}, InfoAll, Empty) /\ V7Info.reads = FALSE
    BY <2>2 DEF Chosen, Plain, Saves
  <2>4. DOMAIN V7Info.writes = InfoAll \ {"notes"} /\ \A c \in InfoAll \ {"notes"} : V7Info.writes[c] = c
    BY <2>3 DEF From
  <2> QED BY <2>1, <2>3, <2>4 DEF Pairs
<1>2. Pairs(V7InfoOne)
  <2> DEFINE stored == [email3 |-> "email1", lang3 |-> "lang1", int_num |-> "int_num", int_key4 |-> "int_key1",
                        past_num |-> "past_num", past_key3 |-> "past_key1",
                        aff_num |-> "aff_num", aff_key3 |-> "aff_key1"]
  <2>1. "e1publ" \notin DOMAIN stored
    OBVIOUS
  <2>2. V7InfoOne = FewOf(stored, {"email1"})
    BY DEF V7InfoOne
  <2> HIDE DEF stored
  <2> QED BY <2>1, <2>2, FewPairs
<1>5. Pairs(V7InfoTwo)
  <2> DEFINE stored == [email2 |-> "email1", email3 |-> "email2", lang2 |-> "lang1", lang3 |-> "lang2",
                        int_num |-> "int_num", int_key3 |-> "int_key1", int_key4 |-> "int_key2",
                        past_num |-> "past_num", past_key2 |-> "past_key1", past_key3 |-> "past_key2",
                        aff_num |-> "aff_num", aff_key2 |-> "aff_key1", aff_key3 |-> "aff_key2"]
  <2>1. "e1publ" \notin DOMAIN stored
    OBVIOUS
  <2>2. V7InfoTwo = FewOf(stored, {"email1", "email2"})
    BY DEF V7InfoTwo
  <2> HIDE DEF stored
  <2> QED BY <2>1, <2>2, FewPairs
<1>6. Pairs(V7InfoThree)
  <2> DEFINE stored == [int_num |-> "int_num", int_key2 |-> "int_key1", int_key3 |-> "int_key2", int_key4 |-> "int_key3"]
  <2>1. "e1publ" \notin DOMAIN stored /\ DOMAIN stored \cap InfoEmails = {}
    BY DEF InfoEmails
  <2>2. V7InfoThree = FewOf(stored, {})
    BY DEF V7InfoThree
  <2> HIDE DEF stored
  <2> QED BY <2>1, <2>2, FewPairs
<1>3. Pairs(V7InfoZips)
  <2>1. /\ V7InfoZips.writes = From({"nick"}, {"nick"}, Empty) /\ V7InfoZips.reads = FALSE
        /\ V7InfoZips.flags = IF "e1publ" \in {"nick"} \cup InfoZips THEN {"email1"} ELSE {}
    BY DEF V7InfoZips, Chosen, Plain, Saves
  <2>2. DOMAIN V7InfoZips.writes = {"nick"} /\ "e1publ" \notin {"nick"} \cup InfoZips /\ {"nick"} \cap InfoEmails = {}
    BY <2>1 DEF From, InfoZips, InfoEmails
  <2> QED BY <2>1, <2>2, ApartPairs
<1>4. Pairs(V7InfoNotes)
  BY ChosenPairs DEF V7InfoNotes
<1> QED BY <1>1, <1>2, <1>3, <1>4, <1>5, <1>6

LEMMA V7UtfPairs == \A h \in {V7Utf, V7UtfFew, V7UtfPhones} : Pairs(h)
<1>1. Pairs(V7Utf)
  <2> DEFINE cols == UNION {UtfNames, UtfHome, UtfWork, UtfBirth, SetInterests, UtfPhones, {"notes"}}
  <2>1. "email1" \notin cols /\ "e1publ" \notin cols
    BY DEF UtfNames, UtfHome, UtfWork, UtfBirth, SetInterests, UtfPhones
  <2>2. V7Utf = Chosen(cols)
    BY DEF V7Utf
  <2> HIDE DEF cols
  <2> QED BY <2>1, <2>2, ChosenPairs
<1>2. Pairs(V7UtfFew)
  BY ChosenPairs DEF V7UtfFew
<1>3. Pairs(V7UtfPhones)
  <2>1. /\ V7UtfPhones.writes = From({"nick"}, {"nick"}, Empty) /\ V7UtfPhones.reads = FALSE
        /\ V7UtfPhones.flags = IF "e1publ" \in {"nick"} \cup UtfPhones THEN {"email1"} ELSE {}
    BY DEF V7UtfPhones, Chosen, Plain, Saves
  <2>2. DOMAIN V7UtfPhones.writes = {"nick"} /\ "e1publ" \notin {"nick"} \cup UtfPhones /\ {"nick"} \cap InfoEmails = {}
    BY <2>1 DEF From, UtfPhones, InfoEmails
  <2> QED BY <2>1, <2>2, ApartPairs
<1> QED BY <1>1, <1>2, <1>3

\* The handlers, as far as they are seen when addresses are looked at.
LEMMA HandlersPair ==
  ASSUME NEW h \in Handlers, h.at = InfoEmails
  PROVE  Pairs(h) /\ Empty \notin h.fields /\ "notes" \notin h.fields /\ "notes" \notin DOMAIN h.writes
         /\ \A k \in {"email1", "e1publ"} : k \in InfoEmails
<1>1. PICK k \in Saving, a \in Looks : h = Seen(k, a)
  BY DEF Handlers
<1>2. Pairs(k)
  BY V3PlainPairs, V5PlainPairs, V7PlainPairs, V3OtherPairs, V7OtherPairs, V7InfoPairs, V7UtfPairs DEF Saving
<1>3. a = InfoEmails
  BY <1>1 DEF Seen
<1>4. /\ h.fields = k.fields \cap InfoEmails /\ h.flags = k.flags \cap InfoEmails
      /\ h.reads = k.reads /\ h.spoils = k.spoils \cap InfoEmails
      /\ h.writes = Restrict(k.writes, DOMAIN k.writes \cap InfoEmails)
  BY <1>1, <1>3 DEF Seen
<1>5. /\ DOMAIN h.writes = DOMAIN k.writes \cap InfoEmails
      /\ \A c \in DOMAIN k.writes \cap InfoEmails : h.writes[c] = k.writes[c]
  BY <1>4 DEF Restrict
<1>6. "email1" \in InfoEmails /\ "e1publ" \in InfoEmails /\ "notes" \notin InfoEmails /\ Empty \notin InfoEmails
  BY DEF InfoEmails, Empty
<1>7. Pairs(h)
  <2>1. "email1" \in h.flags => "e1publ" \in h.fields
    BY <1>2, <1>4, <1>6 DEF Pairs
  <2>2. ASSUME NEW c \in InfoEmails, c \in DOMAIN h.writes, h.writes[c] = "email1", "e1publ" \notin h.spoils
        PROVE  c = "email1" /\ {"email1", "e1publ"} \subseteq h.fields /\ "e1publ" \in DOMAIN h.writes /\ h.writes["e1publ"] = "e1publ"
    <3>1. c \in DOMAIN k.writes /\ k.writes[c] = "email1" /\ "e1publ" \notin k.spoils
      BY <1>4, <1>5, <1>6, <2>2
    <3>2. c = "email1" /\ {"email1", "e1publ"} \subseteq k.fields /\ "e1publ" \in DOMAIN k.writes /\ k.writes["e1publ"] = "e1publ"
      BY <1>2, <3>1 DEF Pairs
    <3> QED BY <1>4, <1>5, <1>6, <3>2
  <2>3. "e1publ" \in DOMAIN h.writes => "email1" \in DOMAIN h.writes
    BY <1>2, <1>5, <1>6 DEF Pairs
  <2>4. h.reads => /\ "email1" \in DOMAIN h.writes /\ "e1publ" \in DOMAIN h.writes
                   /\ h.writes["email1"] = Empty /\ h.writes["e1publ"] = Empty
    BY <1>2, <1>4, <1>5, <1>6 DEF Pairs
  <2> QED BY <2>1, <2>2, <2>3, <2>4 DEF Pairs
<1> QED BY <1>4, <1>5, <1>6, <1>7
----------------------------------------------------------------------------
(* What is known of a field is not forgotten                               *)

Causes  == {"spoiled", "overlap", "long", "again", "place", "reused", "failed", "half", "left", "moved"}
Reasons == [Everyone -> [look -> SUBSET Causes]]
WhyGrows == why' \in Reasons /\ \A p \in Everyone : \A f \in look : why[p][f] \subseteq why'[p][f]

LEMMA BecauseIs ==
  ASSUME NEW w \in Reasons, NEW p \in Everyone, NEW F, NEW r \in SUBSET Causes
  PROVE  /\ Because(w, p, F, r) \in Reasons
         /\ \A x \in Everyone : \A f \in look : w[x][f] \subseteq Because(w, p, F, r)[x][f]
         /\ \A f \in look \cap F : r \subseteq Because(w, p, F, r)[p][f]
<1> DEFINE row == [f \in look |-> IF f \in F THEN w[p][f] \cup r ELSE w[p][f]]
<1>1. Because(w, p, F, r) = [w EXCEPT ![p] = row]
  BY DEF Because
<1>2. w[p] \in [look -> SUBSET Causes]
  BY DEF Reasons
<1>3. row \in [look -> SUBSET Causes]
  BY <1>2
<1>4. /\ \A f \in look : w[p][f] \subseteq row[f]
      /\ \A f \in look \cap F : r \subseteq row[f]
  OBVIOUS
<1> HIDE DEF row
<1> QED BY <1>1, <1>3, <1>4 DEF Reasons

\* A reason more, once or twice.
LEMMA WhyOnce ==
  ASSUME why \in Reasons, NEW p \in Everyone, NEW F, NEW r \in SUBSET Causes, why' = Because(why, p, F, r)
  PROVE  WhyGrows /\ \A f \in look \cap F : r \subseteq why'[p][f]
BY BecauseIs DEF WhyGrows

LEMMA WhyTwice ==
  ASSUME why \in Reasons, NEW p \in Everyone, NEW F, NEW r \in SUBSET Causes, NEW G, NEW s \in SUBSET Causes,
         why' = Because(Because(why, p, F, r), p, G, s)
  PROVE  WhyGrows /\ \A f \in look \cap F : r \subseteq why'[p][f]
<1> DEFINE w == Because(why, p, F, r)
<1>1. /\ w \in Reasons /\ \A x \in Everyone : \A f \in look : why[x][f] \subseteq w[x][f]
      /\ \A f \in look \cap F : r \subseteq w[p][f]
  BY BecauseIs
<1>2. why' = Because(w, p, G, s)
  OBVIOUS
<1> HIDE DEF w
<1>3. why' \in Reasons /\ \A x \in Everyone : \A f \in look : w[x][f] \subseteq why'[x][f]
  BY <1>1, <1>2, BecauseIs
<1> QED BY <1>1, <1>3 DEF WhyGrows

LEMMA WhyThrice ==
  ASSUME why \in Reasons, NEW p \in Everyone, NEW F, NEW r \in SUBSET Causes, NEW G, NEW s \in SUBSET Causes,
         NEW H, NEW t \in SUBSET Causes, why' = Because(Because(Because(why, p, F, r), p, G, s), p, H, t)
  PROVE  WhyGrows /\ \A f \in look \cap F : r \subseteq why'[p][f]
<1> DEFINE w == Because(why, p, F, r)  v == Because(w, p, G, s)
<1>1. /\ w \in Reasons /\ \A x \in Everyone : \A f \in look : why[x][f] \subseteq w[x][f]
      /\ \A f \in look \cap F : r \subseteq w[p][f]
  BY BecauseIs
<1> HIDE DEF w
<1>2. v \in Reasons /\ \A x \in Everyone : \A f \in look : w[x][f] \subseteq v[x][f]
  BY <1>1, BecauseIs
<1>3. why' = Because(v, p, H, t)
  BY DEF w
<1> HIDE DEF v
<1>4. why' \in Reasons /\ \A x \in Everyone : \A f \in look : v[x][f] \subseteq why'[x][f]
  BY <1>2, <1>3, BecauseIs
<1> QED BY <1>1, <1>2, <1>4 DEF WhyGrows

LEMMA WhyStays == why \in Reasons /\ why' = why => WhyGrows
BY DEF WhyGrows

LEMMA CausesAre ==
  /\ {"spoiled"} \in SUBSET Causes /\ {"overlap"} \in SUBSET Causes /\ {"long"} \in SUBSET Causes
  /\ {"again"} \in SUBSET Causes /\ {"failed"} \in SUBSET Causes /\ {"half"} \in SUBSET Causes
  /\ {"left"} \in SUBSET Causes /\ {"moved"} \in SUBSET Causes
BY DEF Causes

\* The reasons that a request leaves behind.
LEMMA SaveWhy ==
  ASSUME TypeInv, why \in Reasons, NEW q \in PPs, NEW s \in Slots, Save(q, s)
  PROVE  WhyGrows
<1> DEFINE p == slot[s].who
<1>1. PICK h \in Handlers :
        why' = Because(Because(why, p, h.spoils, {"spoiled"}), p, Crossing(p, h), {"overlap"})
  BY DEF Save
<1>2. p \in Everyone
  BY PlaceIs DEF Save
<1> QED BY <1>1, <1>2, CausesAre, WhyTwice

LEMMA TooLongWhy ==
  ASSUME TypeInv, why \in Reasons, NEW q \in PPs, NEW s \in Slots, TooLong(q, s)
  PROVE  WhyGrows
<1> DEFINE p == slot[s].who
<1>1. PICK h \in Handlers : \E junk \in Junk(h) :
        \/ why' = why
        \/ why' = Because(Because(Because(why, p, h.spoils, {"spoiled"}), p, junk, {"long"}),
                          p, Crossing(p, h), {"overlap"})
  BY DEF TooLong
<1>2. p \in Everyone
  BY PlaceIs DEF TooLong
<1> QED BY <1>1, <1>2, CausesAre, WhyThrice, WhyStays

\* The statements of a handler and its answer.
LEMMA WorkWhy ==
  ASSUME TypeInv, SavesInv, why \in Reasons, NEW q \in PPs, Works(q)
  PROVE  WhyGrows
<1>1. st[q] \in SaveJobs /\ st[q].who \in Everyone
  BY WorkTypes DEF SaveJobs
<1>2. ASSUME NEW new, Put(q, new), Known(Uin(q)) PROVE WhyGrows
  <2>1. why' = why \/ why' = Because(why, rows[Uin(q)].who, DOMAIN new, Strays(q, Uin(q)))
    BY <1>2 DEF Put
  <2>2. rows[Uin(q)].who \in Everyone
    BY <1>1, <1>2, UinIs, RowIs
  <2>3. Strays(q, Uin(q)) \in SUBSET Causes
    BY DEF Strays, Causes
  <2> QED BY <2>1, <2>2, <2>3, WhyOnce, WhyStays
<1>3. CASE Read(q)
  BY <1>3, WhyStays DEF Read
<1>4. CASE SaveAbout(q)
  <2>1. why' = why \/ (Known(Uin(q)) /\ Put(q, [c \in {"notes"} |-> Value(st[q].n, c)]))
    BY <1>4 DEF SaveAbout
  <2> QED BY <1>2, <2>1, WhyStays
<1>5. CASE Write(q)
  <2>1. why' = why \/ (Known(Uin(q)) /\ Put(q, [c \in DOMAIN st[q].h.writes |-> Stored(st[q], c)]))
    BY <1>5 DEF Write
  <2> QED BY <1>2, <2>1, WhyStays
<1>6. CASE Fail(q)
  <2>1. why' = why \/ why' = Because(why, st[q].who, Touches(st[q].h), {"failed"})
    BY <1>6 DEF Fail
  <2> QED BY <1>1, <2>1, CausesAre, WhyOnce, WhyStays
<1>7. CASE Answer(q)
  <2>1. \/ why' = why
        \/ why' = Because(why, st[q].who, Touches(st[q].h), {"half"})
        \/ why' = Because(why, st[q].who, Touches(st[q].h), {"left"})
    BY <1>7 DEF Answer
  <2> QED BY <1>1, <2>1, CausesAre, WhyOnce, WhyStays
<1> QED BY <1>3, <1>4, <1>5, <1>6, <1>7 DEF Works

\* A handler that has just begun.
Begun(q) == st' = st \/ (st'[q].junk \in Whole(st'[q].h) /\ Others(q))

LEMMA BeginJunk ==
  ASSUME TypeInv, NEW q \in PPs, NEW n, NEW p, NEW s, NEW h, NEW long, NEW junk, NEW again,
         Begin(q, n, p, s, h, long, junk, again), junk \in Whole(h)
  PROVE  Begun(q)
<1> DEFINE x == [job |-> "save", n |-> n, who |-> p, uin |-> slot[s].uin, slot |-> s, nr |-> slot[s].nr, h |-> h,
                 long |-> long, junk |-> junk, again |-> again,
                 ok |-> ~(long /\ h.toolong = "refuse") /\ ~(h.nothing /\ h.reply = "counted"),
                 half |-> FALSE, base |-> [c \in look |-> NoValue(Empty)],
                 todo |-> Steps(h, long /\ h.toolong = "refuse", junk = {})]
<1>1. st' = [st EXCEPT ![q] = x]
  BY DEF Begin
<1>2. x.junk = junk /\ x.h = h
  OBVIOUS
<1> HIDE DEF x
<1>3. st'[q] = x /\ Others(q)
  BY <1>1 DEF TypeInv, Others
<1> QED BY <1>2, <1>3 DEF Begun

\* What is asked of a handler that is seen when addresses are looked at.
LEMMA AskedHonestly ==
  ASSUME TypeInv, NEW s \in Slots, NEW h \in Handlers, NEW hide \in SUBSET h.flags,
         Served(s, h), Sent(slot[s].who, s, h, hide)
  PROVE  "email1" \in look => \A n \in Len(sent) + 1 .. Len(sent') : Honest(sent'[n])
<1> DEFINE e == [who |-> slot[s].who, hide |-> hide, h |-> h, nr |-> slot[s].nr]
<1>1. sent' = Append(sent, e) /\ e.hide = hide /\ e.h = h
  BY DEF Sent
<1> HIDE DEF e
<1>2. \A n \in Len(sent) + 1 .. Len(sent') : sent'[n] = e
  BY <1>1 DEF TypeInv
<1>3. h.at = look
  BY DEF Served
<1>4. "email1" \in look => h.at = InfoEmails /\ ("email1" \in h.flags => "e1publ" \in h.fields)
  BY <1>3, EmailsAre, HandlersPair DEF Pairs, TypeInv
<1> QED BY <1>1, <1>2, <1>4 DEF Honest

LEMMA SaveAsks ==
  ASSUME TypeInv, NEW q \in PPs, NEW s \in Slots, Save(q, s)
  PROVE  Begun(q) /\ ("email1" \in look => \A n \in Len(sent) + 1 .. Len(sent') : Honest(sent'[n]))
<1> DEFINE p == slot[s].who
<1> DEFINE Asks(h, hide) ==
             Served(s, h) /\ Sent(p, s, h, hide) /\ Begin(q, Len(sent) + 1, p, s, h, FALSE, {}, FALSE)
<1>0. PICK h \in Handlers : \E hide \in SUBSET h.flags : Asks(h, hide)
  BY DEF Save
<1>1. PICK hide \in SUBSET h.flags : Asks(h, hide)
  BY <1>0
<1>2. Begun(q)
  BY <1>1, BeginJunk DEF Whole
<1> QED BY <1>1, <1>2, AskedHonestly

LEMMA TooLongAsks ==
  ASSUME TypeInv, NEW q \in PPs, NEW s \in Slots, TooLong(q, s)
  PROVE  Begun(q) /\ ("email1" \in look => \A n \in Len(sent) + 1 .. Len(sent') : Honest(sent'[n]))
<1> DEFINE p == slot[s].who
<1> DEFINE Asks(h, junk) ==
        /\ Served(s, h) /\ Sent(p, s, h, h.flags)
        /\ st' = st \/ Begin(q, Len(sent) + 1, p, s, h, TRUE, junk, FALSE)
<1>0. PICK h \in Handlers : \E junk \in Junk(h) : Asks(h, junk)
  BY DEF TooLong
<1>1. PICK junk \in Junk(h) : Asks(h, junk)
  BY <1>0
<1>2. Begun(q)
  <2>1. junk \in Whole(h)
    BY <1>1 DEF Junk, Whole
  <2> QED BY <1>1, <2>1, BeginJunk DEF Begun
<1>3. h.flags \in SUBSET h.flags
  OBVIOUS
<1> QED BY <1>1, <1>2, <1>3, AskedHonestly

LEMMA AgainAsks ==
  ASSUME TypeInv, NEW q \in PPs, NEW n \in 1 .. Len(sent), Again(q, n)
  PROVE  Begun(q) /\ sent' = sent
<1>1. PICK s \in Slots : Begin(q, n, sent[n].who, s, sent[n].h, FALSE, {}, TRUE)
  BY DEF Again
<1>2. {} \in Whole(sent[n].h)
  BY DEF Whole
<1> QED BY <1>1, <1>2, BeginJunk DEF Again

----------------------------------------------------------------------------
(* AddressInv is inductive                                                 *)

LEMMA AllSent ==
  ASSUME TypeInv, SentGrows, NEW v, IsSent(v), v.nr > 0
  PROVE  v.nr \in 1 .. Len(sent) /\ v.nr \in 1 .. Len(sent') /\ sent'[v.nr] = sent[v.nr] /\ sent[v.nr].who \in Everyone
<1>1. Len(sent) \in Nat /\ sent \in Seq(Requests) /\ Len(sent') \in Nat
  BY DEF TypeInv, Requests, SentGrows
<1>2. v.nr \in 1 .. Len(sent)
  BY <1>1 DEF IsSent
<1>3. sent[v.nr] \in Requests
  BY <1>1, <1>2
<1> QED BY <1>1, <1>2, <1>3 DEF SentGrows, Requests

LEMMA BareIs ==
  ASSUME TypeInv, SentGrows, NEW v, IsSent(v), Bare(sent', v)
  PROVE  Bare(sent, v)
<1>1. v.nr > 0
  BY DEF Bare
<1>2. sent'[v.nr] = sent[v.nr]
  BY <1>1, AllSent
<1> QED BY <1>1, <1>2 DEF Bare

LEMMA ShieldedStays ==
  ASSUME TypeInv, SentGrows, look = InfoEmails, NEW val, \A c \in look : IsSent(val[c]), Shielded(sent, val)
  PROVE  Shielded(sent', val)
<1> SUFFICES ASSUME NEW c \in look, Bare(sent', val[c])
             PROVE  c = "email1" /\ val["e1publ"].nr > 0 /\ "email1" \in sent'[val["e1publ"].nr].hide
  BY DEF Shielded
<1>1. Bare(sent, val[c])
  BY BareIs
<1>2. c = "email1" /\ val["e1publ"].nr > 0 /\ "email1" \in sent[val["e1publ"].nr].hide
  BY <1>1 DEF Shielded
<1>3. "e1publ" \in look
  BY DEF InfoEmails
<1> QED BY <1>2, <1>3, AllSent

\* A value that nobody sent is not an address.
LEMMA NotBare ==
  ASSUME NEW ss, NEW v, v.nr = -1 \/ v.nr = 0
  PROVE  ~Bare(ss, v)
BY DEF Bare

\* A handler that goes on, with what it has read or with what it reads now.
GoesOn(x) ==
  /\ st[x].job = "save" /\ st'[x].n = st[x].n /\ st'[x].h = st[x].h /\ st'[x].junk = st[x].junk
  /\ st'[x].base = st[x].base \/ \E u \in Uins : Known(u) /\ st'[x].base = rows[u].val
GetsGoing(x) ==
  /\ st'[x].n \in 1 .. Len(sent') /\ st'[x].h = sent'[st'[x].n].h /\ st'[x].junk \in Whole(st'[x].h)
  /\ \A c \in look : st'[x].base[c] = NoValue(Empty)

LEMMA AddressStays ==
  ASSUME TypeInv, SavesInv, AddressInv, look' = look, SentGrows,
         "email1" \in look => \A n \in Len(sent) + 1 .. Len(sent') : Honest(sent'[n]),
         \A u \in Uins : rows'[u] # NoRow =>
           \/ rows[u] # NoRow /\ rows'[u].val = rows[u].val
           \/ "email1" \in look => Shielded(sent', rows'[u].val),
         \A x \in PPs : st'[x].job = "save" => GoesOn(x) \/ GetsGoing(x)
  PROVE  AddressInv'
<1> SUFFICES ASSUME "email1" \in look
             PROVE  /\ \A u \in Uins : rows'[u] # NoRow => Shielded(sent', rows'[u].val)
                    /\ \A q \in PPs : st'[q].job = "save" =>
                         /\ st'[q].h = sent'[st'[q].n].h /\ st'[q].junk \in Whole(st'[q].h)
                         /\ Shielded(sent', st'[q].base)
                    /\ \A n \in 1 .. Len(sent') : Honest(sent'[n])
  BY DEF AddressInv, Known
<1>2. look = InfoEmails /\ "e1publ" \in look
  BY EmailsAre DEF TypeInv, InfoEmails
<1>3. ASSUME NEW u \in Uins, Known(u) PROVE Shielded(sent', rows[u].val)
  <2>1. Shielded(sent, rows[u].val) /\ \A c \in look : IsSent(rows[u].val[c])
    BY <1>3 DEF AddressInv, SavesInv
  <2> QED BY <1>2, <2>1, ShieldedStays
<1>4. \A u \in Uins : rows'[u] # NoRow => Shielded(sent', rows'[u].val)
  BY <1>3 DEF Known
<1>5. ASSUME NEW x \in PPs, st'[x].job = "save", GoesOn(x)
      PROVE  st'[x].h = sent'[st'[x].n].h /\ st'[x].junk \in Whole(st'[x].h) /\ Shielded(sent', st'[x].base)
  <2>1. /\ st[x].h = sent[st[x].n].h /\ st[x].junk \in Whole(st[x].h) /\ Shielded(sent, st[x].base)
        /\ st[x].n \in 1 .. Len(sent) /\ \A c \in look : IsSent(st[x].base[c])
    BY <1>5 DEF GoesOn, AddressInv, SavesInv
  <2>2. Shielded(sent', st[x].base)
    BY <1>2, <2>1, ShieldedStays
  <2>3. sent'[st[x].n] = sent[st[x].n]
    BY <2>1 DEF SentGrows
  <2> QED BY <1>3, <1>5, <2>1, <2>2, <2>3 DEF GoesOn
<1>6. ASSUME NEW x \in PPs, st'[x].job = "save", GetsGoing(x)
      PROVE  st'[x].h = sent'[st'[x].n].h /\ st'[x].junk \in Whole(st'[x].h) /\ Shielded(sent', st'[x].base)
  <2>1. NoValue(Empty).nr = -1
    BY DEF NoValue, Value
  <2>2. \A c \in look : ~Bare(sent', st'[x].base[c])
    BY <1>6, <2>1, NotBare DEF GetsGoing
  <2> QED BY <1>2, <1>6, <2>2 DEF GetsGoing, Shielded
<1>7. ASSUME NEW n \in 1 .. Len(sent') PROVE Honest(sent'[n])
  <2>1. Len(sent) \in Nat /\ Len(sent') \in Nat /\ sent \in Seq(Requests)
    BY DEF TypeInv, Requests, SentGrows
  <2>2. CASE n \in 1 .. Len(sent)
    <3>1. sent'[n] = sent[n]
      BY <2>1, <2>2 DEF SentGrows
    <3>2. Honest(sent[n])
      BY <2>2 DEF AddressInv
    <3> QED BY <3>1, <3>2
  <2>3. CASE n \notin 1 .. Len(sent)
    BY <2>1, <2>3
  <2> QED BY <2>2, <2>3
<1> QED BY <1>4, <1>5, <1>6, <1>7

LEMMA RequestAddress ==
  ASSUME TypeInv, SavesInv, AddressInv, NEW q \in PPs, Begins(q), Begun(q), look' = look, rows' = rows,
         "email1" \in look => \A n \in Len(sent) + 1 .. Len(sent') : Honest(sent'[n])
  PROVE  AddressInv'
<1>1. \A x \in PPs : st'[x] = st[x] => (st'[x].job = "save" => GoesOn(x))
  BY DEF GoesOn
<1>2. SentGrows
  BY DEF Begins
<1>3. st' = st \/ \A x \in PPs : x # q => st'[x] = st[x]
  BY DEF Begun, Others
<1>4. st' = st \/ GetsGoing(q)
  BY DEF Begins, Begun, GetsGoing, Starts
<1>5. \A x \in PPs : st'[x].job = "save" => GoesOn(x) \/ GetsGoing(x)
  BY <1>1, <1>3, <1>4
<1> QED BY <1>2, <1>5, AddressStays

LEMMA OtherAddress ==
  ASSUME TypeInv, SavesInv, AddressInv, look' = look, sent' = sent,
         \A x \in PPs : st'[x] = st[x] \/ st'[x].job # "save",
         \A u \in Uins : rows'[u] # NoRow => rows'[u] = rows[u] \/ \E p \in Everyone : rows'[u] = Fresh(p)
  PROVE  AddressInv'
<1>1. SentGrows /\ Len(sent) \in Nat
  BY SentStays DEF TypeInv
<1>2. ASSUME NEW u \in Uins, rows'[u] # NoRow
      PROVE  \/ rows[u] # NoRow /\ rows'[u].val = rows[u].val
             \/ "email1" \in look => Shielded(sent', rows'[u].val)
  <2>1. ASSUME NEW p \in Everyone, rows'[u] = Fresh(p), "email1" \in look PROVE Shielded(sent', rows'[u].val)
    <3>1. \A c \in look : rows'[u].val[c].nr = 0
      <4>1. \A c \in look : rows'[u].val[c] = Value(0, c)
        BY <2>1, FreshIs DEF TypeInv
      <4>2. \A c : Value(0, c).nr = 0
        BY DEF Value
      <4> QED BY <4>1, <4>2
    <3>2. \A c \in look : ~Bare(sent', rows'[u].val[c])
      BY <3>1, NotBare
    <3> QED BY <2>1, <3>2, EmailsAre DEF Shielded, TypeInv
  <2> QED BY <1>2, <2>1
<1>3. \A x \in PPs : st'[x].job = "save" => GoesOn(x)
  BY DEF GoesOn
<1> QED BY <1>1, <1>2, <1>3, AddressStays
\* What a statement stores: a bare address goes into its column, with its flag.
LEMMA StoresShielded ==
  ASSUME TypeInv, SavesInv, AddressInv, look = InfoEmails, NEW q \in PPs, st[q] \in SaveJobs, st[q].job = "save",
         NEW c \in look, c \in DOMAIN st[q].h.writes, Bare(sent, Stored(st[q], c))
  PROVE  /\ c = "email1" /\ "e1publ" \in DOMAIN st[q].h.writes
         /\ Stored(st[q], "e1publ").nr > 0 /\ "email1" \in sent[Stored(st[q], "e1publ").nr].hide
<1> DEFINE t == st[q]  h == t.h  f == h.writes[c]
<1>1. "email1" \in look /\ "e1publ" \in look
  BY DEF InfoEmails
<1>2. /\ h = sent[t.n].h /\ t.junk \in Whole(h) /\ Shielded(sent, t.base)
      /\ t.n \in 1 .. Len(sent) /\ Honest(sent[t.n]) /\ h \in Handlers
  BY <1>1 DEF AddressInv, SavesInv, SaveJobs
<1>3. h.at = InfoEmails
  BY <1>2 DEF Honest
<1>4. Pairs(h) /\ Empty \notin h.fields /\ "notes" \notin h.fields
  BY <1>2, <1>3, HandlersPair
<1>5. Len(sent) \in Nat /\ t.n > 0
  BY <1>2 DEF TypeInv
<1>6. Bare(sent, Stored(t, c))
  OBVIOUS
<1>7. \A x : ~Bare(sent, NoValue(x))
  BY DEF Bare, NoValue, Value
<1>8. \/ f \notin t.junk /\ f = Empty /\ h.reads /\ Stored(t, c) = t.base[c]
      \/ f \notin t.junk /\ Stored(t, c) = Value(t.n, f)
  BY <1>6, <1>7 DEF Stored
<1> HIDE DEF t
<1>9. CASE f \notin t.junk /\ f = Empty /\ h.reads /\ Stored(t, c) = t.base[c]
  <2>1. c = "email1" /\ t.base["e1publ"].nr > 0 /\ "email1" \in sent[t.base["e1publ"].nr].hide
    BY <1>2, <1>6, <1>9 DEF Shielded
  <2>2. "e1publ" \in DOMAIN h.writes /\ h.writes["e1publ"] = Empty
    BY <1>4, <1>9 DEF Pairs
  <2>3. Stored(t, "e1publ") = t.base["e1publ"]
    BY <1>9, <2>2 DEF Stored, Empty, Undefined
  <2> QED BY <2>1, <2>2, <2>3 DEF t
<1>10. CASE f \notin t.junk /\ Stored(t, c) = Value(t.n, f)
  <2>1. f = "email1" /\ "email1" \in sent[t.n].hide /\ "e1publ" \notin sent[t.n].h.spoils
    BY <1>6, <1>10 DEF Bare, Value
  <2>2. "e1publ" \notin h.spoils
    BY <1>2, <2>1
  <2>3. /\ c = "email1" /\ {"email1", "e1publ"} \subseteq h.fields
        /\ "e1publ" \in DOMAIN h.writes /\ h.writes["e1publ"] = "e1publ"
    <3>1. c \in InfoEmails /\ c \in DOMAIN h.writes
      BY DEF t
    <3> QED BY <1>4, <2>1, <2>2, <3>1 DEF Pairs
  <2>4. "e1publ" \notin t.junk
    BY <1>2, <1>10, <2>1, <2>3 DEF Whole
  <2>5. Stored(t, "e1publ") = Value(t.n, "e1publ")
    BY <2>3, <2>4 DEF Stored, Empty, Undefined
  <2>6. Value(t.n, "e1publ").nr = t.n
    BY DEF Value
  <2> QED BY <1>5, <2>1, <2>3, <2>5, <2>6 DEF t
<1> QED BY <1>8, <1>9, <1>10

LEMMA WriteShielded ==
  ASSUME TypeInv, SavesInv, AddressInv, look = InfoEmails, NEW q \in PPs, st[q] \in SaveJobs, st[q].job = "save",
         NEW old, Shielded(sent, old), NEW val,
         \A c \in look : val[c] = IF c \in DOMAIN st[q].h.writes THEN Stored(st[q], c) ELSE old[c]
  PROVE  Shielded(sent, val)
<1> DEFINE h == st[q].h
<1>1. "email1" \in look /\ "e1publ" \in look
  BY DEF InfoEmails
<1>2. h = sent[st[q].n].h /\ Honest(sent[st[q].n]) /\ h \in Handlers
  BY <1>1 DEF AddressInv, SavesInv, SaveJobs
<1>3. Pairs(h)
  BY <1>2, HandlersPair DEF Honest
<1> SUFFICES ASSUME NEW c \in look, Bare(sent, val[c])
             PROVE  c = "email1" /\ val["e1publ"].nr > 0 /\ "email1" \in sent[val["e1publ"].nr].hide
  BY DEF Shielded
<1>4. CASE c \in DOMAIN h.writes
  <2>1. Bare(sent, Stored(st[q], c))
    BY <1>4
  <2>2. /\ c = "email1" /\ "e1publ" \in DOMAIN st[q].h.writes
        /\ Stored(st[q], "e1publ").nr > 0 /\ "email1" \in sent[Stored(st[q], "e1publ").nr].hide
    BY <1>4, <2>1, StoresShielded
  <2>3. val["e1publ"] = Stored(st[q], "e1publ")
    BY <1>1, <2>2
  <2> QED BY <2>2, <2>3
<1>5. CASE c \notin DOMAIN h.writes
  <2>1. c = "email1" /\ old["e1publ"].nr > 0 /\ "email1" \in sent[old["e1publ"].nr].hide
    BY <1>5 DEF Shielded
  <2>2. "e1publ" \notin DOMAIN h.writes
    BY <1>3, <1>5, <2>1 DEF Pairs
  <2>3. val["e1publ"] = old["e1publ"]
    BY <1>1, <2>2
  <2> QED BY <2>1, <2>3
<1> QED BY <1>4, <1>5

LEMMA WorkAddress ==
  ASSUME TypeInv, SavesInv, SavesInv', AddressInv, NEW q \in PPs, Works(q)
  PROVE  AddressInv'
<1>1. /\ Moves(q) /\ st[q] \in SaveJobs /\ st[q].job = "save" /\ look' = look /\ sent' = sent
  BY WorkTypes
<1>2. SentGrows /\ Len(sent) \in Nat
  BY <1>1, SentStays DEF TypeInv
<1>3. Uin(q) \in Uins
  BY <1>1, UinIs
<1>4. ASSUME NEW x \in PPs, st'[x].job = "save" PROVE GoesOn(x)
  <2>1. CASE x # q
    BY <1>1, <1>4, <2>1 DEF Moves, Others, GoesOn
  <2>2. CASE x = q
    <3>1. /\ st[q].job = "save" /\ st'[q].n = st[q].n /\ st'[q].h = st[q].h /\ st'[q].junk = st[q].junk
      BY <1>1, <1>4, <2>2 DEF Moves, KeepsJob
    <3>2. st'[q].base = st[q].base \/ (Known(Uin(q)) /\ st'[q].base = rows[Uin(q)].val)
      BY <1>4, <2>2, ReadMoves, WriteMoves, FailMoves, AnswerMoves DEF Works, KeepsBase
    <3> QED BY <1>3, <2>2, <3>1, <3>2 DEF GoesOn
  <2> QED BY <2>1, <2>2
<1>5. ASSUME NEW u \in Uins, rows'[u] # NoRow
      PROVE  \/ rows[u] # NoRow /\ rows'[u].val = rows[u].val
             \/ "email1" \in look => Shielded(sent', rows'[u].val)
  <2>1. CASE rows' = rows
    BY <1>5, <2>1
  <2>2. ASSUME NEW new, Known(Uin(q)), Put(q, new), \A d \in look \cap DOMAIN new : new[d] \in Values,
               "email1" \in look, u = Uin(q),
               \/ DOMAIN new = {"notes"}
               \/ DOMAIN new = DOMAIN st[q].h.writes /\ \A c \in DOMAIN new : new[c] = Stored(st[q], c)
        PROVE  Shielded(sent', rows'[u].val)
    <3>1. \A c \in look : rows'[u].val[c] = IF c \in DOMAIN new THEN new[c] ELSE rows[u].val[c]
      BY <1>1, <2>2, PutIs
    <3>2. look = InfoEmails
      BY <2>2, EmailsAre DEF TypeInv
    <3>3. Shielded(sent, rows[u].val)
      BY <2>2 DEF AddressInv
    <3>4. Shielded(sent, rows'[u].val)
      <4>1. CASE DOMAIN new = {"notes"}
        <5>1. "notes" \notin InfoEmails /\ "e1publ" \in InfoEmails
          BY DEF InfoEmails
        <5>2. \A c \in InfoEmails : rows'[u].val[c] = rows[u].val[c]
          BY <3>1, <3>2, <4>1, <5>1
        <5> QED BY <3>3, <5>1, <5>2 DEF Shielded
      <4>2. CASE DOMAIN new = DOMAIN st[q].h.writes /\ \A c \in DOMAIN new : new[c] = Stored(st[q], c)
        <5>1. \A c \in look : rows'[u].val[c] = IF c \in DOMAIN st[q].h.writes THEN Stored(st[q], c) ELSE rows[u].val[c]
          BY <3>1, <4>2
        <5> QED BY <1>1, <3>2, <3>3, <5>1, WriteShielded
      <4> QED BY <2>2, <4>1, <4>2
    <3>5. \A c \in look : IsSent(rows'[u].val[c])
      BY <1>1, <1>5 DEF SavesInv, Known, IsSent
    <3> QED BY <1>2, <3>2, <3>4, <3>5, ShieldedStays
  <2>3. ASSUME NEW new, Known(Uin(q)), Put(q, new), \A d \in look \cap DOMAIN new : new[d] \in Values, u # Uin(q)
        PROVE  rows'[u] = rows[u]
    BY <1>1, <2>3, PutIs
  <2>4. CASE SaveAbout(q) /\ Known(Uin(q))
    <3> DEFINE new == [c \in {"notes"} |-> Value(st[q].n, c)]
    <3>1. Put(q, new)
      BY <2>4 DEF SaveAbout
    <3>2. \A d \in look \cap DOMAIN new : new[d] \in Values
      <4>1. st[q].n \in Nat /\ "notes" \in Names
        BY <1>1 DEF SaveJobs, Names
      <4> QED BY <4>1 DEF Values, Value
    <3>3. DOMAIN new = {"notes"}
      OBVIOUS
    <3> HIDE DEF new
    <3> QED BY <1>5, <2>2, <2>3, <2>4, <3>1, <3>2, <3>3
  <2>5. CASE Write(q) /\ Known(Uin(q))
    <3> DEFINE new == [c \in DOMAIN st[q].h.writes |-> Stored(st[q], c)]
    <3>1. Put(q, new)
      BY <2>5 DEF Write
    <3>2. \A d \in look \cap DOMAIN new : new[d] \in Values
      BY <1>1, StoredIs
    <3>3. DOMAIN new = DOMAIN st[q].h.writes /\ \A c \in DOMAIN new : new[c] = Stored(st[q], c)
      OBVIOUS
    <3> HIDE DEF new
    <3> QED BY <1>5, <2>2, <2>3, <2>5, <3>1, <3>2, <3>3
  <2>6. CASE ~Known(Uin(q)) \/ Read(q) \/ Fail(q) \/ Answer(q)
    <3>1. rows' = rows
      BY <2>6 DEF Works, Read, SaveAbout, Write, Fail, Answer, data
    <3> QED BY <2>1, <3>1
  <2> QED BY <2>4, <2>5, <2>6 DEF Works
<1> QED BY <1>1, <1>2, <1>4, <1>5, AddressStays
LEMMA StepAddress ==
  ASSUME IInv, IInv', AddressInv, [Next]_vars
  PROVE  AddressInv'
<1>1. TypeInv /\ SavesInv /\ SavesInv' /\ SessionsInv
  BY DEF IInv
<1>2. ASSUME NEW q \in PPs, NEW s \in Slots, Save(q, s) PROVE AddressInv'
  <2>1. look' = look /\ rows' = rows
    BY <1>2 DEF Save, data
  <2> QED BY <1>1, <1>2, <2>1, SaveBegins, SaveAsks, RequestAddress
<1>3. ASSUME NEW q \in PPs, NEW s \in Slots, TooLong(q, s) PROVE AddressInv'
  <2>1. look' = look /\ rows' = rows
    BY <1>3 DEF TooLong, data
  <2> QED BY <1>1, <1>3, <2>1, TooLongBegins, TooLongAsks, RequestAddress
<1>4. ASSUME NEW q \in PPs, NEW n \in 1 .. Len(sent), Again(q, n) PROVE AddressInv'
  <2>1. look' = look /\ rows' = rows
    BY <1>4 DEF Again, data
  <2>2. Begins(q) /\ Begun(q) /\ sent' = sent
    BY <1>1, <1>4, AgainBegins, AgainAsks
  <2>3. Len(sent) \in Nat
    BY <1>1 DEF TypeInv
  <2>4. \A m \in Len(sent) + 1 .. Len(sent') : FALSE
    BY <2>2, <2>3
  <2> QED BY <1>1, <2>1, <2>2, <2>4, RequestAddress
<1>5. ASSUME NEW q \in PPs, Works(q) PROVE AddressInv'
  BY <1>1, <1>5, WorkAddress
<1>6. ASSUME NEW q \in PPs, (\E s \in Slots : Leave(q, s)) \/ Delete(q) \/ DeleteFails(q) \/ Goodbye(q)
      PROVE  AddressInv'
  <2>1. look' = look /\ sent' = sent /\ \A x \in PPs : st'[x] = st[x] \/ st'[x].job # "save"
    BY <1>1, <1>6, LeaveTypes DEF Others
  <2>2. \A u \in Uins : rows'[u] # NoRow => rows'[u] = rows[u]
    <3>1. CASE Delete(q)
      BY <1>1, <3>1, DeleteRows
    <3>2. CASE ~Delete(q)
      BY <1>6, <3>2 DEF Leave, DeleteFails, Goodbye, data
    <3> QED BY <3>1, <3>2
  <2> QED BY <1>1, <2>1, <2>2, OtherAddress
<1>7. ASSUME NEW q \in PPs, (\E n \in Newcomers : Join(q, n)) \/ Joins(q) PROVE AddressInv'
  <2>1. look' = look /\ sent' = sent /\ \A x \in PPs : st'[x] = st[x] \/ st'[x].job # "save"
    BY <1>1, <1>7, JoinTypes DEF Others
  <2>2. \A u \in Uins : rows'[u] # NoRow => rows'[u] = rows[u] \/ \E p \in Everyone : rows'[u] = Fresh(p)
    BY <1>1, <1>7, JoinRows
  <2> QED BY <1>1, <2>1, <2>2, OtherAddress
<1>8. CASE (\E p \in Everyone : Login(p)) \/ (\E s \in Slots : Logoff(s)) \/ UNCHANGED vars
  <2>1. look' = look /\ rows' = rows /\ st' = st /\ sent' = sent
    BY <1>8 DEF Login, Logoff, vars, data, past
  <2>2. \A u \in Uins : rows'[u] # NoRow => rows'[u] = rows[u]
    BY <2>1
  <2> QED BY <1>1, <2>1, <2>2, OtherAddress
<1> QED BY <1>2, <1>3, <1>4, <1>5, <1>6, <1>7, <1>8 DEF Next, Works, Joins

LEMMA InitAddress ==
  ASSUME Init
  PROVE  AddressInv
<1>2. look \in Looks /\ sent = <<>> /\ st = [q \in PPs |-> Idle]
  BY DEF Init
<1>3. \A q \in PPs : st[q].job # "save"
  BY <1>2, IdleIs
<1>4. ASSUME NEW u \in Uins, Known(u), "email1" \in look PROVE Shielded(sent, rows[u].val)
  <2>1. \E p \in Everyone : rows[u] = Fresh(p)
    <3>1. rows \in [Uins -> {NoRow} \cup {Fresh(p) : p \in Users}]
      BY InitIs
    <3> QED BY <1>4, <3>1 DEF Known, Everyone
  <2>2. \A c \in look : rows[u].val[c].nr = 0
    <3>1. \A c \in look : rows[u].val[c] = Value(0, c)
      BY <1>2, <2>1, FreshIs
    <3>2. \A c : Value(0, c).nr = 0
      BY DEF Value
    <3> QED BY <3>1, <3>2
  <2>3. \A c \in look : ~Bare(sent, rows[u].val[c])
    BY <2>2, NotBare
  <2> QED BY <1>2, <1>4, <2>3, EmailsAre DEF Shielded
<1>5. 1 .. Len(sent) = {}
  BY <1>2
<1> QED BY <1>3, <1>4, <1>5 DEF AddressInv

\* A reply that shows the column of the addresses has nothing or another address for a stranger.
LEMMA RepliesHide == \A r \in Showing : "email1" \in r.cols => r.instead = Empty \/ r.instead = "email2"
<1>1. \A r \in {V3Found, V3BasicInfo, V3BasicSingle, V3WorkInfo, V3HomeInfo, V3WorkWeb, V3HomeWeb, V3NotesInfo} : "email1" \notin r.cols
  BY DEF V3Found, V3BasicInfo, V3BasicSingle, V3WorkInfo, V3HomeInfo, V3WorkWeb, V3HomeWeb, V3NotesInfo, Shows, People, SetWork, SetHome
<1>2. \A r \in {V5ShortInfo, V5MoreInfo, V5MoreInfo2, V5WorkInfo, V5WorkInfo2, V5AboutInfo, V5HPageInfo,
                V5InterestInfo, V5AffilInfo} : "email1" \notin r.cols
  BY DEF V5ShortInfo, V5MoreInfo, V5MoreInfo2, V5WorkInfo, V5WorkInfo2, V5AboutInfo, V5HPageInfo,
         V5InterestInfo, V5AffilInfo, Shows, People, SetV5More, SetWork2, SetHPageCat, SetInterests, SetAffilations
<1>3. \A r \in {V5Found, V5Found2, V5WhiteFound, V5WhiteFound2, V5OldInfo, V5OldInfoExt, V5OldFound} : "email1" \notin r.cols
  BY DEF V5Found, V5Found2, V5WhiteFound, V5WhiteFound2, V5OldInfo, V5OldInfoExt, V5OldFound, Shows, People
<1>4. \A r \in {V7MoreInfo, V7EmailInfo, V7HPageInfo, V7WorkInfo, V7AboutInfo, V7InterestInfo, V7AffilInfo} : "email1" \notin r.cols
  BY DEF V7MoreInfo, V7EmailInfo, V7HPageInfo, V7WorkInfo, V7AboutInfo, V7InterestInfo, V7AffilInfo, Shows,
         SetV5More, SetWork2, SetHPageCat, SetInterests, SetAffilations
<1>5. \A r \in {V5Info2, V5Info3, V7HomeInfo, V7ShortInfo} : r.instead = Empty
  BY DEF V5Info2, V5Info3, V7HomeInfo, V7ShortInfo, Hides
<1>6. \A r \in {V7Found, V7UtfFound} : r.instead = "email2"
  BY DEF V7Found, V7UtfFound, Hides
<1> QED BY <1>1, <1>2, <1>3, <1>4, <1>5, <1>6 DEF Showing

\* A column of a shielded row that a reply shows: not a bare address.
LEMMA ShownIsShielded ==
  ASSUME NEW ss, NEW val, Shielded(ss, val), NEW reply \in Showing, NEW c \in reply.cols \cap InfoEmails,
         NEW hidden, hidden <=> val["e1publ"].nr > 0 /\ "email1" \in ss[val["e1publ"].nr].hide,
         NEW col, col = Column(reply, c, FALSE, hidden), col # Empty
  PROVE  ~Bare(ss, val[col])
<1> SUFFICES ASSUME Bare(ss, val[col]) PROVE FALSE
  OBVIOUS
<1>1. col = c \/ (c = "email1" /\ hidden /\ col = reply.instead)
  BY DEF Column
<1>2. "email2" \in InfoEmails
  BY DEF InfoEmails
<1>3. col \in InfoEmails
  BY <1>1, <1>2, RepliesHide
<1>4. col = "email1" /\ hidden
  BY <1>3 DEF Shielded
<1>5. c # "email1"
  BY <1>4, RepliesHide DEF Column
<1> QED BY <1>1, <1>4, <1>5

\* An address that its owner sent as hidden is shown to no one else, whatever other
\* requests do meanwhile, unless it came with a flag that is dropped: that of any address but
\* email1, and that of email1 in a list that is not full (HiddenIsHidden).
THEOREM HiddenAddresses == Spec => []HiddenIsHidden
<1>1. Init => AddressInv
  BY InitAddress
<1>2. IInv /\ IInv' /\ AddressInv /\ [Next]_vars => AddressInv'
  BY StepAddress
<1>3. ASSUME IInv, AddressInv, NEW u \in Uins, Known(u), "email1" \in look,
             NEW reply \in Showing, NEW c \in reply.cols \cap look,
             NEW col \in {ForStranger(reply, c, rows[u].val)} \ {Empty}
      PROVE  ~Bare(sent, rows[u].val[col])
  <2> DEFINE val == rows[u].val
             hidden == val["e1publ"].nr > 0 /\ "email1" \in sent[val["e1publ"].nr].hide
  <2>1. c \in reply.cols \cap InfoEmails /\ Shielded(sent, val)
    BY <1>3, EmailsAre DEF IInv, TypeInv, AddressInv
  <2>2. col = Column(reply, c, FALSE, hidden) /\ col # Empty
    BY <1>3 DEF ForStranger, Asked
  <2>3. hidden <=> val["e1publ"].nr > 0 /\ "email1" \in sent[val["e1publ"].nr].hide
    OBVIOUS
  <2> HIDE DEF val, hidden
  <2>4. ~Bare(sent, val[col])
    BY <2>1, <2>2, <2>3, ShownIsShielded
  <2> QED BY <2>4 DEF val
<1>4. IInv /\ AddressInv => HiddenIsHidden
  <2> SUFFICES ASSUME IInv, AddressInv, NEW u \in Uins, Known(u), "email1" \in look,
                      NEW reply \in Showing, NEW c \in reply.cols \cap look,
                      NEW col \in {ForStranger(reply, c, rows[u].val)} \ {Empty},
                      Asked(rows[u].val[col], rows[u].val[col].of), rows[u].val[col].of = "email1"
               PROVE  "e1publ" \in sent[rows[u].val[col].nr].h.spoils
    BY DEF HiddenIsHidden
  <2>1. ~Bare(sent, rows[u].val[col])
    BY <1>3
  <2> QED BY <2>1 DEF Bare, Asked
<1> QED BY <1>1, <1>2, <1>4, DirectoryInv, PTL DEF Spec

----------------------------------------------------------------------------
(* What is saved is what its owner was told                                *)

\* What is left to do of a request.
TAW  == <<"answer", "write">>
TW   == <<"write">>
TA   == <<"answer">>
TBA  == <<"about", "answer">>
TWA  == <<"write", "answer">>
TRWA == <<"read", "write", "answer">>
TBWA == <<"about", "write", "answer">>
STodos == {TAW, TW, TA, TBA, TWA, TRWA, TBWA}
ToAbout == {TBA, TBWA}
ToWrite == {TAW, TW, TWA, TRWA, TBWA}

LEMMA SaveTodosAre ==
  /\ Head(TAW) = "answer" /\ Tail(TAW) = TW /\ Len(TAW) = 2 /\ "answer" \in Range(TAW)
  /\ Head(TW) = "write" /\ Len(TW) = 1 /\ "answer" \notin Range(TW)
  /\ Head(TA) = "answer" /\ Len(TA) = 1 /\ "answer" \in Range(TA)
  /\ Head(TBA) = "about" /\ Tail(TBA) = TA /\ Len(TBA) = 2 /\ "answer" \in Range(TBA)
  /\ Head(TWA) = "write" /\ Tail(TWA) = TA /\ Len(TWA) = 2 /\ "answer" \in Range(TWA)
  /\ Head(TRWA) = "read" /\ Tail(TRWA) = TWA /\ Len(TRWA) = 3 /\ "answer" \in Range(TRWA)
  /\ Head(TBWA) = "about" /\ Tail(TBWA) = TWA /\ Len(TBWA) = 3 /\ "answer" \in Range(TBWA)
<1>1. Head(TAW) = "answer" /\ Tail(TAW) = TW /\ Len(TAW) = 2
  BY DEF TAW, TW
<1>2. Head(TW) = "write" /\ Len(TW) = 1 /\ Head(TA) = "answer" /\ Len(TA) = 1
  BY DEF TW, TA
<1>3. Head(TBA) = "about" /\ Tail(TBA) = TA /\ Len(TBA) = 2
  BY DEF TBA, TA
<1>4. Head(TWA) = "write" /\ Tail(TWA) = TA /\ Len(TWA) = 2
  BY DEF TWA, TA
<1>5. Head(TRWA) = "read" /\ Tail(TRWA) = TWA /\ Len(TRWA) = 3
  BY DEF TRWA, TWA
<1>6. Head(TBWA) = "about" /\ Tail(TBWA) = TWA /\ Len(TBWA) = 3
  BY DEF TBWA, TWA
<1>7. TAW[1] = "answer" /\ TA[1] = "answer" /\ TBA[2] = "answer" /\ TWA[2] = "answer" /\ TRWA[3] = "answer" /\ TBWA[3] = "answer"
  BY DEF TAW, TA, TBA, TWA, TRWA, TBWA
<1>8. /\ 1 \in DOMAIN TAW /\ 1 \in DOMAIN TA /\ 2 \in DOMAIN TBA /\ 2 \in DOMAIN TWA /\ 3 \in DOMAIN TRWA /\ 3 \in DOMAIN TBWA
      /\ DOMAIN TW = {1} /\ TW[1] = "write"
  BY DEF TAW, TA, TBA, TWA, TRWA, TBWA, TW
<1>9. /\ "answer" \in Range(TAW) /\ "answer" \in Range(TA) /\ "answer" \in Range(TBA) /\ "answer" \in Range(TWA)
      /\ "answer" \in Range(TRWA) /\ "answer" \in Range(TBWA) /\ "answer" \notin Range(TW)
  BY <1>7, <1>8 DEF Range
<1> QED BY <1>1, <1>2, <1>3, <1>4, <1>5, <1>6, <1>9

LEMMA SaveTodosDiffer ==
  /\ TAW # TW /\ TAW # TA /\ TAW # TBA /\ TAW # TWA /\ TAW # TRWA /\ TAW # TBWA
  /\ TW # TA /\ TW # TBA /\ TW # TWA /\ TW # TRWA /\ TW # TBWA
  /\ TA # TBA /\ TA # TWA /\ TA # TRWA /\ TA # TBWA
  /\ TBA # TWA /\ TBA # TRWA /\ TBA # TBWA /\ TWA # TRWA /\ TWA # TBWA /\ TRWA # TBWA
BY SaveTodosAre

\* A handler keeps what it does not spoil: it writes it from the field of the same name, or as it was read.
Named(S) == Empty \notin S /\ Undefined \notin S
Replies == {"result", "counted", "yes", "first"}
Keeps(h) ==
  /\ \A c \in h.fields \ h.spoils : (h.about /\ c = "notes") \/ (c \in DOMAIN h.writes /\ h.writes[c] = c)
  /\ \A c \in DOMAIN h.writes \ (h.fields \cup h.spoils) : h.reads /\ h.writes[c] = Empty
  /\ h.about => "notes" \in h.fields /\ "notes" \notin DOMAIN h.writes /\ ~h.reads
  /\ h.reads => h.reply = "result"
  /\ h.reply = "first" => h.proto # "v7" /\ ~h.about
  /\ h.reply \in Replies
  /\ h.toolong = "refuse" => h.reply \in {"result", "counted"}
  /\ Named(h.fields) /\ h.about \in BOOLEAN /\ h.reads \in BOOLEAN

LEMMA SavesKeep ==
  ASSUME NEW proto, NEW cols, NEW packet, NEW other, NEW reply, NEW toolong, NEW spoils,
         packet \ spoils \subseteq cols, cols \ packet \subseteq spoils, Named(packet),
         reply = "first" => proto # "v7", toolong = "refuse" => reply \in {"result", "counted"}, reply \in Replies
  PROVE  Keeps(Saves(proto, packet, From(cols, packet, other), reply, toolong, spoils))
<1> DEFINE h == Saves(proto, packet, From(cols, packet, other), reply, toolong, spoils)
<1>1. /\ h.fields = packet /\ h.writes = From(cols, packet, other) /\ h.toolong = toolong /\ h.reads = FALSE
      /\ h.about = FALSE /\ h.reply = reply /\ h.spoils = spoils /\ h.proto = proto
  BY DEF Saves
<1> HIDE DEF h
<1>2. DOMAIN h.writes = cols /\ \A c \in cols : h.writes[c] = IF c \in packet THEN c ELSE other
  BY <1>1 DEF From
<1>3. Keeps(h)
  BY <1>1, <1>2 DEF Keeps
<1> QED BY <1>3 DEF h

LEMMA PlainKeeps ==
  ASSUME NEW proto, NEW cols, NEW reply, NEW toolong, Named(cols),
         reply = "first" => proto # "v7", toolong = "refuse" => reply \in {"result", "counted"}, reply \in Replies
  PROVE  Keeps(Plain(proto, cols, reply, toolong))
BY SavesKeep DEF Plain

\* The names of columns.
LEMMA SetsAreNamed ==
  \A S \in {SetAuthMode, SetPassword, SetSecure, SetHPageCat, SetNotes, SetHomePage, SetWorkPage, SetBasic, SetV5More,
            SetInterests, SetAffilations, SetWork, SetHome, SetBasic2, SetBasic3, SetWork2} : Named(S)
<1>1. Named(SetAuthMode)
  BY DEF Named, Empty, Undefined, SetAuthMode
<1>2. Named(SetPassword)
  BY DEF Named, Empty, Undefined, SetPassword
<1>3. Named(SetSecure)
  BY DEF Named, Empty, Undefined, SetSecure
<1>4. Named(SetHPageCat)
  BY DEF Named, Empty, Undefined, SetHPageCat
<1>5. Named(SetNotes)
  BY DEF Named, Empty, Undefined, SetNotes
<1>6. Named(SetHomePage)
  BY DEF Named, Empty, Undefined, SetHomePage
<1>7. Named(SetWorkPage)
  BY DEF Named, Empty, Undefined, SetWorkPage
<1>8. Named(SetBasic)
  BY DEF Named, Empty, Undefined, SetBasic
<1>9. Named(SetV5More)
  BY DEF Named, Empty, Undefined, SetV5More
<1>10. Named(SetInterests)
  BY DEF Named, Empty, Undefined, SetInterests
<1>11. Named(SetAffilations)
  BY DEF Named, Empty, Undefined, SetAffilations
<1>12. Named(SetWork)
  BY DEF Named, Empty, Undefined, SetWork
<1>13. Named(SetHome)
  BY DEF Named, Empty, Undefined, SetHome
<1>14. Named(SetBasic2)
  BY DEF Named, Empty, Undefined, SetBasic2
<1>15. Named(SetBasic3)
  BY DEF Named, Empty, Undefined, SetBasic3, SetBasic2
<1>16. Named(SetWork2)
  BY DEF Named, Empty, Undefined, SetWork2
<1> QED BY <1>1, <1>2, <1>3, <1>4, <1>5, <1>6, <1>7, <1>8, <1>9, <1>10, <1>11, <1>12, <1>13, <1>14, <1>15, <1>16

LEMMA InfosAreNamed ==
  \A S \in {InfoNames, InfoPlaces, InfoNumbers, InfoEmails, InfoLangs, InfoZips, UtfNames, UtfHome, UtfWork, UtfBirth,
            UtfPhones, {"notes"}} : Named(S)
<1>1. Named(InfoNames)
  BY DEF Named, Empty, Undefined, InfoNames
<1>2. Named(InfoPlaces)
  BY DEF Named, Empty, Undefined, InfoPlaces
<1>3. Named(InfoNumbers)
  BY DEF Named, Empty, Undefined, InfoNumbers
<1>4. Named(InfoEmails)
  BY DEF Named, Empty, Undefined, InfoEmails
<1>5. Named(InfoLangs)
  BY DEF Named, Empty, Undefined, InfoLangs
<1>6. Named(InfoZips)
  BY DEF Named, Empty, Undefined, InfoZips
<1>7. Named(UtfNames)
  BY DEF Named, Empty, Undefined, UtfNames
<1>8. Named(UtfHome)
  BY DEF Named, Empty, Undefined, UtfHome
<1>9. Named(UtfWork)
  BY DEF Named, Empty, Undefined, UtfWork
<1>10. Named(UtfBirth)
  BY DEF Named, Empty, Undefined, UtfBirth
<1>11. Named(UtfPhones)
  BY DEF Named, Empty, Undefined, UtfPhones
<1>12. Named({"notes"})
  BY DEF Named, Empty, Undefined
<1> QED BY <1>1, <1>2, <1>3, <1>4, <1>5, <1>6, <1>7, <1>8, <1>9, <1>10, <1>11, <1>12

LEMMA V3PlainKeep == \A h \in {V3Auth, V3Pass, V3HomePage, V3WorkPage, V3Notes} : Keeps(h)
<1>1. Keeps(V3Auth)
  <2>1. Named(SetAuthMode)
    BY SetsAreNamed
  <2> QED BY <2>1, PlainKeeps DEF Replies, V3Auth
<1>2. Keeps(V3Pass)
  <2>1. Named(SetPassword)
    BY SetsAreNamed
  <2> QED BY <2>1, PlainKeeps DEF Replies, V3Pass
<1>3. Keeps(V3HomePage)
  <2>1. Named(SetHomePage)
    BY SetsAreNamed
  <2> QED BY <2>1, PlainKeeps DEF Replies, V3HomePage
<1>4. Keeps(V3WorkPage)
  <2>1. Named(SetWorkPage)
    BY SetsAreNamed
  <2> QED BY <2>1, PlainKeeps DEF Replies, V3WorkPage
<1>5. Keeps(V3Notes)
  <2>1. Named(SetNotes)
    BY SetsAreNamed
  <2> QED BY <2>1, PlainKeeps DEF Replies, V3Notes
<1> QED BY <1>1, <1>2, <1>3, <1>4, <1>5

LEMMA V5PlainKeep == \A h \in {V5Pass, V5Interests, V5Affilation, V5Basic, V5Basic2, V5More, V5More2, V5HPageCat, V5Secure, V5Work, V5Work2, V5About} : Keeps(h)
<1>1. Keeps(V5Pass)
  <2>1. Named(SetPassword)
    BY SetsAreNamed
  <2> QED BY <2>1, PlainKeeps DEF Replies, V5Pass
<1>2. Keeps(V5Interests)
  <2>1. Named(SetInterests)
    BY SetsAreNamed
  <2> QED BY <2>1, PlainKeeps DEF Replies, V5Interests
<1>3. Keeps(V5Affilation)
  <2>1. Named(SetAffilations)
    BY SetsAreNamed
  <2> QED BY <2>1, PlainKeeps DEF Replies, V5Affilation
<1>4. Keeps(V5Basic)
  <2>1. Named(SetBasic2)
    BY SetsAreNamed
  <2> QED BY <2>1, PlainKeeps DEF Replies, V5Basic
<1>5. Keeps(V5Basic2)
  <2>1. Named(SetBasic2)
    BY SetsAreNamed
  <2> QED BY <2>1, PlainKeeps DEF Replies, V5Basic2
<1>6. Keeps(V5More)
  <2>1. Named(SetV5More)
    BY SetsAreNamed
  <2> QED BY <2>1, PlainKeeps DEF Replies, V5More
<1>7. Keeps(V5More2)
  <2>1. Named(SetV5More)
    BY SetsAreNamed
  <2> QED BY <2>1, PlainKeeps DEF Replies, V5More2
<1>8. Keeps(V5HPageCat)
  <2>1. Named(SetHPageCat)
    BY SetsAreNamed
  <2> QED BY <2>1, PlainKeeps DEF Replies, V5HPageCat
<1>9. Keeps(V5Secure)
  <2>1. Named(SetSecure)
    BY SetsAreNamed
  <2> QED BY <2>1, PlainKeeps DEF Replies, V5Secure
<1>10. Keeps(V5Work)
  <2>1. Named(SetWork2)
    BY SetsAreNamed
  <2> QED BY <2>1, PlainKeeps DEF Replies, V5Work
<1>11. Keeps(V5Work2)
  <2>1. Named(SetWork2)
    BY SetsAreNamed
  <2> QED BY <2>1, PlainKeeps DEF Replies, V5Work2
<1>12. Keeps(V5About)
  <2>1. Named(SetNotes)
    BY SetsAreNamed
  <2> QED BY <2>1, PlainKeeps DEF Replies, V5About
<1> QED BY <1>1, <1>2, <1>3, <1>4, <1>5, <1>6, <1>7, <1>8, <1>9, <1>10, <1>11, <1>12

LEMMA V7PlainKeep == \A h \in {V7HPageCat, V7Affilation, V7Interests, V7Perms, V7Notes, V7More, V7Pass} : Keeps(h)
<1>1. Keeps(V7HPageCat)
  <2>1. Named(SetHPageCat)
    BY SetsAreNamed
  <2> QED BY <2>1, PlainKeeps DEF Replies, V7HPageCat
<1>2. Keeps(V7Affilation)
  <2>1. Named(SetAffilations)
    BY SetsAreNamed
  <2> QED BY <2>1, PlainKeeps DEF Replies, V7Affilation
<1>3. Keeps(V7Interests)
  <2>1. Named(SetInterests)
    BY SetsAreNamed
  <2> QED BY <2>1, PlainKeeps DEF Replies, V7Interests
<1>4. Keeps(V7Perms)
  <2>1. Named(SetSecure)
    BY SetsAreNamed
  <2> QED BY <2>1, PlainKeeps DEF Replies, V7Perms
<1>5. Keeps(V7Notes)
  <2>1. Named(SetNotes)
    BY SetsAreNamed
  <2> QED BY <2>1, PlainKeeps DEF Replies, V7Notes
<1>6. Keeps(V7More)
  <2>1. Named(SetV5More)
    BY SetsAreNamed
  <2> QED BY <2>1, PlainKeeps DEF Replies, V7More
<1>7. Keeps(V7Pass)
  <2>1. Named(SetPassword)
    BY SetsAreNamed
  <2> QED BY <2>1, PlainKeeps DEF Replies, V7Pass
<1> QED BY <1>1, <1>2, <1>3, <1>4, <1>5, <1>6, <1>7

\* A column that the packet has as another one, or not at all.
LEMMA OtherKeep == \A h \in {V3Work, V3Home, V3Basic, V7Work, V7Home} : Keeps(h)
<1>1. Named(SetWork) /\ Named(SetHome) /\ Named(SetBasic) /\ Named(SetWork2) /\ Named(SetBasic3)
  BY SetsAreNamed
<1>2. Keeps(V3Work)
  BY <1>1, SavesKeep DEF Replies, V3Work, Named
<1>3. Keeps(V3Home)
  BY <1>1, SavesKeep DEF Replies, V3Home, Named
<1>4. Keeps(V3Basic)
  BY <1>1, SavesKeep DEF Replies, V3Basic, Named
<1>5. Keeps(V7Work)
  <2> DEFINE packet == (SetWork2 \ {"wzip"}) \cup {"wzip2"}
  <2>1. Named(packet)
    BY <1>1 DEF Named, Empty, Undefined
  <2>2. V7Work = Saves("v7", packet, From(SetWork2, packet, Empty), "result", "refuse", {"wzip", "wzip2"})
    BY DEF V7Work
  <2>3. packet \ {"wzip", "wzip2"} \subseteq SetWork2 /\ SetWork2 \ packet \subseteq {"wzip", "wzip2"}
    OBVIOUS
  <2> HIDE DEF packet
  <2> QED BY <2>1, <2>2, <2>3, SavesKeep DEF Replies
<1>6. Keeps(V7Home)
  <2> DEFINE packet == (SetBasic3 \ {"hzip"}) \cup {"hzip2"}
  <2>1. Named(packet)
    BY <1>1 DEF Named, Empty, Undefined
  <2>2. V7Home = Saves("v7", packet, From(SetBasic3, packet, Empty), "result", "refuse", {"hzip", "hzip2"})
    BY DEF V7Home
  <2>3. packet \ {"hzip", "hzip2"} \subseteq SetBasic3 /\ SetBasic3 \ packet \subseteq {"hzip", "hzip2"}
    OBVIOUS
  <2> HIDE DEF packet
  <2> QED BY <2>1, <2>2, <2>3, SavesKeep DEF Replies
<1> QED BY <1>2, <1>3, <1>4, <1>5, <1>6

LEMMA EmailKeeps == Keeps(V7Email)
<1>1. /\ V7Email.writes = From(SetBasic2, {"email2", "email3"}, Empty) /\ V7Email.fields = {"email2", "email3"}
      /\ V7Email.spoils = {} /\ V7Email.reads = TRUE /\ V7Email.about = FALSE /\ V7Email.reply = "result"
      /\ V7Email.proto = "v7" /\ V7Email.toolong = "refuse"
  BY DEF V7Email, Saves
<1>2. DOMAIN V7Email.writes = SetBasic2
      /\ \A c \in SetBasic2 : V7Email.writes[c] = IF c \in {"email2", "email3"} THEN c ELSE Empty
  BY <1>1 DEF From
<1>3. {"email2", "email3"} \subseteq SetBasic2 /\ Named({"email2", "email3"})
  BY DEF SetBasic2, Named, Empty, Undefined
<1> QED BY <1>1, <1>2, <1>3 DEF Keeps, Replies

\* Fields that the client chooses.
LEMMA ChosenIs ==
  ASSUME NEW cols
  PROVE  \E b \in BOOLEAN :
           /\ Chosen(cols) = [Plain("v7", cols, "counted", "refuse")
                                EXCEPT !.about = b, !.writes = From(cols \ {"notes"}, cols, Empty)]
           /\ b <=> "notes" \in cols
<1>1. CASE "notes" \in cols
  <2>1. ("notes" \in cols) = TRUE
    BY <1>1
  <2>2. Chosen(cols) = [Plain("v7", cols, "counted", "refuse")
                          EXCEPT !.about = TRUE, !.writes = From(cols \ {"notes"}, cols, Empty)]
    BY <2>1, Zenon DEF Chosen
  <2> QED BY <1>1, <2>2, Zenon
<1>2. CASE "notes" \notin cols
  <2>1. ("notes" \in cols) = FALSE
    BY <1>2
  <2>2. Chosen(cols) = [Plain("v7", cols, "counted", "refuse")
                          EXCEPT !.about = FALSE, !.writes = From(cols \ {"notes"}, cols, Empty)]
    BY <2>1, Zenon DEF Chosen
  <2> QED BY <1>2, <2>2, Zenon
<1> QED BY <1>1, <1>2, Zenon

LEMMA ChosenKeeps ==
  ASSUME NEW cols, Named(cols)
  PROVE  Keeps(Chosen(cols))
<1>1. PICK b \in BOOLEAN : /\ Chosen(cols) = [Plain("v7", cols, "counted", "refuse")
                                EXCEPT !.about = b, !.writes = From(cols \ {"notes"}, cols, Empty)]
                           /\ b <=> "notes" \in cols
  BY ChosenIs, Zenon
<1> DEFINE h == Chosen(cols) w == From(cols \ {"notes"}, cols, Empty)
<1>2. DOMAIN w = cols \ {"notes"} /\ \A c \in cols \ {"notes"} : w[c] = c
  BY DEF From
<1>3. h = [Plain("v7", cols, "counted", "refuse") EXCEPT !.about = b, !.writes = w]
  BY <1>1
<1> HIDE DEF h, w
<1>4. /\ h.fields = cols /\ h.writes = w /\ h.toolong = "refuse" /\ h.reads = FALSE
      /\ h.spoils = {} /\ h.reply = "counted" /\ h.proto = "v7" /\ h.about = b
  BY <1>3 DEF Plain, Saves
<1>5. Keeps(h)
  BY <1>1, <1>2, <1>4 DEF Keeps, Replies
<1> QED BY <1>5 DEF h

\* Of these fields some are stored elsewhere, or dropped.
LEMMA ChosenExcept ==
  ASSUME NEW cols, NEW writes, NEW spoils, Named(cols), "notes" \notin cols,
         \A c \in cols \ spoils : c \in DOMAIN writes /\ writes[c] = c,
         DOMAIN writes \subseteq cols \cup spoils
  PROVE  Keeps([Chosen(cols) EXCEPT !.writes = writes, !.spoils = spoils])
<1>1. PICK b \in BOOLEAN : /\ Chosen(cols) = [Plain("v7", cols, "counted", "refuse")
                                EXCEPT !.about = b, !.writes = From(cols \ {"notes"}, cols, Empty)]
                           /\ b <=> "notes" \in cols
  BY ChosenIs, Zenon
<1> DEFINE h == [Chosen(cols) EXCEPT !.writes = writes, !.spoils = spoils]
           x == From(cols \ {"notes"}, cols, Empty)
<1>3. h = [[Plain("v7", cols, "counted", "refuse") EXCEPT !.about = b, !.writes = x]
             EXCEPT !.writes = writes, !.spoils = spoils]
  BY <1>1, Zenon
<1> HIDE DEF h, x
<1>4. /\ h.fields = cols /\ h.writes = writes /\ h.toolong = "refuse" /\ h.reads = FALSE
      /\ h.spoils = spoils /\ h.reply = "counted" /\ h.proto = "v7" /\ h.about = b
  BY <1>3 DEF Plain, Saves
<1>5. Keeps(h)
  BY <1>1, <1>4 DEF Keeps, Replies
<1> QED BY <1>5 DEF h

LEMMA ZipsKeep ==
  ASSUME NEW cols, "nick" \notin cols, "notes" \notin cols, Named(cols)
  PROVE  Keeps([Chosen({"nick"} \cup cols) EXCEPT !.writes = From({"nick"}, {"nick"}, Empty), !.spoils = cols])
<1> DEFINE writes == From({"nick"}, {"nick"}, Empty)  all == {"nick"} \cup cols
<1>1. DOMAIN writes = {"nick"} /\ writes["nick"] = "nick"
  BY DEF From
<1>2. Named(all) /\ "notes" \notin all
  <2>1. "nick" # Empty /\ "nick" # Undefined
    BY DEF Empty, Undefined
  <2> QED BY <2>1 DEF Named
<1>3. (\A c \in all \ cols : c = "nick") /\ "nick" \in all
  OBVIOUS
<1> HIDE DEF writes, all
<1>4. Keeps([Chosen(all) EXCEPT !.writes = writes, !.spoils = cols])
  <2>1. \A c \in all \ cols : c \in DOMAIN writes /\ writes[c] = c
    BY <1>1, <1>3
  <2>2. DOMAIN writes \subseteq all \cup cols
    BY <1>1, <1>3
  <2> QED BY <1>2, <2>1, <2>2, ChosenExcept, Zenon
<1> QED BY <1>4, Zenon DEF writes, all

LEMMA FewKeeps ==
  ASSUME NEW stored, NEW flags, Named(Carried(stored, flags)), "notes" \notin Carried(stored, flags),
         \A n \in Numbers : n \in Carried(stored, flags) \cup DOMAIN stored => n \in DOMAIN stored /\ stored[n] = n
  PROVE  Keeps(FewOf(stored, flags))
<1> DEFINE carried == Carried(stored, flags)
           spoils == (carried \cup DOMAIN stored) \ Numbers
           h == FewOf(stored, flags)
<1>1. h = [Chosen(carried) EXCEPT !.writes = stored, !.spoils = spoils, !.flags = flags]
  BY Zenon DEF FewOf, Carried, Numbers
<1>2. \A c \in carried \ spoils : c \in DOMAIN stored /\ stored[c] = c
  OBVIOUS
<1>3. DOMAIN stored \subseteq carried \cup spoils
  BY DEF Carried
<1>4. PICK b \in BOOLEAN : /\ Chosen(carried) = [Plain("v7", carried, "counted", "refuse")
                                EXCEPT !.about = b, !.writes = From(carried \ {"notes"}, carried, Empty)]
                           /\ b <=> "notes" \in carried
  BY ChosenIs, Zenon
<1> HIDE DEF carried, spoils, h
<1> DEFINE x == From(carried \ {"notes"}, carried, Empty)
<1>5. h = [[Plain("v7", carried, "counted", "refuse") EXCEPT !.about = b, !.writes = x]
             EXCEPT !.writes = stored, !.spoils = spoils, !.flags = flags]
  BY <1>1, <1>4, Zenon
<1> HIDE DEF x
<1>6. /\ h.fields = carried /\ h.writes = stored /\ h.toolong = "refuse" /\ h.reads = FALSE
      /\ h.spoils = spoils /\ h.reply = "counted" /\ h.proto = "v7" /\ h.about = b
  BY <1>5 DEF Plain, Saves
<1>7. Named(carried) /\ "notes" \notin carried
  BY DEF carried
<1>8. Keeps(h)
  BY <1>2, <1>3, <1>4, <1>6, <1>7 DEF Keeps, Replies
<1> QED BY <1>8 DEF h

LEMMA InfoOneKeeps == Keeps(V7InfoOne)
<1> DEFINE stored == [email3 |-> "email1", lang3 |-> "lang1", int_num |-> "int_num", int_key4 |-> "int_key1",
                      past_num |-> "past_num", past_key3 |-> "past_key1",
                      aff_num |-> "aff_num", aff_key3 |-> "aff_key1"]
<1>1. DOMAIN stored = {"email3", "lang3", "int_num", "int_key4", "past_num", "past_key3", "aff_num", "aff_key3"}
  OBVIOUS
<1>2. stored["int_num"] = "int_num" /\ stored["past_num"] = "past_num" /\ stored["aff_num"] = "aff_num"
  OBVIOUS
<1>3. /\ stored["email3"] = "email1" /\ stored["lang3"] = "lang1" /\ stored["int_key4"] = "int_key1"
      /\ stored["past_key3"] = "past_key1" /\ stored["aff_key3"] = "aff_key1"
  OBVIOUS
<1>4. V7InfoOne = FewOf(stored, {"email1"})
  BY Zenon DEF V7InfoOne
<1> HIDE DEF stored
<1>5. Carried(stored, {"email1"}) \subseteq
        {"email1", "lang1", "int_num", "int_key1", "past_num", "past_key1", "aff_num", "aff_key1", "e1publ"}
  BY <1>1, <1>2, <1>3 DEF Carried
<1>6. Named(Carried(stored, {"email1"})) /\ "notes" \notin Carried(stored, {"email1"})
  BY <1>5 DEF Named, Empty, Undefined
<1>7. \A n \in Numbers : n \in DOMAIN stored /\ stored[n] = n
  BY <1>1, <1>2 DEF Numbers
<1> QED BY <1>4, <1>6, <1>7, FewKeeps, Zenon

LEMMA InfoTwoKeeps == Keeps(V7InfoTwo)
<1> DEFINE stored == [email2 |-> "email1", email3 |-> "email2", lang2 |-> "lang1", lang3 |-> "lang2",
                      int_num |-> "int_num", int_key3 |-> "int_key1", int_key4 |-> "int_key2",
                      past_num |-> "past_num", past_key2 |-> "past_key1", past_key3 |-> "past_key2",
                      aff_num |-> "aff_num", aff_key2 |-> "aff_key1", aff_key3 |-> "aff_key2"]
           flags == {"email1", "email2"}
<1>1. DOMAIN stored = {"email2", "email3", "lang2", "lang3", "int_num", "int_key3", "int_key4",
                       "past_num", "past_key2", "past_key3", "aff_num", "aff_key2", "aff_key3"}
  OBVIOUS
<1>2. stored["int_num"] = "int_num" /\ stored["past_num"] = "past_num" /\ stored["aff_num"] = "aff_num"
  OBVIOUS
<1>3. /\ stored["email2"] = "email1" /\ stored["email3"] = "email2" /\ stored["lang2"] = "lang1" /\ stored["lang3"] = "lang2"
      /\ stored["int_key3"] = "int_key1" /\ stored["int_key4"] = "int_key2"
      /\ stored["past_key2"] = "past_key1" /\ stored["past_key3"] = "past_key2"
      /\ stored["aff_key2"] = "aff_key1" /\ stored["aff_key3"] = "aff_key2"
  OBVIOUS
<1>4. V7InfoTwo = FewOf(stored, flags)
  BY Zenon DEF V7InfoTwo
<1> HIDE DEF stored, flags
<1>5. Carried(stored, flags) \subseteq
        {"email1", "email2", "lang1", "lang2", "int_num", "int_key1", "int_key2", "past_num", "past_key1", "past_key2",
         "aff_num", "aff_key1", "aff_key2", "e1publ"}
  BY <1>1, <1>2, <1>3 DEF Carried
<1>6. Named(Carried(stored, flags)) /\ "notes" \notin Carried(stored, flags)
  BY <1>5 DEF Named, Empty, Undefined
<1>7. \A n \in Numbers : n \in DOMAIN stored /\ stored[n] = n
  BY <1>1, <1>2 DEF Numbers
<1> QED BY <1>4, <1>6, <1>7, FewKeeps, Zenon

LEMMA InfoThreeKeeps == Keeps(V7InfoThree)
<1> DEFINE stored == [int_num |-> "int_num", int_key2 |-> "int_key1", int_key3 |-> "int_key2", int_key4 |-> "int_key3"]
<1>1. DOMAIN stored = {"int_num", "int_key2", "int_key3", "int_key4"}
  OBVIOUS
<1>2. /\ stored["int_num"] = "int_num" /\ stored["int_key2"] = "int_key1"
      /\ stored["int_key3"] = "int_key2" /\ stored["int_key4"] = "int_key3"
  OBVIOUS
<1>3. V7InfoThree = FewOf(stored, {})
  BY Zenon DEF V7InfoThree
<1> HIDE DEF stored
<1>4. Carried(stored, {}) \subseteq {"int_num", "int_key1", "int_key2", "int_key3"}
  BY <1>1, <1>2 DEF Carried
<1>5. Named(Carried(stored, {})) /\ "notes" \notin Carried(stored, {})
  BY <1>4 DEF Named, Empty, Undefined
<1>6. \A n \in Numbers : n \in Carried(stored, {}) \cup DOMAIN stored => n \in DOMAIN stored /\ stored[n] = n
  BY <1>1, <1>2, <1>4 DEF Numbers
<1> QED BY <1>3, <1>5, <1>6, FewKeeps, Zenon

LEMMA AllInfoKeeps == Keeps(V7Info)
<1> DEFINE cols == InfoAll  flags == InfoEmails \ {"e1publ"}  w == From(cols \ {"notes"}, cols, Empty)
<1>1. Named(cols)
  BY InfosAreNamed, SetsAreNamed DEF InfoAll, Named
<1>2. PICK b \in BOOLEAN : /\ Chosen(cols) = [Plain("v7", cols, "counted", "refuse") EXCEPT !.about = b, !.writes = w]
                           /\ b <=> "notes" \in cols
  BY ChosenIs, Zenon
<1>3. V7Info = [[Plain("v7", cols, "counted", "refuse") EXCEPT !.about = b, !.writes = w] EXCEPT !.flags = flags]
  BY <1>2, Zenon DEF V7Info
<1>4. DOMAIN w = cols \ {"notes"} /\ \A c \in cols \ {"notes"} : w[c] = c
  BY DEF From
<1> HIDE DEF cols, flags, w
<1>5. /\ V7Info.fields = cols /\ V7Info.writes = w /\ V7Info.toolong = "refuse" /\ V7Info.reads = FALSE
      /\ V7Info.spoils = {} /\ V7Info.reply = "counted" /\ V7Info.proto = "v7" /\ V7Info.about = b
  BY <1>3 DEF Plain, Saves
<1> QED BY <1>1, <1>2, <1>4, <1>5 DEF Keeps, Replies

LEMMA InfoKeep == \A h \in {V7Info, V7InfoOne, V7InfoTwo, V7InfoThree, V7InfoZips, V7InfoNotes} : Keeps(h)
<1>2. Keeps(V7InfoZips)
  <2>1. "nick" \notin InfoZips /\ "notes" \notin InfoZips
    BY DEF InfoZips
  <2>2. Named(InfoZips)
    BY InfosAreNamed
  <2>3. Keeps([Chosen({"nick"} \cup InfoZips) EXCEPT !.writes = From({"nick"}, {"nick"}, Empty), !.spoils = InfoZips])
    BY <2>1, <2>2, ZipsKeep, Zenon
  <2> QED BY <2>3, Zenon DEF V7InfoZips
<1>3. Keeps(V7InfoNotes)
  BY InfosAreNamed, ChosenKeeps DEF V7InfoNotes
<1> QED BY <1>2, <1>3, AllInfoKeeps, InfoOneKeeps, InfoTwoKeeps, InfoThreeKeeps

LEMMA UtfKeep == \A h \in {V7Utf, V7UtfFew, V7UtfPhones, V7IcqPhone} : Keeps(h)
<1>1. Keeps(V7Utf)
  <2> DEFINE cols == UNION {UtfNames, UtfHome, UtfWork, UtfBirth, SetInterests, UtfPhones, {"notes"}}
  <2>1. Named(cols)
    BY InfosAreNamed, SetsAreNamed DEF Named
  <2>2. V7Utf = Chosen(cols)
    BY DEF V7Utf
  <2> HIDE DEF cols
  <2> QED BY <2>1, <2>2, ChosenKeeps
<1>2. Keeps(V7UtfFew)
  <2>1. Named({"int_num", "int_key1"})
    BY DEF Named, Empty, Undefined
  <2> QED BY <2>1, ChosenKeeps DEF V7UtfFew
<1>3. Keeps(V7UtfPhones)
  <2>1. "nick" \notin UtfPhones /\ "notes" \notin UtfPhones
    BY DEF UtfPhones
  <2>2. Named(UtfPhones)
    BY InfosAreNamed
  <2>3. Keeps([Chosen({"nick"} \cup UtfPhones) EXCEPT !.writes = From({"nick"}, {"nick"}, Empty), !.spoils = UtfPhones])
    BY <2>1, <2>2, ZipsKeep, Zenon
  <2> QED BY <2>3, Zenon DEF V7UtfPhones
<1>4. Keeps(V7IcqPhone)
  <2>1. /\ V7IcqPhone.fields = {} /\ V7IcqPhone.writes = From({}, {}, Empty) /\ V7IcqPhone.reads = FALSE
        /\ V7IcqPhone.about = FALSE /\ V7IcqPhone.spoils = {} /\ V7IcqPhone.reply = "yes" /\ V7IcqPhone.toolong = "none"
    BY DEF V7IcqPhone, Plain, Saves
  <2>2. DOMAIN V7IcqPhone.writes = {}
    BY <2>1 DEF From
  <2> QED BY <2>1, <2>2 DEF Keeps, Named, Replies
<1> QED BY <1>1, <1>2, <1>3, <1>4

\* The handlers as far as they are seen.
LEMMA HandlersKeep ==
  ASSUME NEW h \in Handlers
  PROVE  Keeps(h) /\ (h.nothing => DOMAIN h.writes = {})
<1>1. PICK k \in Saving, a \in Looks : h = Seen(k, a)
  BY DEF Handlers
<1>2. Keeps(k)
  BY V3PlainKeep, V5PlainKeep, V7PlainKeep, OtherKeep, EmailKeeps, InfoKeep, UtfKeep DEF Saving
<1>3. /\ h.fields = k.fields \cap a /\ h.toolong = k.toolong /\ h.reads = k.reads /\ h.spoils = k.spoils \cap a
      /\ h.about = (k.about /\ "notes" \in a) /\ h.reply = k.reply /\ h.proto = k.proto
      /\ h.nothing = (DOMAIN k.writes = {})
      /\ h.writes = Restrict(k.writes, DOMAIN k.writes \cap a)
  BY <1>1 DEF Seen
<1>4. /\ DOMAIN h.writes = DOMAIN k.writes \cap a
      /\ \A c \in DOMAIN k.writes \cap a : h.writes[c] = k.writes[c]
  BY <1>3 DEF Restrict
<1>5. \A c \in h.fields \ h.spoils : (h.about /\ c = "notes") \/ (c \in DOMAIN h.writes /\ h.writes[c] = c)
  BY <1>2, <1>3, <1>4 DEF Keeps
<1>6. \A c \in DOMAIN h.writes \ (h.fields \cup h.spoils) : h.reads /\ h.writes[c] = Empty
  BY <1>2, <1>3, <1>4 DEF Keeps
<1>7. h.about => "notes" \in h.fields /\ "notes" \notin DOMAIN h.writes /\ ~h.reads
  BY <1>2, <1>3, <1>4 DEF Keeps
<1>8. /\ h.reads => h.reply = "result"
      /\ h.reply = "first" => h.proto # "v7" /\ ~h.about
      /\ h.reply \in Replies
      /\ h.toolong = "refuse" => h.reply \in {"result", "counted"}
      /\ Named(h.fields) /\ h.about \in BOOLEAN /\ h.reads \in BOOLEAN
  BY <1>2, <1>3 DEF Keeps, Named
<1>9. h.nothing => DOMAIN h.writes = {}
  BY <1>3, <1>4
<1> QED BY <1>5, <1>6, <1>7, <1>8, <1>9 DEF Keeps

\* What is known of a request while a handler works on it.
JobIsWell(t) ==
  /\ t.todo \in STodos
  /\ t.h.reply = "first" <=> t.todo \in {TAW, TW}
  /\ t.todo = TRWA => t.h.reads
  /\ t.todo \in ToAbout => t.h.about
  /\ t.again => t.h.proto # "v7"
  /\ ~t.ok => t.todo \in {TA, TBA}
  /\ t.junk \in Whole(t.h)

\* A step of it.
Carries(t, x) ==
  /\ x.job = "save" /\ x.n = t.n /\ x.who = t.who /\ x.uin = t.uin /\ x.slot = t.slot /\ x.nr = t.nr
  /\ x.h = t.h /\ x.junk = t.junk /\ x.again = t.again
GoesTo(t, x, todo) == Carries(t, x) /\ x.todo = todo /\ x.ok = t.ok
StopsAt(t, x) == Carries(t, x) /\ x.todo = TA /\ x.ok = FALSE /\ x.half = t.half /\ x.base = t.base

LEMMA ThenIs ==
  ASSUME NEW t \in SaveJobs, t.todo \in STodos
  PROVE  /\ t.todo \in {TA, TW} => Then(t) = Idle
         /\ t.todo \notin {TA, TW} =>
              GoesTo(t, Then(t), Tail(t.todo)) /\ Then(t).half = t.half /\ Then(t).base = t.base /\ Then(t) \in SaveJobs
<1>1. Len(t.todo) = 1 <=> t.todo \in {TA, TW}
  BY SaveTodosAre DEF STodos
<1>2. CASE t.todo \in {TA, TW}
  BY <1>1, <1>2 DEF Then
<1>3. CASE t.todo \notin {TA, TW}
  <2> DEFINE s == Tail(t.todo)  x == [t EXCEPT !.todo = s]
  <2>1. Then(t) = x
    BY <1>1, <1>3 DEF Then
  <2>2. s \in Seq({"read", "about", "write", "answer"})
    <3>1. Len(t.todo) # 0
      BY SaveTodosAre DEF STodos
    <3> QED BY <3>1 DEF SaveJobs
  <2> HIDE DEF s
  <2>3. x \in SaveJobs /\ x.todo = s
    BY <2>2 DEF SaveJobs
  <2>4. /\ x.job = "save" /\ x.n = t.n /\ x.who = t.who /\ x.uin = t.uin /\ x.slot = t.slot /\ x.nr = t.nr
        /\ x.h = t.h /\ x.junk = t.junk /\ x.again = t.again /\ x.ok = t.ok /\ x.half = t.half /\ x.base = t.base
    BY DEF SaveJobs
  <2> HIDE DEF x
  <2> QED BY <1>3, <2>1, <2>3, <2>4 DEF GoesTo, Carries, s
<1> QED BY <1>2, <1>3

LEMMA GiveUpTo ==
  ASSUME TypeInv, NEW q \in PPs, st[q] \in SaveJobs, st[q].todo \in STodos, GiveUp(q)
  PROVE  IF st[q].todo = TW THEN st'[q] = Idle ELSE StopsAt(st[q], st'[q])
<1> DEFINE t == st[q]  x == [t EXCEPT !.ok = FALSE, !.todo = <<"answer">>]
<1>1. "answer" \in Range(t.todo) <=> t.todo # TW
  BY SaveTodosAre DEF STodos
<1>2. st'[q] = IF "answer" \in Range(t.todo) THEN x ELSE Idle
  BY DEF GiveUp, TypeInv
<1>3. /\ x.job = "save" /\ x.n = t.n /\ x.who = t.who /\ x.uin = t.uin /\ x.slot = t.slot /\ x.nr = t.nr
      /\ x.h = t.h /\ x.junk = t.junk /\ x.again = t.again /\ x.ok = FALSE /\ x.half = t.half /\ x.base = t.base
      /\ x.todo = <<"answer">>
  BY DEF SaveJobs
<1> HIDE DEF x
<1> QED BY <1>1, <1>2, <1>3 DEF StopsAt, Carries, TA

\* The first step tells what there is to do.
LEMMA HeadOfSave ==
  ASSUME NEW q \in PPs, st[q].todo \in STodos, NEW step, Doing(q, step)
  PROVE  /\ step = "read" => st[q].todo = TRWA
         /\ step = "about" => st[q].todo \in ToAbout
         /\ step = "write" => st[q].todo \in {TW, TWA}
         /\ step = "answer" => st[q].todo \in {TAW, TA}
BY SaveTodosAre DEF STodos, Doing, ToAbout

LEMMA ReadTo ==
  ASSUME TypeInv, NEW q \in PPs, JobIsWell(st[q]), Read(q)
  PROVE  /\ st[q].todo = TRWA
         /\ IF Known(Uin(q)) THEN /\ GoesTo(st[q], st'[q], TWA) /\ st'[q].half = st[q].half
                                  /\ st'[q].base = rows[Uin(q)].val
            ELSE StopsAt(st[q], st'[q])
<1>1. st[q] \in SaveJobs /\ Doing(q, "read")
  BY DoingIs DEF Read, SaveSteps
<1>2. st[q].todo = TRWA /\ st[q].todo \in STodos
  BY <1>1, HeadOfSave DEF JobIsWell
<1>3. CASE ~Known(Uin(q))
  <2>1. GiveUp(q)
    BY <1>3 DEF Read
  <2> QED BY <1>1, <1>2, <1>3, <2>1, GiveUpTo, SaveTodosDiffer
<1>4. CASE Known(Uin(q))
  <2> DEFINE t == Then(st[q])  x == [t EXCEPT !.base = rows[Uin(q)].val]
  <2>1. GoesTo(st[q], t, TWA) /\ t.half = st[q].half /\ t \in SaveJobs
    BY <1>1, <1>2, ThenIs, SaveTodosAre, SaveTodosDiffer
  <2>2. st'[q] = x
    BY <1>4 DEF Read, TypeInv
  <2> HIDE DEF t
  <2>3. /\ x.job = "save" /\ x.n = t.n /\ x.who = t.who /\ x.uin = t.uin /\ x.slot = t.slot /\ x.nr = t.nr
        /\ x.h = t.h /\ x.junk = t.junk /\ x.again = t.again /\ x.ok = t.ok /\ x.half = t.half
        /\ x.todo = t.todo /\ x.base = rows[Uin(q)].val
    BY <2>1 DEF SaveJobs
  <2> HIDE DEF x
  <2> QED BY <1>2, <1>4, <2>1, <2>2, <2>3 DEF GoesTo, Carries
<1> QED BY <1>3, <1>4

LEMMA AboutTo ==
  ASSUME TypeInv, NEW q \in PPs, JobIsWell(st[q]), SaveAbout(q)
  PROVE  /\ st[q].todo \in ToAbout
         /\ GoesTo(st[q], st'[q], IF st[q].todo = TBA THEN TA ELSE TWA) /\ st'[q].half = TRUE
<1>1. st[q] \in SaveJobs /\ Doing(q, "about")
  BY DoingIs DEF SaveAbout, SaveSteps
<1>2. st[q].todo \in ToAbout /\ st[q].todo \in STodos
  BY <1>1, HeadOfSave DEF JobIsWell
<1> DEFINE t == Then(st[q])  x == [t EXCEPT !.half = TRUE]
<1>3. GoesTo(st[q], t, IF st[q].todo = TBA THEN TA ELSE TWA) /\ t \in SaveJobs
  BY <1>1, <1>2, ThenIs, SaveTodosAre, SaveTodosDiffer DEF ToAbout
<1>4. st'[q] = x
  BY DEF SaveAbout, TypeInv
<1> HIDE DEF t
<1>5. /\ x.job = "save" /\ x.n = t.n /\ x.who = t.who /\ x.uin = t.uin /\ x.slot = t.slot /\ x.nr = t.nr
      /\ x.h = t.h /\ x.junk = t.junk /\ x.again = t.again /\ x.ok = t.ok /\ x.half = TRUE /\ x.todo = t.todo
  BY <1>3 DEF SaveJobs
<1> HIDE DEF x
<1> QED BY <1>2, <1>3, <1>4, <1>5 DEF GoesTo, Carries

LEMMA WriteTo ==
  ASSUME TypeInv, NEW q \in PPs, JobIsWell(st[q]), Write(q)
  PROVE  /\ st[q].todo \in {TW, TWA}
         /\ IF st[q].todo = TW THEN st'[q] = Idle
            ELSE \/ GoesTo(st[q], st'[q], TA) /\ st'[q].half = st[q].half
                 \/ ~Known(Uin(q)) /\ st[q].h.reply = "counted" /\ StopsAt(st[q], st'[q])
<1>1. st[q] \in SaveJobs /\ Doing(q, "write")
  BY DoingIs DEF Write, SaveSteps
<1>2. st[q].todo \in {TW, TWA} /\ st[q].todo \in STodos
  BY <1>1, HeadOfSave DEF JobIsWell
<1>3. CASE GoOn(q)
  <2>1. st'[q] = Then(st[q])
    BY <1>3 DEF GoOn, TypeInv
  <2> QED BY <1>1, <1>2, <2>1, ThenIs, SaveTodosAre, SaveTodosDiffer
<1>4. CASE ~Known(Uin(q)) /\ st[q].h.reply = "counted" /\ GiveUp(q)
  BY <1>1, <1>2, <1>4, GiveUpTo
<1> QED BY <1>3, <1>4 DEF Write

LEMMA FailTo ==
  ASSUME TypeInv, NEW q \in PPs, JobIsWell(st[q]), Fail(q)
  PROVE  /\ st[q].todo \notin {TAW, TA}
         /\ IF st[q].todo = TW THEN st'[q] = Idle ELSE StopsAt(st[q], st'[q])
<1>1. PICK step \in {"read", "about", "write"} : Doing(q, step)
  BY DEF Fail
<1>2. st[q] \in SaveJobs
  BY <1>1, DoingIs DEF SaveSteps
<1>3. st[q].todo \in STodos /\ st[q].todo \notin {TAW, TA}
  BY <1>1, SaveTodosAre DEF JobIsWell, Doing
<1>4. GiveUp(q)
  BY DEF Fail
<1> QED BY <1>2, <1>3, <1>4, GiveUpTo

LEMMA AnswerTo ==
  ASSUME TypeInv, NEW q \in PPs, JobIsWell(st[q]), Answer(q)
  PROVE  /\ st[q].todo \in {TAW, TA}
         /\ IF st[q].todo = TA THEN st'[q] = Idle ELSE GoesTo(st[q], st'[q], TW) /\ st'[q].half = st[q].half
<1>1. st[q] \in SaveJobs /\ Doing(q, "answer")
  BY DoingIs DEF Answer, SaveSteps
<1>2. st[q].todo \in {TAW, TA} /\ st[q].todo \in STodos
  BY <1>1, HeadOfSave DEF JobIsWell
<1>3. st'[q] = Then(st[q])
  BY DEF Answer, GoOn, TypeInv
<1> QED BY <1>1, <1>2, <1>3, ThenIs, SaveTodosAre, SaveTodosDiffer

\* The write of field c is still to come.
Due(t, c) == t.todo \in IF t.h.about /\ c = "notes" THEN ToAbout ELSE ToWrite
\* Where field c of the request stands: V is stored, T is the last request the user was told of.
Stage(t, V, T, c) ==
  /\ t.again => T = t.n /\ V = Value(T, c) /\ c \in t.h.fields
  /\ ~t.again /\ c \notin t.h.fields => V = Value(T, c) /\ (t.todo = TWA => t.base[c] = V)
  /\ ~t.again /\ c \in t.h.fields /\ Due(t, c) => IF t.todo = TW THEN T = t.n ELSE V = Value(T, c)
  /\ ~t.again /\ c \in t.h.fields /\ ~Due(t, c) /\ t.ok => V = Value(t.n, c) /\ (t.half \/ t.todo = TA)
  /\ ~t.again /\ c \in t.h.fields /\ ~Due(t, c) /\ ~t.ok => t.half \/ V = Value(T, c)
Treated(t, c) == JobIsWell(t) /\ Keeps(t.h) /\ c \in Touches(t.h) \ (t.h.spoils \cup t.junk)

LEMMA TreatedIs ==
  ASSUME NEW t, NEW c, Treated(t, c)
  PROVE  /\ c \in t.h.fields => IF t.h.about /\ c = "notes" THEN c \notin DOMAIN t.h.writes
                                ELSE c \in DOMAIN t.h.writes /\ t.h.writes[c] = c /\ c # Empty /\ c # Undefined
         /\ c \notin t.h.fields => /\ c \in DOMAIN t.h.writes /\ t.h.writes[c] = Empty
                                   /\ t.h.reads /\ ~t.h.about /\ t.h.reply = "result"
         /\ t.todo = TRWA => ~t.h.about
         /\ t.todo \in {TAW, TW} => t.h.reply = "first" /\ ~t.h.about
         /\ Empty \notin t.junk
<1>1. Empty \notin t.junk
  <2>1. Empty # "notes"
    BY DEF Empty
  <2> QED BY <2>1 DEF Treated, JobIsWell, Whole, Keeps, Named
<1> QED BY <1>1 DEF Treated, JobIsWell, Keeps, Named, Touches

LEMMA StoresKept ==
  ASSUME NEW t, NEW c, Treated(t, c), c \in DOMAIN t.h.writes
  PROVE  Stored(t, c) = IF c \in t.h.fields THEN Value(t.n, c) ELSE t.base[c]
<1>1. Empty # Undefined
  BY DEF Empty, Undefined
<1>2. c \notin t.junk
  BY DEF Treated
<1> QED BY <1>1, <1>2, TreatedIs DEF Stored

LEMMA StageRead ==
  ASSUME NEW t, NEW x, NEW V, NEW T, NEW c, Treated(t, c), Stage(t, V, T, c),
         t.todo = TRWA, GoesTo(t, x, TWA), x.base[c] = V, x.half = t.half
  PROVE  Stage(x, V, T, c)
<1>1. ~t.h.about
  BY TreatedIs
<1>2. Due(t, c) /\ Due(x, c)
  BY <1>1 DEF Due, GoesTo, Carries, ToWrite
<1> QED BY <1>2, SaveTodosDiffer DEF Stage, GoesTo, Carries

LEMMA StageAbout ==
  ASSUME NEW t, NEW x, NEW V, NEW W, NEW T, NEW c, Treated(t, c), Stage(t, V, T, c),
         t.todo \in ToAbout, GoesTo(t, x, IF t.todo = TBA THEN TA ELSE TWA), x.half = TRUE,
         W = IF c = "notes" THEN Value(t.n, c) ELSE V
  PROVE  Stage(x, W, T, c)
<1>1. t.h.about /\ c \in t.h.fields
  BY TreatedIs DEF Treated, JobIsWell
<1>2. x.h = t.h /\ x.again = t.again /\ x.n = t.n /\ x.ok = t.ok /\ x.todo = IF t.todo = TBA THEN TA ELSE TWA
  BY DEF GoesTo, Carries
<1>3. CASE c = "notes"
  <2>1. Due(t, c) /\ ~Due(x, c)
    BY <1>1, <1>2, <1>3, SaveTodosDiffer DEF Due, ToAbout
  <2> QED BY <1>1, <1>2, <1>3, <2>1 DEF Stage
<1>4. CASE c # "notes"
  <2>1. Due(t, c) <=> Due(x, c)
    BY <1>1, <1>2, <1>4, SaveTodosDiffer DEF Due, ToAbout, ToWrite
  <2>2. t.todo # TW /\ x.todo # TW
    BY <1>2, SaveTodosDiffer DEF ToAbout
  <2> QED BY <1>1, <1>2, <1>4, <2>1, <2>2 DEF Stage
<1> QED BY <1>3, <1>4

LEMMA StageWrite ==
  ASSUME NEW t, NEW x, NEW V, NEW W, NEW T, NEW c, Treated(t, c), Stage(t, V, T, c),
         t.todo = TWA, GoesTo(t, x, TA), x.half = t.half,
         W = IF c \in DOMAIN t.h.writes THEN Stored(t, c) ELSE V
  PROVE  Stage(x, W, T, c)
<1>1. x.h = t.h /\ x.again = t.again /\ x.n = t.n /\ x.ok = t.ok /\ x.todo = TA
  BY DEF GoesTo, Carries
<1>2. ~Due(x, c) /\ t.ok
  BY <1>1, SaveTodosDiffer DEF Due, ToAbout, ToWrite, Treated, JobIsWell
<1>3. CASE c \notin t.h.fields
  BY <1>1, <1>2, <1>3, TreatedIs, StoresKept, SaveTodosDiffer DEF Stage
<1>4. CASE c \in t.h.fields /\ t.h.about /\ c = "notes"
  <2>1. ~Due(t, c)
    BY <1>4, SaveTodosDiffer DEF Due, ToAbout
  <2> QED BY <1>1, <1>2, <1>4, <2>1, TreatedIs DEF Stage
<1>5. CASE c \in t.h.fields /\ ~(t.h.about /\ c = "notes")
  <2>1. W = Value(t.n, c)
    BY <1>5, TreatedIs, StoresKept
  <2> QED BY <1>1, <1>2, <1>5, <2>1 DEF Stage
<1> QED BY <1>3, <1>4, <1>5

LEMMA WriteEnds ==
  ASSUME NEW t, NEW V, NEW W, NEW T, NEW c, Treated(t, c), Stage(t, V, T, c), t.todo = TW,
         W = IF c \in DOMAIN t.h.writes THEN Stored(t, c) ELSE V
  PROVE  W = Value(T, c)
<1>1. t.h.reply = "first" /\ ~t.h.about
  BY TreatedIs
<1>2. c \in t.h.fields
  BY <1>1, TreatedIs
<1>3. W = Value(t.n, c)
  BY <1>1, <1>2, TreatedIs, StoresKept
<1>4. Due(t, c)
  BY <1>1 DEF Due, ToWrite
<1> QED BY <1>2, <1>3, <1>4 DEF Stage

LEMMA StageStops ==
  ASSUME NEW t, NEW x, NEW V, NEW T, NEW c, Treated(t, c), Stage(t, V, T, c),
         t.todo \notin {TAW, TA, TW}, StopsAt(t, x)
  PROVE  Stage(x, V, T, c)
<1>1. x.h = t.h /\ x.again = t.again /\ x.n = t.n /\ x.ok = FALSE /\ x.todo = TA /\ x.half = t.half
  BY DEF StopsAt, Carries
<1>2. ~Due(x, c) /\ x.todo # TWA
  BY <1>1, SaveTodosDiffer DEF Due, ToAbout, ToWrite
<1> QED BY <1>1, <1>2 DEF Stage

LEMMA StageAnswer ==
  ASSUME NEW t, NEW x, NEW V, NEW T, NEW U, NEW c, Treated(t, c), Stage(t, V, T, c),
         t.todo = TAW, GoesTo(t, x, TW), U = IF ~t.again /\ c \in t.h.fields THEN t.n ELSE T
  PROVE  Stage(x, V, U, c)
<1>1. x.h = t.h /\ x.again = t.again /\ x.n = t.n /\ x.ok = t.ok /\ x.todo = TW
  BY DEF GoesTo, Carries
<1>2. t.h.reply = "first" /\ ~t.h.about /\ c \in t.h.fields
  BY TreatedIs
<1>3. Due(x, c)
  BY <1>1, <1>2 DEF Due, ToWrite
<1> QED BY <1>1, <1>2, <1>3, SaveTodosDiffer DEF Stage

LEMMA AnswerEnds ==
  ASSUME NEW t, NEW V, NEW T, NEW U, NEW c, Treated(t, c), Stage(t, V, T, c), t.todo = TA,
         ~t.ok => t.h.reply \in {"result", "counted"},
         t.again \/ t.ok \/ ~t.half,
         U = IF ~t.again /\ t.ok /\ c \in t.h.fields THEN t.n ELSE T
  PROVE  V = Value(U, c)
<1>1. ~Due(t, c)
  BY SaveTodosDiffer DEF Due, ToAbout, ToWrite
<1> QED BY <1>1 DEF Stage

LEMMA NoSteps ==
  /\ <<>> \o TA = TA /\ <<>> \o TWA = TWA /\ <<"about">> \o TA = TBA
  /\ <<"about">> \o TWA = TBWA /\ <<"read">> \o TWA = TRWA
<1>1. TA \in Seq(SaveSteps) /\ TWA \in Seq(SaveSteps) /\ TBA \in Seq(SaveSteps) /\ TBWA \in Seq(SaveSteps) /\ TRWA \in Seq(SaveSteps)
  BY DEF TA, TWA, TBA, TBWA, TRWA, SaveSteps
<1>2. <<>> \o TA = TA /\ <<>> \o TWA = TWA
  BY <1>1, ConcatEmptySeq
<1>3. "about" \in SaveSteps /\ "read" \in SaveSteps
  BY DEF SaveSteps
<1>4. <<"about">> \o TA = TBA
  <2>1. Len(TBA) = Len(TA) + 1 /\ TBA[1] = "about" /\ \A i \in 1 .. Len(TA) : TBA[i + 1] = TA[i]
    BY DEF TBA, TA
  <2> QED BY <1>1, <1>3, <2>1, ConsIs
<1>5. <<"about">> \o TWA = TBWA
  <2>1. Len(TBWA) = Len(TWA) + 1 /\ TBWA[1] = "about" /\ \A i \in 1 .. Len(TWA) : TBWA[i + 1] = TWA[i]
    BY DEF TBWA, TWA
  <2> QED BY <1>1, <1>3, <2>1, ConsIs
<1>6. <<"read">> \o TWA = TRWA
  <2>1. Len(TRWA) = Len(TWA) + 1 /\ TRWA[1] = "read" /\ \A i \in 1 .. Len(TWA) : TRWA[i + 1] = TWA[i]
    BY DEF TRWA, TWA
  <2> QED BY <1>1, <1>3, <2>1, ConsIs
<1> QED BY <1>2, <1>4, <1>5, <1>6

\* What there is to do at the start.
LEMMA StepsToDo ==
  ASSUME NEW h, Keeps(h), NEW refused, NEW about, refused => h.toolong = "refuse"
  PROVE  LET todo == Steps(h, refused, about) IN
         /\ h.reply = "first" => todo = TAW
         /\ h.reply # "first" /\ (refused \/ h.nothing) => todo = IF h.about /\ about THEN TBA ELSE TA
         /\ h.reply # "first" /\ ~refused /\ ~h.nothing => todo = IF h.about /\ about THEN TBWA
                                                                ELSE IF h.reads THEN TRWA ELSE TWA
<1>1. h.about => ~h.reads
  BY DEF Keeps
<1>2. /\ <<"answer", "write">> = TAW /\ <<"answer">> = TA /\ <<"write", "answer">> = TWA
  BY DEF TAW, TA, TWA
<1>3. CASE h.reply = "first"
  BY <1>2, <1>3 DEF Steps
<1>4. CASE h.reply # "first" /\ (refused \/ h.nothing)
  <2>1. Steps(h, refused, about) = (IF h.about /\ about THEN <<"about">> ELSE <<>>) \o TA
    BY <1>2, <1>4 DEF Steps
  <2> QED BY <1>4, <2>1, NoSteps
<1>5. CASE h.reply # "first" /\ ~refused /\ ~h.nothing
  <2>1. Steps(h, refused, about) = (IF h.reads THEN <<"read">> ELSE <<>>) \o (IF h.about /\ about THEN <<"about">> ELSE <<>>) \o TWA
    BY <1>2, <1>5 DEF Steps
  <2>2. CASE h.about /\ about
    <3>1. Steps(h, refused, about) = <<>> \o <<"about">> \o TWA
      BY <1>1, <2>1, <2>2
    <3>2. <<>> \o <<"about">> = <<"about">>
      OBVIOUS
    <3> QED BY <1>5, <2>2, <3>1, <3>2, NoSteps
  <2>3. CASE ~(h.about /\ about)
    <3>1. Steps(h, refused, about) = (IF h.reads THEN <<"read">> ELSE <<>>) \o <<>> \o TWA
      BY <2>1, <2>3
    <3>2. <<>> \o <<>> = <<>> /\ <<"read">> \o <<>> = <<"read">>
      BY ConcatEmptySeq
    <3> QED BY <1>5, <2>3, <3>1, <3>2, NoSteps
  <2> QED BY <2>2, <2>3
<1> QED BY <1>3, <1>4, <1>5

\* A request at the start: h is its handler, refused says that a string was.
Fresher(x, h, refused) ==
  /\ Keeps(h) /\ (h.nothing => DOMAIN h.writes = {}) /\ (refused => h.toolong = "refuse")
  /\ x.h = h /\ x.junk \in Whole(h) /\ x.todo = Steps(h, refused, x.junk = {}) /\ x.half = FALSE
  /\ x.ok <=> ~refused /\ ~(h.nothing /\ h.reply = "counted")
  /\ x.again => h.proto # "v7"

LEMMA StepsOfFresh ==
  ASSUME NEW x, NEW h, NEW refused, Fresher(x, h, refused)
  PROVE  /\ h.reply = "first" => x.todo = TAW
         /\ h.reply # "first" /\ (refused \/ h.nothing) => x.todo = IF h.about /\ x.junk = {} THEN TBA ELSE TA
         /\ h.reply # "first" /\ ~refused /\ ~h.nothing => x.todo = IF h.about /\ x.junk = {} THEN TBWA
                                                                ELSE IF h.reads THEN TRWA ELSE TWA
<1> DEFINE about == x.junk = {}
<1>1. x.todo = Steps(h, refused, about) /\ Keeps(h) /\ (refused => h.toolong = "refuse")
  BY DEF Fresher
<1>2. about <=> x.junk = {}
  OBVIOUS
<1> HIDE DEF about
<1> QED BY <1>1, <1>2, StepsToDo

LEMMA FreshIsWell ==
  ASSUME NEW x, NEW h, NEW refused, Fresher(x, h, refused)
  PROVE  JobIsWell(x) /\ (~x.ok => h.reply \in {"result", "counted"})
<1>1. ~x.ok => h.reply \in {"result", "counted"} /\ (refused \/ h.nothing)
  BY DEF Fresher, Keeps
<1>2. h.reply = "first" => x.todo = TAW
  BY StepsOfFresh
<1>3. h.reply # "first" => x.todo \in {TA, TBA, TBWA, TRWA, TWA}
  BY StepsOfFresh
<1>4. h.reply # "first" => x.todo \notin {TAW, TW}
  BY <1>3, SaveTodosDiffer
<1>5. x.todo = TRWA => h.reads
  BY StepsOfFresh, SaveTodosDiffer
<1>6. x.todo \in ToAbout => h.about
  BY StepsOfFresh, SaveTodosDiffer DEF ToAbout
<1>7. ~x.ok => x.todo \in {TA, TBA}
  BY <1>1, StepsOfFresh
<1> QED BY <1>1, <1>2, <1>3, <1>4, <1>5, <1>6, <1>7 DEF JobIsWell, STodos, Fresher

LEMMA StageBegins ==
  ASSUME NEW x, NEW h, NEW refused, Fresher(x, h, refused), NEW c, Treated(x, c), NEW V, NEW T, V = Value(T, c),
         x.again => T = x.n /\ c \in h.fields
  PROVE  Stage(x, V, T, c)
<1>1. x.h = h
  BY DEF Fresher
<1>2. x.todo # TW
  BY StepsOfFresh, SaveTodosDiffer
<1>3. c \notin h.fields => x.todo # TWA
  <2>1. c \notin h.fields => h.reads /\ ~h.about
    BY <1>1, TreatedIs
  <2> QED BY <2>1, StepsOfFresh, SaveTodosDiffer
<1>4. ASSUME c \in h.fields, x.ok PROVE Due(x, c)
  <2>1. ~refused /\ (h.nothing => DOMAIN h.writes = {})
    BY <1>4 DEF Fresher
  <2>2. CASE h.about /\ c = "notes"
    <3>1. x.junk = {}
      BY <1>1, <1>4, <2>2 DEF Fresher, Whole, Treated
    <3>2. h.reply # "first"
      BY <2>2 DEF Fresher, Keeps
    <3>3. x.todo \in ToAbout
      BY <2>1, <2>2, <3>1, <3>2, StepsOfFresh DEF ToAbout
    <3> QED BY <1>1, <2>2, <3>3 DEF Due
  <2>3. CASE ~(h.about /\ c = "notes")
    <3>1. ~h.nothing
      BY <1>1, <1>4, <2>1, <2>3, TreatedIs
    <3>2. x.todo \in ToWrite
      BY <2>1, <3>1, StepsOfFresh DEF ToWrite
    <3> QED BY <1>1, <2>3, <3>2 DEF Due
  <2> QED BY <2>2, <2>3
<1>5. Treated(x, c)
  OBVIOUS
<1> QED BY <1>1, <1>2, <1>3, <1>4 DEF Stage

\* Every step leaves the job as it must be.
LEMMA StepIsWell ==
  ASSUME NEW t, NEW x, JobIsWell(t), Keeps(t.h),
         \/ t.todo = TRWA /\ GoesTo(t, x, TWA)
         \/ t.todo \in ToAbout /\ GoesTo(t, x, IF t.todo = TBA THEN TA ELSE TWA)
         \/ t.todo = TWA /\ GoesTo(t, x, TA)
         \/ t.todo = TAW /\ GoesTo(t, x, TW)
         \/ t.todo \notin {TAW, TA, TW} /\ StopsAt(t, x)
  PROVE  JobIsWell(x)
<1>1. Carries(t, x)
  BY DEF GoesTo, StopsAt
<1>2. x.h = t.h /\ x.junk = t.junk /\ x.again = t.again
  BY <1>1 DEF Carries
<1>3. CASE t.todo = TRWA /\ GoesTo(t, x, TWA)
  BY <1>2, <1>3, SaveTodosDiffer DEF JobIsWell, GoesTo, STodos, ToAbout
<1>4. CASE t.todo \in ToAbout /\ GoesTo(t, x, IF t.todo = TBA THEN TA ELSE TWA)
  BY <1>2, <1>4, SaveTodosDiffer DEF JobIsWell, GoesTo, STodos, ToAbout
<1>5. CASE t.todo = TWA /\ GoesTo(t, x, TA)
  BY <1>2, <1>5, SaveTodosDiffer DEF JobIsWell, GoesTo, STodos, ToAbout
<1>6. CASE t.todo = TAW /\ GoesTo(t, x, TW)
  BY <1>2, <1>6, SaveTodosDiffer DEF JobIsWell, GoesTo, STodos, ToAbout
<1>7. CASE t.todo \notin {TAW, TA, TW} /\ StopsAt(t, x)
  BY <1>2, <1>7, SaveTodosDiffer DEF JobIsWell, StopsAt, STodos, ToAbout
<1> QED BY <1>3, <1>4, <1>5, <1>6, <1>7

Clean(w, p, c) == w[p][c] = {}
Marked(w, p, F) == \A c \in look \cap F : ~Clean(w, p, c)
Busy(t, p, c) == t.job = "save" /\ t.who = p /\ c \in Touches(t.h)
\* the place of handler t belongs to another session: Moved
Away(t, places) == t.h.proto = "v7" /\ places[t.slot].nr # t.nr

\* Handler t works on a request that was sent; what it is known to spoil is known.
HandlerIs(t, requests, w) ==
  /\ JobIsWell(t) /\ t.h = requests[t.n].h
  /\ Marked(w, t.who, t.h.spoils \cup t.junk)
  /\ ~t.ok => t.h.reply \in {"result", "counted"} \/ Marked(w, t.who, Touches(t.h))
\* A user is told, T, of his own requests, of fields that they carry.
ToldOf(T, requests, w, p, c) == T > 0 =>
  /\ requests[T].who = p /\ c \in requests[T].h.fields
  /\ c \in requests[T].h.spoils => ~Clean(w, p, c)
\* Two handlers do not meet in a field unseen.
Meeting(jobs, w, p, c) == \A q, x \in PPs : Busy(jobs[q], p, c) /\ Busy(jobs[x], p, c) /\ q # x => ~Clean(w, p, c)
\* The sessions and the requests of a user have the number that he knows, u.
PlacedAt(places, jobs, u, p) ==
  /\ \A s \in Slots : places[s] # Free /\ places[s].who = p => places[s].uin = u
  /\ \A q \in PPs : jobs[q].job = "save" /\ jobs[q].who = p => jobs[q].uin = u
\* What is stored, V, is what the user was told, T, or where his request stands.
FieldIs(jobs, places, V, T, p, c) ==
  /\ (\A q \in PPs : ~Busy(jobs[q], p, c)) => V = Value(T, c)
  /\ \A q \in PPs : Busy(jobs[q], p, c) /\ ~Away(jobs[q], places) => Stage(jobs[q], V, T, c)
OwnRow(table, u, p) == u # 0 /\ table[u] # NoRow /\ table[u].who = p

HandlersInv == \A q \in PPs : st[q].job = "save" => HandlerIs(st[q], sent, why)
ToldInv     == \A p \in Everyone : \A c \in look : ToldOf(told[p][c], sent, why, p, c)
CrossInv    == \A p \in Everyone : \A c \in look : Meeting(st, why, p, c)
PlacesInv   == \A p \in Everyone : \A c \in look : number[p] # 0 /\ Clean(why, p, c) => PlacedAt(slot, st, number[p], p)
\* Who joins has no number, and joins once.
ComersInv   == \A q \in PPs : st[q].job = "join" =>
  /\ number[st[q].who] = 0
  /\ \A x \in PPs : st[x].job = "join" /\ st[x].who = st[q].who => x = q
FieldsInv   == \A p \in Everyone : \A c \in look : OwnRow(rows, number[p], p) /\ Clean(why, p, c) =>
                 FieldIs(st, slot, rows[number[p]].val[c], told[p][c], p, c)
ShownInv == why \in Reasons /\ HandlersInv /\ ToldInv /\ CrossInv /\ PlacesInv /\ ComersInv /\ FieldsInv

\* ShownInv in the next state.
LEMMA ShownIs ==
  ASSUME look' = look, why' \in Reasons,
         \A q \in PPs : st'[q].job = "save" => HandlerIs(st'[q], sent', why'),
         \A p \in Everyone : \A c \in look : ToldOf(told'[p][c], sent', why', p, c),
         \A p \in Everyone : \A c \in look : Meeting(st', why', p, c),
         \A p \in Everyone : \A c \in look : number'[p] # 0 /\ Clean(why', p, c) => PlacedAt(slot', st', number'[p], p),
         \A q \in PPs : st'[q].job = "join" =>
           /\ number'[st'[q].who] = 0
           /\ \A x \in PPs : st'[x].job = "join" /\ st'[x].who = st'[q].who => x = q,
         \A p \in Everyone : \A c \in look : OwnRow(rows', number'[p], p) /\ Clean(why', p, c) =>
           FieldIs(st', slot', rows'[number'[p]].val[c], told'[p][c], p, c)
  PROVE  ShownInv'
<1>1. Reasons' = Reasons
  BY DEF Reasons
<1>2. HandlersInv'
  BY DEF HandlersInv, HandlerIs, Marked
<1>3. ToldInv' /\ CrossInv' /\ PlacesInv' /\ FieldsInv'
  BY DEF ToldInv, CrossInv, PlacesInv, FieldsInv
<1>4. ComersInv'
  BY DEF ComersInv
<1> QED BY <1>1, <1>2, <1>3, <1>4 DEF ShownInv

LEMMA CleanBefore ==
  ASSUME WhyGrows, NEW p \in Everyone, NEW c \in look, Clean(why', p, c)
  PROVE  Clean(why, p, c)
BY DEF WhyGrows, Clean

LEMMA MarksStay ==
  ASSUME WhyGrows, NEW p \in Everyone, NEW F, Marked(why, p, F)
  PROVE  Marked(why', p, F)
BY CleanBefore DEF Marked

LEMMA MarksAre ==
  ASSUME NEW w \in Reasons, NEW p \in Everyone, NEW F, NEW a, {a} \in SUBSET Causes
  PROVE  /\ Because(w, p, F, {a}) \in Reasons /\ Marked(Because(w, p, F, {a}), p, F)
         /\ \A G : Marked(w, p, G) => Marked(Because(w, p, F, {a}), p, G)
<1> DEFINE v == Because(w, p, F, {a})
<1>1. /\ v \in Reasons /\ \A x \in Everyone : \A f \in look : w[x][f] \subseteq v[x][f]
      /\ \A f \in look \cap F : {a} \subseteq v[p][f]
  BY BecauseIs
<1> HIDE DEF v
<1>2. v \in Reasons /\ Marked(v, p, F) /\ \A G : Marked(w, p, G) => Marked(v, p, G)
  BY <1>1 DEF Marked, Clean
<1> QED BY <1>2 DEF v

----------------------------------------------------------------------------
(* A request that a handler begins with                                    *)

NewJob(q) ==
  /\ Others(q) /\ st'[q].job = "save" /\ st'[q].who \in Everyone
  /\ st'[q].n \in 1 .. Len(sent') /\ st'[q].h = sent'[st'[q].n].h /\ st'[q].h \in Handlers
  /\ \E s \in Slots : slot[s] # Free /\ slot[s].who = st'[q].who /\ st'[q].uin = slot[s].uin
  /\ \E refused \in BOOLEAN : Fresher(st'[q], st'[q].h, refused)
  /\ Marked(why', st'[q].who, st'[q].h.spoils \cup st'[q].junk)
  /\ Marked(why', st'[q].who, Crossing(st'[q].who, st'[q].h))
  /\ st'[q].again => Marked(why', st'[q].who, {c \in Touches(st'[q].h) : told[st'[q].who][c] # st'[q].n})

\* Request n is taken up by q.
Picks(q, n, p, s, h, junk, again) ==
  /\ Others(q) /\ st'[q].job = "save" /\ st'[q].who = p /\ st'[q].n = n /\ st'[q].h = h
  /\ st'[q].uin = slot[s].uin /\ st'[q].junk = junk /\ (st'[q].again => again)
  /\ \E refused \in BOOLEAN : Fresher(st'[q], h, refused)

LEMMA BeginFresh ==
  ASSUME TypeInv, NEW q \in PPs, NEW n \in Nat, NEW p \in Everyone, NEW s \in Slots, slot[s] # Free,
         NEW h \in Handlers, NEW long \in BOOLEAN, NEW junk \in Whole(h),
         NEW again \in BOOLEAN, h.proto = "v7" => again = FALSE, Begin(q, n, p, s, h, long, junk, again)
  PROVE  Picks(q, n, p, s, h, junk, again)
<1> DEFINE refused == long /\ h.toolong = "refuse"
           ok == ~refused /\ ~(h.nothing /\ h.reply = "counted")
           base == [c \in look |-> NoValue(Empty)]
           todo == Steps(h, refused, junk = {})
           x == [job |-> "save", n |-> n, who |-> p, uin |-> slot[s].uin, slot |-> s, nr |-> slot[s].nr, h |-> h,
                 long |-> long, junk |-> junk, again |-> again, ok |-> ok,
                 half |-> FALSE, base |-> base, todo |-> todo]
<1>1. st' = [st EXCEPT ![q] = x]
  BY DEF Begin
<1>2. (ok <=> ~refused /\ ~(h.nothing /\ h.reply = "counted")) /\ refused \in BOOLEAN /\ (refused => h.toolong = "refuse")
  OBVIOUS
<1>3. Keeps(h) /\ (h.nothing => DOMAIN h.writes = {})
  BY HandlersKeep
<1> HIDE DEF ok, base
<1>4. todo = Steps(h, refused, junk = {})
  OBVIOUS
<1> HIDE DEF todo
<1>5. /\ x.job = "save" /\ x.n = n /\ x.who = p /\ x.uin = slot[s].uin /\ x.h = h /\ x.junk = junk
      /\ x.again = again /\ x.ok = ok /\ x.half = FALSE /\ x.todo = todo
  OBVIOUS
<1> HIDE DEF x
<1>6. st'[q] = x /\ Others(q)
  BY <1>1 DEF TypeInv, Others
<1>7. x.todo = Steps(h, refused, x.junk = {})
  BY <1>4, <1>5
<1> HIDE DEF refused
<1>8. x.again => h.proto # "v7"
  BY <1>5
<1>9. Fresher(x, h, refused)
  BY <1>2, <1>3, <1>5, <1>7, <1>8 DEF Fresher
<1> QED BY <1>2, <1>5, <1>6, <1>9 DEF Picks

LEMMA SaveNew ==
  ASSUME TypeInv, why \in Reasons, NEW q \in PPs, NEW s \in Slots, Save(q, s)
  PROVE  NewJob(q)
<1> DEFINE p == slot[s].who
           n == Len(sent) + 1
           Asks(h, hide) ==
             /\ Sent(p, s, h, hide) /\ Begin(q, n, p, s, h, FALSE, {}, FALSE)
             /\ why' = Because(Because(why, p, h.spoils, {"spoiled"}), p, Crossing(p, h), {"overlap"})
<1>0. PICK h \in Handlers : \E hide \in SUBSET h.flags : Asks(h, hide)
  BY DEF Save
<1>1. PICK hide \in SUBSET h.flags : Asks(h, hide)
  BY <1>0
<1>2. slot[s] # Free
  BY DEF Save
<1>3. p \in Everyone
  BY <1>2, PlaceIs
<1>4. Len(sent') = n /\ n \in 1 .. Len(sent') /\ n \in Nat /\ sent'[n].h = h
  <2>1. Sent(slot[s].who, s, h, hide)
    BY <1>1
  <2>2. /\ Len(sent') = Len(sent) + 1 /\ Len(sent) \in Nat /\ sent'[Len(sent) + 1].h = h
    BY <1>2, <2>1, SentIs
  <2> QED BY <2>2
<1>5. {} \in Whole(h)
  BY DEF Whole
<1> HIDE DEF p, n
<1>6. Marked(why', p, h.spoils) /\ Marked(why', p, Crossing(p, h))
  <2> DEFINE w == Because(why, p, h.spoils, {"spoiled"})
  <2>1. w \in Reasons /\ Marked(w, p, h.spoils)
    BY <1>3, CausesAre, MarksAre
  <2>2. why' = Because(w, p, Crossing(p, h), {"overlap"})
    BY <1>1
  <2> HIDE DEF w
  <2> QED BY <1>3, <2>1, <2>2, CausesAre, MarksAre
<1>7. Picks(q, n, p, s, h, {}, FALSE)
  <2>1. Begin(q, n, p, s, h, FALSE, {}, FALSE)
    BY <1>1
  <2> QED BY <1>2, <1>3, <1>4, <1>5, <2>1, BeginFresh
<1>8. Marked(why', p, h.spoils \cup {})
  BY <1>6 DEF Marked
<1> QED BY <1>2, <1>3, <1>4, <1>6, <1>7, <1>8 DEF NewJob, Picks, p

LEMMA TooLongNew ==
  ASSUME TypeInv, why \in Reasons, NEW q \in PPs, NEW s \in Slots, TooLong(q, s)
  PROVE  st' = st \/ NewJob(q)
<1> SUFFICES ASSUME st' # st PROVE NewJob(q)
  OBVIOUS
<1> DEFINE p == slot[s].who
           n == Len(sent) + 1
           Asks(h, junk) ==
             /\ Sent(p, s, h, h.flags) /\ Begin(q, n, p, s, h, TRUE, junk, FALSE)
             /\ why' = Because(Because(Because(why, p, h.spoils, {"spoiled"}), p, junk, {"long"}),
                               p, Crossing(p, h), {"overlap"})
<1>0. PICK h \in Handlers : \E junk \in Junk(h) : Asks(h, junk)
  BY DEF TooLong
<1>1. PICK junk \in Junk(h) : Asks(h, junk)
  BY <1>0
<1>2. slot[s] # Free
  BY DEF TooLong
<1>3. p \in Everyone
  BY <1>2, PlaceIs
<1>4. Len(sent') = n /\ n \in 1 .. Len(sent') /\ n \in Nat /\ sent'[n].h = h
  <2> DEFINE hide == h.flags
  <2>1. hide \in SUBSET h.flags
    OBVIOUS
  <2>2. Sent(slot[s].who, s, h, hide)
    BY <1>1
  <2> HIDE DEF hide
  <2>3. /\ Len(sent') = Len(sent) + 1 /\ Len(sent) \in Nat /\ sent'[Len(sent) + 1].h = h
    BY <1>2, <2>1, <2>2, SentIs
  <2> QED BY <2>3
<1>5. junk \in Whole(h)
  BY DEF Junk, Whole
<1> HIDE DEF p, n
<1>6. Marked(why', p, h.spoils) /\ Marked(why', p, junk) /\ Marked(why', p, Crossing(p, h))
  <2> DEFINE w == Because(why, p, h.spoils, {"spoiled"})  v == Because(w, p, junk, {"long"})
  <2>1. w \in Reasons /\ Marked(w, p, h.spoils)
    BY <1>3, CausesAre, MarksAre
  <2> HIDE DEF w
  <2>2. v \in Reasons /\ Marked(v, p, h.spoils) /\ Marked(v, p, junk)
    BY <1>3, <2>1, CausesAre, MarksAre
  <2>3. why' = Because(v, p, Crossing(p, h), {"overlap"})
    BY <1>1 DEF w
  <2> HIDE DEF v
  <2> QED BY <1>3, <2>2, <2>3, CausesAre, MarksAre
<1>7. Picks(q, n, p, s, h, junk, FALSE)
  <2>1. Begin(q, n, p, s, h, TRUE, junk, FALSE)
    BY <1>1
  <2> QED BY <1>2, <1>3, <1>4, <1>5, <2>1, BeginFresh
<1>8. Marked(why', p, h.spoils \cup junk)
  BY <1>6 DEF Marked
<1> QED BY <1>2, <1>3, <1>4, <1>6, <1>7, <1>8 DEF NewJob, Picks, p

LEMMA AgainNew ==
  ASSUME TypeInv, SessionsInv, why \in Reasons, ToldInv, NEW q \in PPs, NEW n \in 1 .. Len(sent), Again(q, n)
  PROVE  NewJob(q) /\ WhyGrows
<1> DEFINE p == sent[n].who  h == sent[n].h
           F == {f \in Touches(h) : told[p][f] # n}
<1>1. PICK s \in Slots : slot[s].nr = sent[n].nr /\ Begin(q, n, p, s, h, FALSE, {}, TRUE)
  BY DEF Again
<1>2. sent \in Seq(Requests) /\ sent' = sent /\ nevent \in Nat
  BY DEF TypeInv, Requests, Again
<1>3. Len(sent) \in Nat /\ sent[n] \in Requests /\ n \in Nat /\ n > 0
  BY <1>2
<1>4. p \in Everyone /\ h \in Handlers
  BY <1>3 DEF Requests
<1>5. slot[s] # Free /\ slot[s].who = p
  <2>1. slot[s] = Free => slot[s].nr = 0
    BY PlaceIs
  <2>2. sent[n].nr # 0 /\ slot[s].who = sent[n].who
    BY <1>1, <1>2 DEF SessionsInv, IsNr
  <2> QED BY <1>1, <2>1, <2>2
<1>6. {} \in Whole(h)
  BY DEF Whole
<1>7. why' = Because(why, p, F \cup Crossing(p, h), {"again"})
  BY DEF Again
<1>8. h.proto # "v7"
  BY DEF Again
<1>9. told[p] \in [look -> 0 .. Len(sent)]
  BY <1>4 DEF TypeInv
<1>10. \A f : f \in F <=> f \in Touches(h) /\ told[p][f] # n
  OBVIOUS
<1>11. sent[n].h = h /\ sent'[n].h = h
  BY <1>2
<1> HIDE DEF p, h, F
<1>12. WhyGrows
  BY <1>4, <1>7, CausesAre, WhyOnce
<1>13. Marked(why', p, F \cup Crossing(p, h))
  BY <1>4, <1>7, CausesAre, MarksAre
<1>14. Marked(why', p, h.spoils)
  <2> SUFFICES ASSUME NEW c \in look \cap h.spoils PROVE ~Clean(why', p, c)
    BY DEF Marked
  <2>1. CASE c \in F
    BY <1>13, <2>1 DEF Marked
  <2>2. CASE c \notin F
    <3>1. told[p][c] = n
      BY <1>10, <2>2 DEF Touches
    <3>2. ~Clean(why, p, c)
      BY <1>3, <1>4, <1>11, <3>1 DEF ToldInv, ToldOf
    <3> QED BY <1>4, <1>12, <3>2, CleanBefore
  <2> QED BY <2>1, <2>2
<1>15. Picks(q, n, p, s, h, {}, TRUE)
  BY <1>1, <1>3, <1>4, <1>5, <1>6, <1>8, BeginFresh
<1>16. Marked(why', p, h.spoils \cup {}) /\ Marked(why', p, Crossing(p, h))
  BY <1>13, <1>14 DEF Marked
<1>17. Marked(why', p, {c \in Touches(h) : told[p][c] # n})
  BY <1>10, <1>13 DEF Marked
<1>18. n \in 1 .. Len(sent')
  BY <1>2
<1> QED BY <1>4, <1>5, <1>11, <1>12, <1>15, <1>16, <1>17, <1>18 DEF NewJob, Picks

LEMMA TellsStay ==
  ASSUME TypeInv, SentGrows, WhyGrows, ToldInv, NEW p \in Everyone, NEW c \in look
  PROVE  ToldOf(told[p][c], sent', why', p, c)
<1>1. told[p][c] \in 0 .. Len(sent) /\ Len(sent) \in Nat
  BY DEF TypeInv
<1>2. told[p][c] > 0 => sent'[told[p][c]] = sent[told[p][c]]
  BY <1>1 DEF SentGrows
<1>3. ToldOf(told[p][c], sent, why, p, c)
  BY DEF ToldInv
<1> QED BY <1>2, <1>3, CleanBefore DEF ToldOf

LEMMA HandlerStays ==
  ASSUME TypeInv, SavesInv, HandlersInv, SentGrows, WhyGrows, NEW x \in PPs, st[x].job = "save"
  PROVE  HandlerIs(st[x], sent', why')
<1>1. HandlerIs(st[x], sent, why)
  BY DEF HandlersInv
<1>2. st[x].n \in 1 .. Len(sent)
  BY DEF SavesInv
<1>3. sent'[st[x].n] = sent[st[x].n]
  BY <1>2 DEF SentGrows
<1>4. st[x] \in SaveJobs
  BY JobIs DEF TypeInv
<1>5. st[x].who \in Everyone
  BY <1>4 DEF SaveJobs
<1> QED BY <1>1, <1>3, <1>5, MarksStay DEF HandlerIs

LEMMA AwayStays ==
  ASSUME TypeInv, SessionsInv, SlotsMove, NEW x \in PPs, st[x].job = "save", Away(st[x], slot)
  PROVE  Away(st[x], slot')
<1>1. st[x] \in SaveJobs
  BY JobIs DEF TypeInv
<1>2. st[x].slot \in Slots
  BY <1>1 DEF SaveJobs
<1>3. IsNr(st[x].nr)
  BY DEF SessionsInv
<1>4. st[x].nr # 0 /\ st[x].nr # nevent + 1 /\ Free.nr = 0
  BY <1>3, NrsAre DEF Free
<1> QED BY <1>2, <1>4 DEF SlotsMove, Away

LEMMA CrossingIs ==
  ASSUME NEW x \in PPs, NEW p, NEW c, Busy(st[x], p, c), NEW h, c \in Touches(h)
  PROVE  c \in Crossing(p, h)
<1> DEFINE Q == {y \in PPs : st[y].job = "save" /\ st[y].who = p}  S == {Touches(st[y].h) : y \in Q}
<1>1. x \in Q /\ c \in Touches(st[x].h)
  BY DEF Busy
<1>2. c \in UNION S
  BY <1>1
<1> QED BY <1>2 DEF Crossing

LEMMA NewHandler ==
  ASSUME NEW q \in PPs, NewJob(q)
  PROVE  HandlerIs(st'[q], sent', why')
<1>1. PICK refused \in BOOLEAN : Fresher(st'[q], st'[q].h, refused)
  BY DEF NewJob
<1>2. JobIsWell(st'[q]) /\ (~st'[q].ok => st'[q].h.reply \in {"result", "counted"})
  BY <1>1, FreshIsWell
<1> QED BY <1>2 DEF HandlerIs, NewJob

LEMMA NewStage ==
  ASSUME TypeInv, ToldInv, SentGrows, WhyGrows, NEW q \in PPs, NewJob(q),
         NEW p \in Everyone, NEW c \in look, Clean(why', p, c), Busy(st'[q], p, c),
         NEW V, V = Value(told[p][c], c)
  PROVE  Stage(st'[q], V, told[p][c], c)
<1> DEFINE x == st'[q]  T == told[p][c]
<1>1. PICK refused \in BOOLEAN : Fresher(x, x.h, refused)
  BY DEF NewJob
<1>2. x.who = p /\ c \in Touches(x.h)
  BY DEF Busy
<1>3. c \notin x.h.spoils \cup x.junk
  BY <1>2 DEF NewJob, Marked
<1>4. Treated(x, c)
  <2>1. JobIsWell(x)
    BY NewHandler DEF HandlerIs
  <2>2. Keeps(x.h)
    BY <1>1 DEF Fresher
  <2> QED BY <1>2, <1>3, <2>1, <2>2 DEF Treated
<1>5. x.again => T = x.n /\ c \in x.h.fields
  <2> SUFFICES ASSUME x.again PROVE T = x.n /\ c \in x.h.fields
    OBVIOUS
  <2>1. T = x.n
    <3>1. Marked(why', p, {d \in Touches(x.h) : told[p][d] # x.n})
      BY <1>2 DEF NewJob
    <3> QED BY <1>2, <3>1 DEF Marked
  <2>2. T \in 0 .. Len(sent) /\ Len(sent) \in Nat
    BY DEF TypeInv
  <2>3. x.n \in 1 .. Len(sent') /\ x.h = sent'[x.n].h
    BY DEF NewJob
  <2>4. T > 0 /\ sent'[x.n] = sent[T]
    BY <2>1, <2>2, <2>3 DEF SentGrows
  <2>5. ToldOf(T, sent, why, p, c)
    BY DEF ToldInv
  <2> QED BY <2>1, <2>3, <2>4, <2>5 DEF ToldOf
<1> HIDE DEF x, T
<1>6. V = Value(T, c)
  BY DEF T
<1>7. Stage(x, V, T, c)
  BY <1>1, <1>4, <1>5, <1>6, StageBegins
<1> QED BY <1>7 DEF x, T

LEMMA RequestShown ==
  ASSUME TypeInv, SavesInv, SessionsInv, ShownInv, NEW q \in PPs, st[q] = Idle, SentGrows, WhyGrows,
         st' = st \/ NewJob(q), \A s \in Slots : slot'[s] = slot[s] \/ slot'[s] = Free,
         look' = look, rows' = rows, told' = told, number' = number
  PROVE  ShownInv'
<1>0. SlotsMove /\ why' \in Reasons
  BY DEF SlotsMove, WhyGrows
<1>1. \A x \in PPs : x # q => st'[x] = st[x]
  BY DEF NewJob, Others
<1>2. st'[q] = st[q] \/ NewJob(q)
  OBVIOUS
<1>3. st[q].job = "idle"
  BY DEF Idle
<1>4. ASSUME NEW x \in PPs, st'[x].job = "save" PROVE HandlerIs(st'[x], sent', why')
  BY <1>1, <1>2, <1>4, HandlerStays, NewHandler DEF ShownInv
<1>5. ASSUME NEW p \in Everyone, NEW c \in look PROVE ToldOf(told'[p][c], sent', why', p, c)
  BY TellsStay DEF ShownInv
<1>6. ASSUME NEW x \in PPs, x # q, NEW p \in Everyone, NEW c \in look, Busy(st'[x], p, c), Busy(st'[q], p, c)
      PROVE  ~Clean(why', p, c)
  <2>1. Busy(st[x], p, c) /\ NewJob(q)
    BY <1>1, <1>2, <1>3, <1>6 DEF Busy
  <2>2. c \in Touches(st'[q].h) /\ st'[q].who = p
    BY <1>6 DEF Busy
  <2>3. c \in Crossing(p, st'[q].h)
    BY <2>1, <2>2, CrossingIs
  <2>4. Marked(why', p, Crossing(p, st'[q].h))
    BY SMTT(30), <2>1, <2>2 DEF NewJob
  <2> QED BY <2>3, <2>4 DEF Marked
<1>7. ASSUME NEW p \in Everyone, NEW c \in look PROVE Meeting(st', why', p, c)
  <2> SUFFICES ASSUME NEW y \in PPs, NEW x \in PPs, Busy(st'[y], p, c), Busy(st'[x], p, c), y # x
               PROVE  ~Clean(why', p, c)
    BY DEF Meeting
  <2>1. CASE y = q \/ x = q
    BY <1>6, <2>1
  <2>2. CASE y # q /\ x # q
    <3>1. Meeting(st, why, p, c)
      BY DEF ShownInv, CrossInv
    <3> QED BY <1>1, <2>2, <3>1, CleanBefore DEF Meeting
  <2> QED BY <2>1, <2>2
<1>8. ASSUME NEW p \in Everyone, NEW c \in look, number'[p] # 0, Clean(why', p, c)
      PROVE  PlacedAt(slot', st', number'[p], p)
  <2>1. PlacedAt(slot, st, number[p], p)
    BY <1>8, CleanBefore DEF ShownInv, PlacesInv
  <2>2. \A s \in Slots : slot'[s] # Free /\ slot'[s].who = p => slot'[s].uin = number[p]
    BY <2>1 DEF PlacedAt
  <2>3. \A x \in PPs : x # q /\ st'[x].job = "save" /\ st'[x].who = p => st'[x].uin = number[p]
    BY <1>1, <2>1 DEF PlacedAt
  <2>4. st'[q].job = "save" /\ st'[q].who = p => st'[q].uin = number[p]
    BY <1>2, <2>1 DEF PlacedAt, NewJob
  <2> QED BY <2>2, <2>3, <2>4 DEF PlacedAt
<1>9. ASSUME NEW x \in PPs, st'[x].job = "join"
      PROVE  number'[st'[x].who] = 0 /\ \A y \in PPs : st'[y].job = "join" /\ st'[y].who = st'[x].who => y = x
  <2>1. \A y \in PPs : st'[y].job = "join" => st'[y] = st[y]
    BY <1>1, <1>2 DEF NewJob
  <2> QED BY <1>9, <2>1 DEF ShownInv, ComersInv
<1>10. ASSUME NEW p \in Everyone, NEW c \in look, OwnRow(rows', number'[p], p), Clean(why', p, c)
       PROVE  FieldIs(st', slot', rows'[number'[p]].val[c], told'[p][c], p, c)
  <2> DEFINE V == rows[number[p]].val[c]  T == told[p][c]
  <2>1. FieldIs(st, slot, V, T, p, c)
    BY <1>10, CleanBefore DEF ShownInv, FieldsInv
  <2> HIDE DEF V
  <2>2. ASSUME \A x \in PPs : x # q => ~Busy(st'[x], p, c) PROVE V = Value(T, c)
    <3>1. \A x \in PPs : ~Busy(st[x], p, c)
      BY <1>1, <1>3, <2>2 DEF Busy
    <3> QED BY <2>1, <3>1 DEF FieldIs
  <2>3. ASSUME NEW x \in PPs, Busy(st'[x], p, c), ~Away(st'[x], slot'), st'[x] = st[x] PROVE Stage(st'[x], V, T, c)
    <3>1. ~Away(st[x], slot)
      BY <1>0, <2>3, AwayStays DEF Busy
    <3> QED BY <2>1, <2>3, <3>1 DEF FieldIs
  <2>4. ASSUME Busy(st'[q], p, c), st'[q] # st[q] PROVE Stage(st'[q], V, T, c)
    <3>1. V = Value(T, c)
      BY <1>6, <1>10, <2>2, <2>4
    <3>2. NewJob(q)
      BY <1>2, <2>4
    <3>3. ToldInv
      BY DEF ShownInv
    <3> QED BY <1>10, <2>4, <3>1, <3>2, <3>3, NewStage
  <2>5. FieldIs(st', slot', V, T, p, c)
    BY <1>1, <2>2, <2>3, <2>4 DEF FieldIs
  <2> QED BY <2>5 DEF V
<1> HIDE DEF ShownInv
<1> QED BY <1>0, <1>4, <1>5, <1>7, <1>8, <1>9, <1>10, ShownIs

----------------------------------------------------------------------------
(* The statements of a handler, and its answer                             *)

LEMMA HomeUin ==
  ASSUME TypeInv, SessionsInv, NEW q \in PPs, st[q] \in SaveJobs, st[q].job = "save", ~Away(st[q], slot)
  PROVE  Uin(q) = st[q].uin /\ (st[q].h.proto = "v7" => Same(q))
<1>1. CASE st[q].h.proto # "v7"
  BY <1>1 DEF Uin
<1>2. CASE st[q].h.proto = "v7"
  <2>1. slot[st[q].slot].nr = st[q].nr
    BY <1>2 DEF Away
  <2>2. st[q].slot \in Slots
    BY DEF SaveJobs
  <2>3. IsNr(st[q].nr) /\ slot[st[q].slot].uin = st[q].uin
    BY <2>1, <2>2 DEF SessionsInv
  <2>4. slot[st[q].slot] # Free
    BY <2>1, <2>2, <2>3, NrsAre
  <2> QED BY <1>2, <2>1, <2>3, <2>4 DEF Uin, Same
<1> QED BY <1>1, <1>2

\* A statement: a field of somebody else, or that it does not put, is as it was, or it is known why not.
LEMMA PutElsewhere ==
  ASSUME TypeInv, SessionsInv, why \in Reasons, NEW q \in PPs, st[q] \in SaveJobs, st[q].job = "save", Known(Uin(q)),
         NEW new, \A c \in look \cap DOMAIN new : new[c] \in Values, Put(q, new),
         NEW u \in Uins, Known(u), NEW c \in look, Clean(why', rows[u].who, c),
         rows[u].who # st[q].who \/ c \notin DOMAIN new
  PROVE  rows'[u].val[c] = rows[u].val[c]
<1>1. CASE u # Uin(q)
  BY <1>1, PutIs
<1>2. CASE u = Uin(q) /\ c \notin DOMAIN new
  BY <1>2, PutIs
<1>3. CASE u = Uin(q) /\ c \in DOMAIN new
  <2>1. rows[u].who # st[q].who /\ rows[u].who \in Everyone
    BY <1>3, RowIs
  <2>2. Strays(q, u) # {}
    BY <1>3, <2>1, AtHome
  <2>3. why' = Because(why, rows[u].who, DOMAIN new, Strays(q, u))
    BY <1>3, <2>2 DEF Put
  <2>4. Strays(q, u) \in SUBSET Causes
    BY DEF Strays, Causes
  <2>5. Strays(q, u) \subseteq why'[rows[u].who][c]
    BY <1>3, <2>1, <2>3, <2>4, WhyOnce
  <2> QED BY <2>2, <2>5 DEF Clean
<1> QED BY <1>1, <1>2, <1>3

\* The job of a handler after a step.
LEMMA WorkJob ==
  ASSUME TypeInv, SavesInv, why \in Reasons, HandlersInv, NEW q \in PPs, Works(q)
  PROVE  \/ st'[q] = Idle
         \/ Carries(st[q], st'[q]) /\ HandlerIs(st'[q], sent', why')
<1> DEFINE t == st[q]  x == st'[q]
<1>1. t \in SaveJobs /\ t.job = "save" /\ sent' = sent /\ SentGrows
  BY WorkTypes, SentStays
<1>2. HandlerIs(t, sent', why')
  BY <1>1, WorkWhy, HandlerStays
<1>3. Keeps(t.h) /\ JobIsWell(t) /\ t.who \in Everyone
  BY <1>1, <1>2, HandlersKeep DEF HandlerIs, SaveJobs
<1>4. ASSUME Carries(t, x), JobIsWell(x), x.ok = t.ok \/ t.h.reply \in {"result", "counted"} \/ Marked(why', t.who, Touches(t.h))
      PROVE  HandlerIs(x, sent', why')
  <2>1. x.h = t.h /\ x.n = t.n /\ x.who = t.who /\ x.junk = t.junk
    BY <1>4 DEF Carries
  <2> QED BY <1>2, <1>4, <2>1 DEF HandlerIs
<1>5. CASE Read(q)
  <2>1. t.todo = TRWA /\ IF Known(Uin(q)) THEN GoesTo(t, x, TWA) ELSE StopsAt(t, x)
    BY <1>3, <1>5, ReadTo
  <2>2. Carries(t, x) /\ JobIsWell(x)
    BY <1>3, <2>1, StepIsWell, SaveTodosDiffer DEF GoesTo, StopsAt
  <2>3. t.h.reply = "result"
    BY <1>3, <2>1 DEF JobIsWell, Keeps
  <2> QED BY <1>4, <2>2, <2>3
<1>6. CASE SaveAbout(q)
  <2>1. t.todo \in ToAbout /\ GoesTo(t, x, IF t.todo = TBA THEN TA ELSE TWA)
    BY <1>3, <1>6, AboutTo
  <2>2. Carries(t, x) /\ JobIsWell(x) /\ x.ok = t.ok
    BY <1>3, <2>1, StepIsWell DEF GoesTo
  <2> QED BY <1>4, <2>2
<1>7. CASE Write(q)
  <2>1. /\ t.todo \in {TW, TWA}
        /\ IF t.todo = TW THEN x = Idle ELSE GoesTo(t, x, TA) \/ (t.h.reply = "counted" /\ StopsAt(t, x))
    BY <1>3, <1>7, WriteTo
  <2>2. CASE GoesTo(t, x, TA) /\ t.todo = TWA
    <3>1. Carries(t, x) /\ JobIsWell(x) /\ x.ok = t.ok
      BY <1>3, <2>2, StepIsWell DEF GoesTo
    <3> QED BY <1>4, <3>1
  <2>3. CASE t.h.reply = "counted" /\ StopsAt(t, x) /\ t.todo = TWA
    <3>1. Carries(t, x) /\ JobIsWell(x)
      BY <1>3, <2>3, StepIsWell, SaveTodosDiffer DEF StopsAt
    <3> QED BY <1>4, <2>3, <3>1
  <2> QED BY <2>1, <2>2, <2>3
<1>8. CASE Fail(q)
  <2>1. t.todo \notin {TAW, TA} /\ IF t.todo = TW THEN x = Idle ELSE StopsAt(t, x)
    BY <1>3, <1>8, FailTo
  <2>2. CASE StopsAt(t, x) /\ t.todo # TW
    <3>1. Carries(t, x) /\ JobIsWell(x)
      BY <1>3, <2>1, <2>2, StepIsWell DEF StopsAt
    <3>2. t.h.reply \in {"result", "counted"} \/ Marked(why', t.who, Touches(t.h))
      <4>1. CASE t.h.reply \in {"yes", "first"}
        <5>1. why' = Because(why, t.who, Touches(t.h), {"failed"})
          BY <1>8, <4>1 DEF Fail
        <5> QED BY <1>3, <5>1, CausesAre, MarksAre
      <4> QED BY <1>3, <4>1 DEF Keeps, Replies
    <3> QED BY <1>4, <3>1, <3>2
  <2> QED BY <2>1, <2>2
<1>9. CASE Answer(q)
  <2>1. t.todo \in {TAW, TA} /\ IF t.todo = TA THEN x = Idle ELSE GoesTo(t, x, TW)
    BY <1>3, <1>9, AnswerTo
  <2>2. CASE GoesTo(t, x, TW) /\ t.todo = TAW
    <3>1. Carries(t, x) /\ JobIsWell(x) /\ x.ok = t.ok
      BY <1>3, <2>2, StepIsWell DEF GoesTo
    <3> QED BY <1>4, <3>1
  <2> QED BY <2>1, <2>2
<1> QED BY <1>5, <1>6, <1>7, <1>8, <1>9 DEF Works

\* What the answer means.
Heard(q)  == (Same(q) \/ (st[q].long /\ st[q].h.proto # "v7")) /\ ~st[q].again
Says(t)   == t.ok \/ t.h.reply \in {"yes", "first"}

LEMMA AnswerTells ==
  ASSUME TypeInv, SavesInv, why \in Reasons, NEW q \in PPs, Answer(q), NEW p \in Everyone, NEW c \in look
  PROVE  /\ told'[p][c] = IF p = st[q].who /\ Heard(q) /\ Says(st[q]) /\ c \in st[q].h.fields THEN st[q].n ELSE told[p][c]
         /\ st[q].again \/ (Heard(q) /\ (Says(st[q]) \/ ~st[q].half)) \/ Marked(why', st[q].who, Touches(st[q].h))
<1> DEFINE t == st[q]  row == [f \in look |-> IF f \in t.h.fields THEN t.n ELSE told[t.who][f]]
<1>1. t \in SaveJobs
  BY WorkTypes DEF Works
<1>2. t.who \in Everyone
  BY <1>1 DEF SaveJobs
<1>3. told' = IF Heard(q) /\ Says(t) THEN [told EXCEPT ![t.who] = row] ELSE told
  BY DEF Answer, Heard, Says, TypeInv
<1>4. row[c] = IF c \in t.h.fields THEN t.n ELSE told[t.who][c]
  OBVIOUS
<1> HIDE DEF row
<1>5. told'[p][c] = IF p = t.who /\ Heard(q) /\ Says(t) /\ c \in t.h.fields THEN t.n ELSE told[p][c]
  BY <1>2, <1>3, <1>4 DEF TypeInv
<1>6. \/ t.again \/ (Heard(q) /\ (Says(t) \/ ~t.half))
      \/ why' = Because(why, t.who, Touches(t.h), {"half"})
      \/ why' = Because(why, t.who, Touches(t.h), {"left"})
  BY DEF Answer, Heard, Says
<1> HIDE DEF t
<1>7. t.again \/ (Heard(q) /\ (Says(t) \/ ~t.half)) \/ Marked(why', t.who, Touches(t.h))
  BY <1>2, <1>6, CausesAre, MarksAre
<1> QED BY <1>5, <1>7 DEF t

NotesOf(t) == [c \in {"notes"} |-> Value(t.n, c)]
AllOf(t)   == [c \in DOMAIN t.h.writes |-> Stored(t, c)]

LEMMA WritesAre ==
  ASSUME TypeInv, NEW q \in PPs, st[q] \in SaveJobs
  PROVE  /\ DOMAIN NotesOf(st[q]) = {"notes"} /\ DOMAIN AllOf(st[q]) = DOMAIN st[q].h.writes
         /\ \A c \in look \cap DOMAIN NotesOf(st[q]) : NotesOf(st[q])[c] = Value(st[q].n, c) /\ NotesOf(st[q])[c] \in Values
         /\ \A c \in look \cap DOMAIN AllOf(st[q]) : AllOf(st[q])[c] = Stored(st[q], c) /\ AllOf(st[q])[c] \in Values
<1>1. \A c \in look \cap DOMAIN AllOf(st[q]) : AllOf(st[q])[c] = Stored(st[q], c) /\ AllOf(st[q])[c] \in Values
  BY StoredIs DEF AllOf
<1>2. \A c \in look \cap DOMAIN NotesOf(st[q]) : NotesOf(st[q])[c] = Value(st[q].n, c) /\ NotesOf(st[q])[c] \in Values
  BY DEF NotesOf, SaveJobs, Value, Values, Names
<1> QED BY <1>1, <1>2 DEF NotesOf, AllOf

\* What the request of a handler does not touch stays as it was.
LEMMA WorkElsewhere ==
  ASSUME TypeInv, SavesInv, SessionsInv, why \in Reasons, HandlersInv, NEW q \in PPs, Works(q),
         NEW p \in Everyone, NEW c \in look, ~Busy(st[q], p, c),
         NEW u \in Uins, OwnRow(rows, u, p), Clean(why', p, c)
  PROVE  rows'[u].val[c] = rows[u].val[c] /\ told'[p][c] = told[p][c]
<1> DEFINE t == st[q]
<1>1. t \in SaveJobs /\ t.job = "save"
  BY WorkTypes
<1>2. JobIsWell(t) /\ Keeps(t.h)
  BY <1>1, HandlersKeep DEF HandlersInv, HandlerIs, SaveJobs
<1>3. p # t.who \/ c \notin Touches(t.h)
  BY <1>1 DEF Busy
<1>4. told'[p][c] = told[p][c]
  <2>1. CASE Answer(q)
    <3>1. p # t.who \/ c \notin t.h.fields
      BY <1>3 DEF Touches
    <3> QED BY <2>1, <3>1, AnswerTells
  <2>2. CASE ~Answer(q)
    BY <2>2 DEF Works, Read, SaveAbout, Write, Fail
  <2> QED BY <2>1, <2>2
<1>5. Known(u) /\ rows[u].who = p
  BY DEF OwnRow, Known
<1>6. ASSUME NEW new, Known(Uin(q)), Put(q, new), \A d \in look \cap DOMAIN new : new[d] \in Values, DOMAIN new \subseteq Touches(t.h)
      PROVE  rows'[u].val[c] = rows[u].val[c]
  BY <1>1, <1>3, <1>5, <1>6, PutElsewhere
<1>7. rows'[u].val[c] = rows[u].val[c]
  <2>1. CASE rows' = rows
    BY <2>1
  <2>2. CASE SaveAbout(q) /\ rows' # rows
    <3>1. Known(Uin(q)) /\ Put(q, NotesOf(t))
      BY <2>2 DEF SaveAbout, NotesOf
    <3>2. t.todo \in ToAbout
      BY <1>2, <2>2, AboutTo
    <3>3. {"notes"} \subseteq Touches(t.h)
      BY <1>2, <3>2 DEF JobIsWell, Keeps, Touches
    <3> QED BY <1>1, <1>6, <3>1, <3>3, WritesAre
  <2>3. CASE Write(q) /\ rows' # rows
    <3>1. Known(Uin(q)) /\ Put(q, AllOf(t))
      BY <2>3 DEF Write, AllOf
    <3>2. DOMAIN t.h.writes \subseteq Touches(t.h)
      BY DEF Touches
    <3> QED BY <1>1, <1>6, <3>1, <3>2, WritesAre
  <2>4. rows' = rows \/ SaveAbout(q) \/ Write(q)
    BY DEF Works, Read, Fail, Answer, data
  <2> QED BY <2>1, <2>2, <2>3, <2>4
<1> QED BY <1>4, <1>7

\* A handler whose session is gone does not end unseen.
LEMMA AwayIsSeen ==
  ASSUME TypeInv, SavesInv, why \in Reasons, HandlersInv, NEW q \in PPs, Works(q),
         NEW p \in Everyone, NEW c \in look, Busy(st[q], p, c), Away(st[q], slot), Clean(why', p, c)
  PROVE  st'[q] # Idle
<1> DEFINE t == st[q]  x == st'[q]
<1>1. t \in SaveJobs /\ t.job = "save" /\ t.who = p /\ c \in Touches(t.h)
  BY WorkTypes DEF Busy
<1>2. JobIsWell(t) /\ Keeps(t.h)
  BY <1>1, HandlersKeep DEF HandlersInv, HandlerIs, SaveJobs
<1>3. t.h.proto = "v7" /\ ~Same(q)
  BY DEF Away, Same
<1>4. t.todo \notin {TAW, TW}
  BY <1>2, <1>3 DEF JobIsWell, Keeps
<1>5. ASSUME NEW y, NEW todo, GoesTo(t, y, todo) \/ StopsAt(t, y) PROVE y # Idle
  BY <1>5 DEF GoesTo, StopsAt, Carries, Idle
<1>6. CASE Read(q)
  BY <1>2, <1>5, <1>6, ReadTo
<1>7. CASE SaveAbout(q)
  BY <1>2, <1>5, <1>7, AboutTo
<1>8. CASE Write(q)
  BY <1>2, <1>4, <1>5, <1>8, WriteTo
<1>9. CASE Fail(q)
  BY <1>2, <1>4, <1>5, <1>9, FailTo
<1>10. CASE Answer(q)
  <2>1. ~t.again /\ ~Heard(q)
    BY <1>2, <1>3 DEF JobIsWell, Heard
  <2>2. Marked(why', p, Touches(t.h))
    BY <1>1, <1>10, <2>1, AnswerTells
  <2> QED BY <1>1, <2>2 DEF Marked
<1> QED BY <1>6, <1>7, <1>8, <1>9, <1>10 DEF Works

LEMMA WorkHere ==
  ASSUME TypeInv, SavesInv, SessionsInv, why \in Reasons, HandlersInv, NEW q \in PPs, Works(q),
         NEW p \in Everyone, NEW c \in look, Busy(st[q], p, c), ~Away(st[q], slot),
         NEW u \in Uins, u = st[q].uin, OwnRow(rows, u, p), Clean(why', p, c),
         Stage(st[q], rows[u].val[c], told[p][c], c)
  PROVE  IF st'[q] = Idle THEN rows'[u].val[c] = Value(told'[p][c], c)
         ELSE Stage(st'[q], rows'[u].val[c], told'[p][c], c)
<1> DEFINE t == st[q]  x == st'[q]  V == rows[u].val[c]  T == told[p][c]  W == rows'[u].val[c]  U == told'[p][c]
<1>1. t \in SaveJobs /\ t.job = "save" /\ t.who = p /\ c \in Touches(t.h)
  BY WorkTypes DEF Busy
<1>2. JobIsWell(t) /\ Keeps(t.h) /\ HandlerIs(t, sent, why)
  BY <1>1, HandlersKeep DEF HandlersInv, HandlerIs, SaveJobs
<1>3. Clean(why, p, c)
  BY WorkWhy, CleanBefore
<1>4. Treated(t, c)
  BY <1>1, <1>2, <1>3 DEF Treated, HandlerIs, Marked
<1>5. ~t.ok => t.h.reply \in {"result", "counted"}
  BY <1>1, <1>2, <1>3 DEF HandlerIs, Marked
<1>6. Uin(q) = u
  BY <1>1, HomeUin
<1>7. Known(Uin(q))
  BY <1>6 DEF OwnRow, Known
<1>8. ASSUME NEW y, NEW todo, GoesTo(t, y, todo) \/ StopsAt(t, y) PROVE y # Idle
  BY <1>8 DEF GoesTo, StopsAt, Carries, Idle
<1>9. Stage(t, V, T, c)
  OBVIOUS
<1>10. CASE Read(q)
  <2>1. t.todo = TRWA /\ GoesTo(t, x, TWA) /\ x.half = t.half /\ x.base[c] = V
    BY <1>2, <1>6, <1>7, <1>10, ReadTo
  <2>2. W = V /\ U = T
    BY <1>10 DEF Read, data
  <2> HIDE DEF t, x, V, T, W, U
  <2>3. Stage(x, V, T, c)
    BY <1>4, <1>9, <2>1, StageRead
  <2> QED BY <1>8, <2>1, <2>2, <2>3 DEF x, W, U
<1>11. CASE SaveAbout(q)
  <2>1. t.todo \in ToAbout /\ GoesTo(t, x, IF t.todo = TBA THEN TA ELSE TWA) /\ x.half = TRUE
    BY <1>2, <1>11, AboutTo
  <2>2. Put(q, NotesOf(t))
    BY <1>7, <1>11 DEF SaveAbout, NotesOf
  <2>3. W = IF c = "notes" THEN Value(t.n, c) ELSE V
    BY <1>1, <1>6, <1>7, <2>2, WritesAre, PutIs
  <2>4. U = T
    BY <1>11 DEF SaveAbout
  <2> HIDE DEF t, x, V, T, W, U
  <2>5. Stage(x, W, T, c)
    BY <1>4, <1>9, <2>1, <2>3, StageAbout
  <2> QED BY <1>8, <2>1, <2>4, <2>5 DEF x, W, U
<1>12. CASE Write(q)
  <2>1. /\ t.todo \in {TW, TWA}
        /\ IF t.todo = TW THEN x = Idle ELSE GoesTo(t, x, TA) /\ x.half = t.half
    BY <1>2, <1>7, <1>12, WriteTo
  <2>2. Put(q, AllOf(t))
    BY <1>7, <1>12 DEF Write, AllOf
  <2>3. W = IF c \in DOMAIN t.h.writes THEN Stored(t, c) ELSE V
    BY <1>1, <1>6, <1>7, <2>2, WritesAre, PutIs
  <2>4. U = T
    BY <1>12 DEF Write
  <2> HIDE DEF t, x, V, T, W, U
  <2>5. t.todo = TW => W = Value(T, c)
    BY <1>4, <1>9, <2>3, WriteEnds
  <2>6. t.todo # TW => Stage(x, W, T, c)
    BY <1>4, <1>9, <2>1, <2>3, StageWrite
  <2> QED BY <1>8, <2>1, <2>4, <2>5, <2>6 DEF x, W, U
<1>13. CASE Fail(q)
  <2>1. t.todo \notin {TAW, TA} /\ IF t.todo = TW THEN x = Idle ELSE StopsAt(t, x)
    BY <1>2, <1>13, FailTo
  <2>2. W = V /\ U = T
    BY <1>13 DEF Fail, data
  <2>3. t.todo # TW
    <3>1. t.todo = TW => t.h.reply = "first"
      BY <1>2 DEF JobIsWell
    <3>2. t.h.reply = "first" => why' = Because(why, p, Touches(t.h), {"failed"})
      BY <1>1, <1>13 DEF Fail
    <3> HIDE DEF t
    <3>3. t.h.reply = "first" => Marked(why', p, Touches(t.h))
      BY <3>2, CausesAre, MarksAre
    <3> QED BY <1>1, <3>1, <3>3 DEF Marked
  <2> HIDE DEF t, x, V, T, W, U
  <2>4. Stage(x, V, T, c)
    BY <1>4, <1>9, <2>1, <2>3, StageStops
  <2> QED BY <1>8, <2>1, <2>2, <2>3, <2>4 DEF x, W, U
<1>14. CASE Answer(q)
  <2>1. /\ t.todo \in {TAW, TA}
        /\ IF t.todo = TA THEN x = Idle ELSE GoesTo(t, x, TW) /\ x.half = t.half
    BY <1>2, <1>14, AnswerTo
  <2>2. U = IF Heard(q) /\ Says(t) /\ c \in t.h.fields THEN t.n ELSE T
    BY <1>1, <1>14, AnswerTells
  <2>3. t.again \/ (Heard(q) /\ (Says(t) \/ ~t.half))
    BY <1>1, <1>14, AnswerTells DEF Marked
  <2>4. W = V
    BY <1>14 DEF Answer, data
  <2>5. t.again => ~Heard(q)
    BY DEF Heard
  <2> HIDE DEF t, x, V, T, W, U
  <2>6. CASE t.todo = TA
    <3>1. Says(t) <=> t.ok
      <4>1. t.h.reply # "first"
        BY <1>2, <2>6, SaveTodosDiffer DEF JobIsWell
      <4> QED BY <4>1, <1>5 DEF Says
    <3>2. U = IF ~t.again /\ t.ok /\ c \in t.h.fields THEN t.n ELSE T
      BY <2>2, <2>3, <2>5, <3>1
    <3>3. t.again \/ t.ok \/ ~t.half
      BY <2>3, <3>1
    <3>4. V = Value(U, c)
      BY <1>4, <1>5, <1>9, <2>6, <3>2, <3>3, AnswerEnds
    <3> QED BY <2>1, <2>4, <2>6, <3>4 DEF x, W, U
  <2>7. CASE t.todo = TAW
    <3>1. t.h.reply = "first" /\ t.todo # TA
      BY <1>2, <2>7, SaveTodosDiffer DEF JobIsWell
    <3>2. Says(t)
      BY <3>1 DEF Says
    <3>3. U = IF ~t.again /\ c \in t.h.fields THEN t.n ELSE T
      BY <2>2, <2>3, <2>5, <3>2
    <3>4. Stage(x, V, U, c)
      BY <1>4, <1>9, <2>1, <2>7, <3>1, <3>3, StageAnswer
    <3> QED BY <1>8, <2>1, <2>4, <3>1, <3>4 DEF x, W, U
  <2> QED BY <2>1, <2>6, <2>7
<1> QED BY <1>10, <1>11, <1>12, <1>13, <1>14 DEF Works

LEMMA WorkRows ==
  ASSUME TypeInv, SavesInv, NEW q \in PPs, Works(q), NEW u \in Uins, NEW p, OwnRow(rows', u, p)
  PROVE  OwnRow(rows, u, p)
<1>1. CASE rows' = rows
  BY <1>1
<1>2. CASE SaveAbout(q) \/ Write(q)
  <2>1. st[q] \in SaveJobs
    BY WorkTypes
  <2>2. ASSUME NEW new, Known(Uin(q)), Put(q, new), \A c \in look \cap DOMAIN new : new[c] \in Values
        PROVE  OwnRow(rows, u, p)
    <3>1. (rows'[u] = NoRow <=> rows[u] = NoRow) /\ (Known(u) => rows'[u].who = rows[u].who)
      BY <2>1, <2>2, PutIs
    <3> QED BY <3>1 DEF OwnRow, Known
  <2> QED BY <1>1, <1>2, <2>2, WriteMoves
<1>3. rows' = rows \/ SaveAbout(q) \/ Write(q)
  BY DEF Works, Read, Fail, Answer, data
<1> QED BY <1>1, <1>2, <1>3

LEMMA WorkTells ==
  ASSUME TypeInv, SavesInv, why \in Reasons, HandlersInv, ToldInv, NEW q \in PPs, Works(q),
         NEW p \in Everyone, NEW c \in look
  PROVE  ToldOf(told'[p][c], sent', why', p, c)
<1> DEFINE t == st[q]
<1>1. t.job = "save" /\ sent' = sent /\ SentGrows /\ WhyGrows
  BY WorkTypes, SentStays, WorkWhy
<1>2. ToldOf(told[p][c], sent', why', p, c)
  BY <1>1, TellsStay
<1>3. CASE ~Answer(q)
  <2>1. told' = told
    BY <1>3 DEF Works, Read, SaveAbout, Write, Fail
  <2> QED BY <1>2, <2>1
<1>4. CASE Answer(q)
  <2>1. told'[p][c] = told[p][c] \/ (p = t.who /\ c \in t.h.fields /\ told'[p][c] = t.n)
    BY <1>4, AnswerTells
  <2>2. HandlerIs(t, sent', why')
    BY <1>1, HandlerStays
  <2>3. sent'[t.n].who = t.who
    BY <1>1 DEF SavesInv
  <2>4. c \in t.h.spoils => ~Clean(why', t.who, c)
    BY <2>2 DEF HandlerIs, Marked
  <2>5. t.h = sent'[t.n].h
    BY <2>2 DEF HandlerIs
  <2> QED BY <1>2, <2>1, <2>3, <2>4, <2>5 DEF ToldOf
<1> QED BY <1>3, <1>4

LEMMA WorkFields ==
  ASSUME TypeInv, SavesInv, SessionsInv, ShownInv, NEW q \in PPs, Works(q),
         NEW p \in Everyone, NEW c \in look, OwnRow(rows', number[p], p), Clean(why', p, c)
  PROVE  FieldIs(st', slot', rows'[number[p]].val[c], told'[p][c], p, c)
<1> DEFINE u == number[p]  V == rows[u].val[c]  T == told[p][c]  W == rows'[u].val[c]  U == told'[p][c]
<1>1. why \in Reasons /\ HandlersInv /\ CrossInv /\ PlacesInv /\ FieldsInv
  BY DEF ShownInv
<1>2. st[q] \in SaveJobs /\ st[q].job = "save" /\ slot' = slot /\ Others(q)
  BY WorkTypes DEF Moves
<1>3. u \in Uins /\ OwnRow(rows, u, p)
  BY WorkRows DEF TypeInv
<1>4. Clean(why, p, c)
  BY <1>1, WorkWhy, CleanBefore
<1>5. FieldIs(st, slot, V, T, p, c)
  BY <1>1, <1>3, <1>4 DEF FieldsInv
<1>6. st'[q] = Idle \/ Carries(st[q], st'[q])
  BY <1>1, WorkJob
<1>7. \A x \in PPs : x # q => st'[x] = st[x]
  BY <1>2 DEF Others
<1>8. Busy(st'[q], p, c) => Busy(st[q], p, c)
  BY <1>2, <1>6 DEF Busy, Carries, Idle
<1>9. CASE ~Busy(st[q], p, c)
  <2>1. W = V /\ U = T
    BY <1>1, <1>3, <1>9, WorkElsewhere
  <2> HIDE DEF V, T, W, U
  <2>2. \A x \in PPs : Busy(st'[x], p, c) <=> Busy(st[x], p, c)
    BY <1>7, <1>8, <1>9
  <2>3. \A x \in PPs : Busy(st'[x], p, c) => st'[x] = st[x]
    BY <1>7, <1>8, <1>9
  <2>4. FieldIs(st', slot', W, U, p, c)
    BY <1>2, <1>5, <2>1, <2>2, <2>3 DEF FieldIs
  <2> QED BY <2>4 DEF W, U, u
<1>10. CASE Busy(st[q], p, c)
  <2>1. \A x \in PPs : x # q => ~Busy(st'[x], p, c)
    BY <1>1, <1>4, <1>7, <1>10 DEF CrossInv, Meeting
  <2>2. st[q].uin = u
    BY <1>1, <1>3, <1>4, <1>10 DEF PlacesInv, PlacedAt, OwnRow, Busy
  <2>3. CASE Away(st[q], slot)
    <3>1. Carries(st[q], st'[q])
      BY <1>1, <1>6, <1>10, <2>3, AwayIsSeen
    <3>2. Busy(st'[q], p, c) /\ Away(st'[q], slot')
      BY <1>2, <1>10, <2>3, <3>1 DEF Busy, Away, Carries
    <3> QED BY <2>1, <3>2 DEF FieldIs
  <2>4. CASE ~Away(st[q], slot)
    <3>1. Stage(st[q], V, T, c)
      BY <1>5, <1>10, <2>4 DEF FieldIs
    <3>2. IF st'[q] = Idle THEN W = Value(U, c) ELSE Stage(st'[q], W, U, c)
      BY <1>1, <1>3, <1>10, <2>2, <2>4, <3>1, WorkHere
    <3>3. st'[q] # Idle => Busy(st'[q], p, c)
      BY <1>6, <1>10 DEF Busy, Carries
    <3> HIDE DEF V, T, W, U
    <3>4. FieldIs(st', slot', W, U, p, c)
      <4>1. ~Busy(Idle, p, c)
        BY DEF Busy, Idle
      <4> QED BY <2>1, <3>2, <3>3, <4>1 DEF FieldIs
    <3> QED BY <3>4 DEF W, U, u
  <2> QED BY <2>3, <2>4
<1> QED BY <1>9, <1>10

LEMMA WorkShown ==
  ASSUME TypeInv, SavesInv, SessionsInv, ShownInv, NEW q \in PPs, Works(q)
  PROVE  ShownInv'
<1>1. why \in Reasons /\ HandlersInv /\ ToldInv /\ CrossInv /\ PlacesInv /\ ComersInv
  BY DEF ShownInv
<1>2. /\ st[q].job = "save" /\ look' = look /\ slot' = slot /\ number' = number /\ Others(q)
      /\ SentGrows /\ WhyGrows
  BY <1>1, WorkTypes, SentStays, WorkWhy DEF Moves
<1>3. st'[q] = Idle \/ (Carries(st[q], st'[q]) /\ HandlerIs(st'[q], sent', why'))
  BY <1>1, WorkJob
<1>4. \A x \in PPs : x # q => st'[x] = st[x]
  BY <1>2 DEF Others
<1>5. ASSUME NEW x \in PPs, st'[x].job = "save"
      PROVE  st[x].job = "save" /\ st'[x].who = st[x].who /\ st'[x].uin = st[x].uin /\ st'[x].h = st[x].h
  BY <1>2, <1>3, <1>4, <1>5 DEF Carries, Idle
<1>6. ASSUME NEW x \in PPs, st'[x].job = "save" PROVE HandlerIs(st'[x], sent', why')
  BY <1>1, <1>2, <1>3, <1>4, <1>5, <1>6, HandlerStays DEF Idle
<1>7. ASSUME NEW p \in Everyone, NEW c \in look PROVE ToldOf(told'[p][c], sent', why', p, c)
  BY <1>1, WorkTells
<1>8. ASSUME NEW p \in Everyone, NEW c \in look PROVE Meeting(st', why', p, c)
  <2>1. \A x \in PPs : Busy(st'[x], p, c) => Busy(st[x], p, c)
    BY <1>5 DEF Busy
  <2> QED BY <1>1, <1>2, <2>1, CleanBefore DEF CrossInv, Meeting
<1>9. ASSUME NEW p \in Everyone, NEW c \in look, number'[p] # 0, Clean(why', p, c)
      PROVE  PlacedAt(slot', st', number'[p], p)
  <2>1. PlacedAt(slot, st, number[p], p)
    BY <1>1, <1>2, <1>9, CleanBefore DEF PlacesInv
  <2> QED BY <1>2, <1>5, <2>1 DEF PlacedAt
<1>10. ASSUME NEW x \in PPs, st'[x].job = "join"
       PROVE  number'[st'[x].who] = 0 /\ \A y \in PPs : st'[y].job = "join" /\ st'[y].who = st'[x].who => y = x
  <2>1. \A y \in PPs : st'[y].job = "join" => st'[y] = st[y]
    BY <1>2, <1>3, <1>4 DEF Carries, Idle
  <2> QED BY <1>1, <1>2, <1>10, <2>1 DEF ComersInv
<1>11. ASSUME NEW p \in Everyone, NEW c \in look, OwnRow(rows', number'[p], p), Clean(why', p, c)
       PROVE  FieldIs(st', slot', rows'[number'[p]].val[c], told'[p][c], p, c)
  BY <1>2, <1>11, WorkFields
<1>12. why' \in Reasons
  BY <1>2 DEF WhyGrows
<1> QED BY <1>2, <1>6, <1>7, <1>8, <1>9, <1>10, <1>11, <1>12, ShownIs

----------------------------------------------------------------------------
(* Those who leave, join, log in and go                                    *)

\* No handler moves.
Quiet == \A x \in PPs : st'[x] = st[x] \/ (st[x].job # "save" /\ st'[x].job # "save")

LEMMA PlacedStays ==
  ASSUME PlacesInv, WhyGrows, Quiet, NEW p \in Everyone, NEW c \in look, number[p] # 0, Clean(why', p, c),
         \A s \in Slots : slot'[s] = slot[s] \/ slot'[s] = Free \/ (slot'[s].who = p => slot'[s].uin = number[p])
  PROVE  PlacedAt(slot', st', number[p], p)
<1>1. PlacedAt(slot, st, number[p], p)
  BY CleanBefore DEF PlacesInv
<1> QED BY <1>1 DEF PlacedAt, Quiet

LEMMA QuietShown ==
  ASSUME TypeInv, SavesInv, SessionsInv, ShownInv, look' = look, sent' = sent, WhyGrows, SlotsMove, Quiet,
         \A p \in Everyone : \A c \in look : told'[p][c] = told[p][c] \/ told'[p][c] = 0,
         \A p \in Everyone : \A c \in look : number'[p] # 0 /\ Clean(why', p, c) => PlacedAt(slot', st', number'[p], p),
         \A q \in PPs : st'[q].job = "join" =>
           /\ number'[st'[q].who] = 0
           /\ \A x \in PPs : st'[x].job = "join" /\ st'[x].who = st'[q].who => x = q,
         \A p \in Everyone : \A c \in look : OwnRow(rows', number'[p], p) /\ Clean(why', p, c) =>
           \/ number'[p] = number[p] /\ rows'[number[p]] = rows[number[p]] /\ told'[p][c] = told[p][c]
           \/ rows'[number'[p]].val[c] = Value(told'[p][c], c) /\ \A x \in PPs : ~Busy(st'[x], p, c)
  PROVE  ShownInv'
<1>1. SentGrows /\ why' \in Reasons
  BY SentStays DEF WhyGrows
<1>2. HandlersInv /\ ToldInv /\ CrossInv /\ FieldsInv
  BY DEF ShownInv
<1>3. \A x \in PPs : st'[x].job = "save" => HandlerIs(st'[x], sent', why')
  <2>1. \A x \in PPs : st'[x].job = "save" => st'[x] = st[x]
    BY DEF Quiet
  <2> QED BY <1>1, <1>2, <2>1, HandlerStays
<1>4. ASSUME NEW p \in Everyone, NEW c \in look PROVE ToldOf(told'[p][c], sent', why', p, c)
  <2>1. ToldOf(told[p][c], sent', why', p, c)
    BY <1>1, <1>2, TellsStay
  <2>2. ToldOf(0, sent', why', p, c)
    BY DEF ToldOf
  <2> QED BY <2>1, <2>2
<1>5. ASSUME NEW p \in Everyone, NEW c \in look, NEW x \in PPs
      PROVE  (Busy(st'[x], p, c) <=> Busy(st[x], p, c)) /\ (Busy(st'[x], p, c) => st'[x] = st[x] /\ st[x].job = "save")
  BY DEF Quiet, Busy
<1>6. ASSUME NEW p \in Everyone, NEW c \in look PROVE Meeting(st', why', p, c)
  BY <1>2, <1>5, CleanBefore DEF CrossInv, Meeting
<1>7. ASSUME NEW p \in Everyone, NEW c \in look, OwnRow(rows', number'[p], p), Clean(why', p, c)
      PROVE  FieldIs(st', slot', rows'[number'[p]].val[c], told'[p][c], p, c)
  <2>1. CASE rows'[number'[p]].val[c] = Value(told'[p][c], c) /\ \A x \in PPs : ~Busy(st'[x], p, c)
    BY <2>1 DEF FieldIs
  <2>2. CASE number'[p] = number[p] /\ rows'[number[p]] = rows[number[p]] /\ told'[p][c] = told[p][c]
    <3>1. OwnRow(rows, number[p], p) /\ Clean(why, p, c)
      BY <1>7, <2>2, CleanBefore DEF OwnRow
    <3>2. FieldIs(st, slot, rows[number[p]].val[c], told[p][c], p, c)
      BY <1>2, <3>1 DEF FieldsInv
    <3>3. \A x \in PPs : Busy(st'[x], p, c) /\ ~Away(st'[x], slot') => ~Away(st[x], slot)
      BY <1>5, AwayStays
    <3> QED BY <1>5, <2>2, <3>2, <3>3 DEF FieldIs
  <2> QED BY <1>7, <2>1, <2>2
<1> HIDE DEF ShownInv
<1> QED BY <1>1, <1>3, <1>4, <1>6, <1>7, ShownIs

LEMMA LeaveShown ==
  ASSUME TypeInv, SavesInv, SessionsInv, ShownInv, NEW q \in PPs,
         \/ st[q] = Idle /\ \E s \in Slots : Leave(q, s)
         \/ Delete(q) \/ DeleteFails(q) \/ Goodbye(q)
  PROVE  ShownInv'
<1>1. /\ look' = look /\ slot' = slot /\ sent' = sent /\ Others(q) /\ st'[q].job # "save" /\ st'[q].job # "join"
      /\ told' = told /\ why' = why
  BY LeaveTypes DEF Leave, Delete, DeleteFails, Goodbye, past
<1>2. st[q].job # "save" /\ st[q].job # "join"
  BY DeleteMoves, DeleteFailsMoves, GoodbyeMoves DEF Idle
<1>3. Quiet /\ SlotsMove /\ WhyGrows /\ PlacesInv /\ ComersInv
  BY <1>1, <1>2, WhyStays DEF Quiet, Others, SlotsMove, ShownInv
<1>4. \A p \in Everyone : number'[p] = number[p] \/ number'[p] = 0
  <2>1. CASE Goodbye(q)
    <3>1. number' = number \/ number' = [number EXCEPT ![st[q].who] = 0]
      BY <2>1 DEF Goodbye
    <3> QED BY <3>1 DEF TypeInv
  <2>2. CASE ~Goodbye(q)
    BY <2>2 DEF Leave, Delete, DeleteFails, past
  <2> QED BY <2>1, <2>2
<1>5. \A u \in Uins : rows'[u] # NoRow => rows'[u] = rows[u]
  <2>1. CASE Delete(q)
    <3>1. rows' = rows \/ rows' = [rows EXCEPT ![st[q].uin] = NoRow]
      BY <2>1 DEF Delete
    <3> QED BY <3>1 DEF TypeInv
  <2>2. CASE ~Delete(q)
    BY <2>2 DEF Leave, DeleteFails, Goodbye, data
  <2> QED BY <2>1, <2>2
<1>6. ASSUME NEW p \in Everyone, NEW c \in look, number'[p] # 0, Clean(why', p, c)
      PROVE  PlacedAt(slot', st', number'[p], p)
  BY <1>1, <1>3, <1>4, <1>6, PlacedStays
<1>7. ASSUME NEW x \in PPs, st'[x].job = "join"
      PROVE  number'[st'[x].who] = 0 /\ \A y \in PPs : st'[y].job = "join" /\ st'[y].who = st'[x].who => y = x
  <2>1. \A y \in PPs : st'[y].job = "join" => st'[y] = st[y]
    BY <1>1 DEF Others
  <2>2. st[x] \in JoinJobs
    BY <1>7, <2>1, JobIs DEF TypeInv
  <2>3. st[x].who \in Everyone
    BY <2>2, JoinTodos DEF Everyone
  <2> QED BY <1>3, <1>4, <1>7, <2>1, <2>3 DEF ComersInv
<1>8. ASSUME NEW p \in Everyone, NEW c \in look, OwnRow(rows', number'[p], p)
      PROVE  number'[p] = number[p] /\ rows'[number[p]] = rows[number[p]]
  BY <1>4, <1>5, <1>8 DEF OwnRow, TypeInv
<1> QED BY <1>1, <1>3, <1>6, <1>7, <1>8, QuietShown

LEMMA SessionShown ==
  ASSUME TypeInv, SavesInv, SessionsInv, ShownInv,
         (\E p \in Everyone : Login(p)) \/ (\E s \in Slots : Logoff(s)) \/ UNCHANGED vars
  PROVE  ShownInv'
<1>1. /\ look' = look /\ sent' = sent /\ rows' = rows /\ st' = st /\ told' = told /\ why' = why /\ number' = number
  BY DEF Login, Logoff, vars, data, past
<1>2. Quiet /\ WhyGrows /\ PlacesInv /\ ComersInv
  BY <1>1, WhyStays DEF Quiet, ShownInv
<1>3. \A s \in Slots : \/ slot'[s] = slot[s] \/ slot'[s] = Free
                       \/ slot'[s].nr = nevent + 1 /\ slot'[s].uin = number[slot'[s].who]
  <2>1. CASE \E s \in Slots : Logoff(s)
    BY <2>1 DEF Logoff, TypeInv
  <2>2. CASE \E p \in Everyone : Login(p)
    <3>1. PICK p \in Everyone, proto \in {"v3", "v5", "v7"}, s \in Slots : slot' = [slot EXCEPT ![s] = Session(p, nevent + 1, number[p], proto)]
      BY <2>2 DEF Login
    <3> DEFINE x == Session(p, nevent + 1, number[p], proto)
    <3>2. x.nr = nevent + 1 /\ x.uin = number[x.who]
      BY DEF Session
    <3> HIDE DEF x
    <3>3. slot' = [slot EXCEPT ![s] = x]
      BY <3>1 DEF x
    <3> QED BY <3>2, <3>3 DEF TypeInv
  <2>3. CASE UNCHANGED vars
    BY <2>3 DEF vars
  <2> QED BY <2>1, <2>2, <2>3
<1>4. SlotsMove
  BY <1>3 DEF SlotsMove
<1>5. ASSUME NEW p \in Everyone, NEW c \in look, number'[p] # 0, Clean(why', p, c)
      PROVE  PlacedAt(slot', st', number'[p], p)
  <2>1. \A s \in Slots : slot'[s] = slot[s] \/ slot'[s] = Free \/ (slot'[s].who = p => slot'[s].uin = number[p])
    BY <1>3
  <2> QED BY <1>1, <1>2, <1>5, <2>1, PlacedStays
<1>6. ASSUME NEW x \in PPs, st'[x].job = "join"
      PROVE  number'[st'[x].who] = 0 /\ \A y \in PPs : st'[y].job = "join" /\ st'[y].who = st'[x].who => y = x
  BY <1>1, <1>2, <1>6 DEF ComersInv
<1> QED BY <1>1, <1>2, <1>4, <1>5, <1>6, QuietShown

LEMMA JoinShown ==
  ASSUME TypeInv, SavesInv, SessionsInv, ShownInv, NEW q \in PPs, ~Welcome(q),
         (st[q] = Idle /\ \E n \in Newcomers : Join(q, n)) \/ Joins(q)
  PROVE  ShownInv'
<1>1. /\ look' = look /\ slot' = slot /\ sent' = sent /\ Others(q) /\ st'[q].job # "save"
  BY JoinTypes
<1>2. told' = told /\ why' = why /\ number' = number
  BY DEF Join, Joins, NewUin, TableExists, NewUin2, CreateTable, Insert, JoinFails, past
<1>3. st[q].job # "save"
  BY JoinsMove DEF Idle
<1>4. Quiet /\ SlotsMove /\ WhyGrows /\ PlacesInv /\ ComersInv
  BY <1>1, <1>2, <1>3, WhyStays DEF Quiet, Others, SlotsMove, ShownInv
<1>5. ASSUME NEW p \in Everyone, NEW c \in look, number'[p] # 0, Clean(why', p, c)
      PROVE  PlacedAt(slot', st', number'[p], p)
  BY <1>1, <1>2, <1>4, <1>5, PlacedStays
<1>6. ASSUME NEW x \in PPs, st'[x].job = "join"
      PROVE  number'[st'[x].who] = 0 /\ \A y \in PPs : st'[y].job = "join" /\ st'[y].who = st'[x].who => y = x
  <2>1. CASE Joins(q)
    <3>1. \A y \in PPs : st'[y].job = "join" => st[y].job = "join" /\ st'[y].who = st[y].who
      BY <1>1, <2>1, JoinsMove DEF Moves, KeepsJob, Others
    <3> QED BY <1>2, <1>4, <1>6, <3>1 DEF ComersInv
  <2>2. CASE \E n \in Newcomers : Join(q, n)
    <3>1. PICK n \in Newcomers : Join(q, n)
      BY <2>2
    <3>2. st'[q].who = n /\ number[n] = 0 /\ \A y \in PPs : st[y].job = "join" => st[y].who # n
      BY <3>1, JoinMoves DEF Join
    <3>3. \A y \in PPs : y # q => st'[y] = st[y]
      BY <1>1 DEF Others
    <3> QED BY <1>2, <1>4, <1>6, <3>2, <3>3 DEF ComersInv
  <2> QED BY <2>1, <2>2
<1>7. ASSUME NEW p \in Everyone, OwnRow(rows', number'[p], p)
      PROVE  rows'[number[p]] = rows[number[p]]
  <2>1. CASE Insert(q)
    <3>1. rows' = rows \/ rows' = [rows EXCEPT ![st[q].uin] = Fresh(st[q].who)]
      BY <2>1 DEF Insert
    <3>2. number[st[q].who] = 0
      BY <1>4, <2>1, InsertMoves DEF ComersInv
    <3>3. Fresh(st[q].who).who = st[q].who
      BY DEF Fresh
    <3>4. p # st[q].who /\ rows'[number[p]].who = p
      BY <1>2, <1>7, <3>2 DEF OwnRow
    <3>5. number[p] \in Uins
      BY DEF TypeInv
    <3> QED BY <3>1, <3>3, <3>4, <3>5 DEF TypeInv
  <2>2. CASE ~Insert(q)
    BY <2>2 DEF Join, Joins, NewUin, TableExists, NewUin2, CreateTable, JoinFails, data
  <2> QED BY <2>1, <2>2
<1> QED BY <1>1, <1>2, <1>4, <1>5, <1>6, <1>7, QuietShown

\* A number for a newcomer: what he had under an earlier one is forgotten, or it is known that he has it still.
LEMMA WelcomeShown ==
  ASSUME TypeInv, SavesInv, SessionsInv, ShownInv, NEW q \in PPs, Welcome(q)
  PROVE  ShownInv'
<1>1. /\ look' = look /\ slot' = slot /\ sent' = sent /\ Others(q) /\ st[q].job = "join" /\ st'[q] = Idle
      /\ st[q] \in JoinJobs
  BY WelcomeMoves, JoinTypes DEF Joins
<1>2. PICK n \in Everyone, u \in Uins : n = st[q].who /\ u = st[q].uin
  BY <1>1, JoinTodos DEF Everyone
<1>3. /\ rows' = rows /\ number' = [number EXCEPT ![n] = u] /\ told' = [told EXCEPT ![n] = [f \in look |-> 0]]
      /\ why' = IF Leftovers(n, u) THEN Because(why, n, look, {"moved"}) ELSE why
  BY <1>2 DEF Welcome, data
<1>4. /\ number'[n] = u /\ \A m \in Everyone : m # n => number'[m] = number[m]
      /\ \A c \in look : told'[n][c] = 0 /\ \A m \in Everyone : m # n => told'[m] = told[m]
  BY <1>2, <1>3 DEF TypeInv
<1>5. why \in Reasons /\ PlacesInv /\ ComersInv
  BY DEF ShownInv
<1>6. WhyGrows
  BY <1>2, <1>3, <1>5, CausesAre, WhyOnce, WhyStays
<1>7. Quiet /\ SlotsMove
  BY <1>1, IdleIs DEF Quiet, Others, SlotsMove
<1>8. ASSUME NEW c \in look, Clean(why', n, c) PROVE ~Leftovers(n, u)
  <2>1. Leftovers(n, u) => Marked(why', n, look)
    BY <1>2, <1>3, <1>5, CausesAre, MarksAre
  <2> QED BY <1>8, <2>1 DEF Marked
<1>9. ASSUME ~Leftovers(n, u)
      PROVE  /\ \A s \in Slots : slot[s].who = n => slot[s].uin = u
             /\ \A x \in PPs : ~(st'[x].job = "save" /\ st'[x].who = n)
             /\ rows[u] # NoRow => rows[u] = Fresh(n)
  <2>1. \A x \in PPs : ~(st[x].job = "save" /\ st[x].who = n)
    BY <1>9 DEF Leftovers
  <2>2. \A x \in PPs : st'[x].job = "save" => st'[x] = st[x]
    BY <1>7 DEF Quiet
  <2> QED BY <1>9, <2>1, <2>2 DEF Leftovers, Online
<1>10. ASSUME NEW p \in Everyone, NEW c \in look, number'[p] # 0, Clean(why', p, c)
       PROVE  PlacedAt(slot', st', number'[p], p)
  <2>1. CASE p = n
    BY <1>1, <1>4, <1>8, <1>9, <1>10, <2>1 DEF PlacedAt
  <2>2. CASE p # n
    BY <1>1, <1>4, <1>5, <1>6, <1>7, <1>10, <2>2, PlacedStays
  <2> QED BY <2>1, <2>2
<1>11. ASSUME NEW x \in PPs, st'[x].job = "join"
       PROVE  number'[st'[x].who] = 0 /\ \A y \in PPs : st'[y].job = "join" /\ st'[y].who = st'[x].who => y = x
  <2>1. \A y \in PPs : st'[y].job = "join" => st'[y] = st[y] /\ y # q
    BY <1>1, IdleIs DEF Others
  <2>2. st[x] \in JoinJobs
    BY <1>11, <2>1, JobIs DEF TypeInv
  <2>3. st[x].who \in Everyone /\ st[x].who # n
    BY <1>1, <1>2, <1>5, <1>11, <2>1, <2>2, JoinTodos DEF Everyone, ComersInv
  <2> QED BY <1>4, <1>5, <1>11, <2>1, <2>3 DEF ComersInv
<1>12. ASSUME NEW p \in Everyone, NEW c \in look, OwnRow(rows', number'[p], p), Clean(why', p, c)
       PROVE  \/ number'[p] = number[p] /\ rows'[number[p]] = rows[number[p]] /\ told'[p][c] = told[p][c]
              \/ rows'[number'[p]].val[c] = Value(told'[p][c], c) /\ \A x \in PPs : ~Busy(st'[x], p, c)
  <2>1. CASE p = n
    <3>1. rows[u] = Fresh(n) /\ \A x \in PPs : ~Busy(st'[x], p, c)
      BY <1>3, <1>4, <1>8, <1>9, <1>12, <2>1 DEF OwnRow, Busy
    <3>2. rows[u].val[c] = Value(0, c)
      BY <3>1, FreshIs DEF TypeInv
    <3> QED BY <1>3, <1>4, <2>1, <3>1, <3>2
  <2>2. CASE p # n
    BY <1>3, <1>4, <2>2
  <2> QED BY <2>1, <2>2
<1>13. \A p \in Everyone : \A c \in look : told'[p][c] = told[p][c] \/ told'[p][c] = 0
  BY <1>4
<1> QED BY <1>1, <1>6, <1>7, <1>10, <1>11, <1>12, <1>13, QuietShown

----------------------------------------------------------------------------
(* Every step                                                              *)

LEMMA SlotsStay ==
  ASSUME TypeInv, NEW q \in PPs, Begins(q)
  PROVE  \A s \in Slots : slot'[s] = slot[s] \/ slot'[s] = Free
BY DEF Begins, TypeInv

LEMMA StepShown ==
  ASSUME IInv, ShownInv, [Next]_vars
  PROVE  ShownInv'
<1>1. TypeInv /\ SavesInv /\ SessionsInv /\ why \in Reasons /\ ToldInv
  BY DEF IInv, ShownInv
<1>2. ASSUME NEW q \in PPs, st[q] = Idle, NEW s \in Slots, Save(q, s) PROVE ShownInv'
  <2>1. look' = look /\ rows' = rows /\ told' = told /\ number' = number
    BY <1>2 DEF Save, data
  <2>2. SentGrows /\ WhyGrows /\ \A x \in Slots : slot'[x] = slot[x] \/ slot'[x] = Free
    BY <1>1, <1>2, SaveBegins, SaveWhy, SlotsStay DEF Begins
  <2>3. NewJob(q)
    BY <1>1, <1>2, SaveNew
  <2> QED BY <1>1, <1>2, <2>1, <2>2, <2>3, RequestShown
<1>3. ASSUME NEW q \in PPs, st[q] = Idle, NEW s \in Slots, TooLong(q, s) PROVE ShownInv'
  <2>1. look' = look /\ rows' = rows /\ told' = told /\ number' = number
    BY <1>3 DEF TooLong, data
  <2>2. SentGrows /\ WhyGrows /\ \A x \in Slots : slot'[x] = slot[x] \/ slot'[x] = Free
    BY <1>1, <1>3, TooLongBegins, TooLongWhy, SlotsStay DEF Begins
  <2>3. st' = st \/ NewJob(q)
    BY <1>1, <1>3, TooLongNew
  <2> QED BY <1>1, <1>3, <2>1, <2>2, <2>3, RequestShown
<1>4. ASSUME NEW q \in PPs, st[q] = Idle, NEW n \in 1 .. Len(sent), Again(q, n) PROVE ShownInv'
  <2>1. look' = look /\ rows' = rows /\ told' = told /\ number' = number
    BY <1>4 DEF Again, data
  <2>2. SentGrows /\ \A x \in Slots : slot'[x] = slot[x] \/ slot'[x] = Free
    BY <1>1, <1>4, AgainBegins, SlotsStay DEF Begins
  <2>3. NewJob(q) /\ WhyGrows
    BY <1>1, <1>4, AgainNew
  <2> QED BY <1>1, <1>4, <2>1, <2>2, <2>3, RequestShown
<1>5. ASSUME NEW q \in PPs, Works(q) PROVE ShownInv'
  BY <1>1, <1>5, WorkShown
<1>6. ASSUME NEW q \in PPs, (st[q] = Idle /\ \E s \in Slots : Leave(q, s)) \/ Delete(q) \/ DeleteFails(q) \/ Goodbye(q)
      PROVE  ShownInv'
  BY <1>1, <1>6, LeaveShown
<1>7. ASSUME NEW q \in PPs, (st[q] = Idle /\ \E n \in Newcomers : Join(q, n)) \/ Joins(q) PROVE ShownInv'
  <2>1. CASE Welcome(q)
    BY <1>1, <2>1, WelcomeShown
  <2>2. CASE ~Welcome(q)
    BY <1>1, <1>7, <2>2, JoinShown
  <2> QED BY <2>1, <2>2
<1>8. CASE (\E p \in Everyone : Login(p)) \/ (\E s \in Slots : Logoff(s)) \/ UNCHANGED vars
  BY <1>1, <1>8, SessionShown
<1> QED BY <1>2, <1>3, <1>4, <1>5, <1>6, <1>7, <1>8 DEF Next, Works, Joins

LEMMA InitShown ==
  ASSUME Init
  PROVE  ShownInv
<1>1. why \in Reasons
  BY DEF Init, Reasons
<1>2. look \in Looks /\ st = [q \in PPs |-> Idle] /\ \A p \in Everyone : \A c \in look : told[p][c] = 0
  BY DEF Init
<1>3. \A q \in PPs : st[q].job = "idle"
  BY <1>2, IdleIs
<1>4. HandlersInv /\ ComersInv
  BY <1>3 DEF HandlersInv, ComersInv
<1>5. ToldInv
  BY <1>2 DEF ToldInv, ToldOf
<1>6. CrossInv
  BY <1>3 DEF CrossInv, Meeting, Busy
<1>7. PlacesInv
  <2>1. PICK p \in Users, proto \in {"v3", "v5", "v7"} :
          slot = [s \in Slots |-> IF \A k \in Slots : s <= k THEN Session(p, -1, number[p], proto) ELSE Free]
    BY DEF Init
  <2> DEFINE x == Session(p, -1, number[p], proto)
  <2>2. x.who = p /\ x.uin = number[p]
    BY DEF Session
  <2> HIDE DEF x
  <2>3. \A s \in Slots : slot[s] = x \/ slot[s] = Free
    BY <2>1 DEF x
  <2> QED BY <1>3, <2>2, <2>3 DEF PlacesInv, PlacedAt
<1>8. FieldsInv
  <2> SUFFICES ASSUME NEW p \in Everyone, NEW c \in look, OwnRow(rows, number[p], p)
               PROVE  FieldIs(st, slot, rows[number[p]].val[c], told[p][c], p, c)
    BY DEF FieldsInv
  <2>1. PICK m \in Users : rows[number[p]] = Fresh(m)
    <3>1. number[p] \in Uins /\ rows \in [Uins -> {NoRow} \cup {Fresh(m) : m \in Users}]
      BY InitIs, InitTypes DEF TypeInv
    <3> QED BY <3>1 DEF OwnRow
  <2>2. rows[number[p]].val[c] = Value(told[p][c], c)
    BY <1>2, <2>1, FreshIs DEF Everyone
  <2> QED BY <1>3, <2>2 DEF FieldIs, Busy
<1> QED BY <1>1, <1>4, <1>5, <1>6, <1>7, <1>8 DEF ShownInv

\* Directory!SavedIsShown, for every number of processors, users, places, requests and events:
\* while no request of his is being dealt with, every column that replies show of a user's own
\* row holds what he was last told is saved, or one of the known causes took it away (two of his
\* requests crossed, a packet came twice, a handler that has answered first failed, he left
\* before the answer, his place or number got another user).  Every path of the handlers in
\* v3_proto, v5_proto and v7_proto that saves, however their statements mix, is in it.
THEOREM SavedAreShown == Spec => []SavedIsShown
<1>1. Init => ShownInv
  BY InitShown
<1>2. IInv /\ ShownInv /\ [Next]_vars => ShownInv'
  BY StepShown
<1>3. IInv /\ ShownInv => SavedIsShown
  <2> SUFFICES ASSUME ShownInv, NEW p \in Everyone, Mine(p), Resting(p), NEW c \in look, why[p][c] = {}
               PROVE  rows[number[p]].val[c] = Value(told[p][c], c)
    BY DEF SavedIsShown
  <2>1. OwnRow(rows, number[p], p) /\ Clean(why, p, c)
    BY DEF OwnRow, Mine, Known, Clean
  <2>2. \A q \in PPs : ~Busy(st[q], p, c)
    BY DEF Resting, Busy
  <2> QED BY <2>1, <2>2 DEF ShownInv, FieldsInv, FieldIs
<1> QED BY <1>1, <1>2, <1>3, DirectoryInv, PTL DEF Spec

=============================================================================
