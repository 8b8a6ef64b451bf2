------------------------------ MODULE WhitePages ------------------------------
(***************************************************************************)
(* The searches of the three protocols: isdcore/v3_proto/search.cpp,       *)
(* isdcore/v5_proto/search.cpp and the mr_search_ functions of             *)
(* v7_proto/snac_families/sn15_ext_messages.cpp.                           *)
(*                                                                         *)
(* A search turns what its packet asks for into a WHERE clause, runs the   *)
(* query and sends the users found one packet each, at most as many as the *)
(* configuration allows.  A client learns from the packets whether there   *)
(* are more to come and whether there were more users.  The V7 functions   *)
(* read who asks from the shared memory, through a pointer, while they     *)
(* send; other processes run meanwhile.                                    *)
(*                                                                         *)
(* A row of Users_Info_Ext is the set of its columns that hold what was    *)
(* asked for; <<"past", 2>> is the second of three.  Two columns are not   *)
(* text: <<"open", 1>> (e1publ = 0, the first address may be seen) and     *)
(* <<"online", 1>> (the user has a row in Online_Users).                   *)
(***************************************************************************)
EXTENDS Naturals, Sequences, FiniteSets, TLC

CONSTANTS Searches,   \* the handlers looked at
          MaxSearch,  \* lp_v3_maxsearch(), lp_v5_maxsearch(), lp_v7_maxsearch()
          MaxAsked,   \* bound: how many criteria a packet gives
          MaxHeld,    \* bound: how many of the columns looked at match in one row
          Crowd       \* users whose rows hold everything that is asked for
ASSUME MaxSearchAssumption == MaxSearch \in Nat \ {0}

VARIABLES query,  \* what the packet asks: the handler, the criteria, how to compare
          rows,   \* Users_Info_Ext
          place,  \* whose session is in the place of shared memory of the one who asked
          phase,  \* "asked", "sending", "over"
          found,  \* the users PQexec returned, in their order
          total,  \* ghost: the users the WHERE clause selects
          outcome, \* ghost: what became of the search
          at,     \* the index of the loop over them
          sent    \* the packets, in the order sent
vars == <<query, rows, place, phase, found, total, outcome, at, sent>>

Users == {"one"} \cup Crowd

-----------------------------------------------------------------------------
(* Clauses.  A clause is a set of alternatives, each a set of columns that *)
(* must all match.                                                         *)

Own(cs)           == [c \in cs |-> {{<<c, 1>>}}]
Either(cs)        == {{<<c, 1>>} : c \in cs}
Places(col, n)    == {{<<col, i>>} : i \in 1..n}
Keyed(col, n)     == {{<<col, i>>, <<col \o " key", i>>} : i \in 1..n}
Everybody         == {{}}
Nobody            == {}
Holds(clause, row) == \E alternative \in clause : alternative \subseteq row

Texts   == {"nick", "frst", "last", "email", "city", "state", "company", "position", "department",
            "wcity", "wstate", "hcity", "hstate"}
Lists   == {"past", "affil", "interest", "page"}
Ranged  == {"age", "gender", "language", "country", "work", "martial"}

\* What a criterion means to the one who asks.
Meaning ==
  Own({"uin", "nick", "frst", "last", "age", "gender", "work", "martial", "position", "company",
       "department", "wcity", "wstate", "wcountry", "hcity", "hstate", "hcountry", "online"}) @@
  [city     |-> Either({"hcity"}),
   state    |-> Either({"hstate", "wstate"}),
   country  |-> Either({"hcountry", "wcountry"}),
   language |-> Places("lang", 3),
   email    |-> {{<<"email1", 1>>, <<"open", 1>>}, {<<"email2", 1>>}, {<<"email3", 1>>}},
   past     |-> Keyed("past", 3), affil |-> Keyed("affil", 3),
   interest |-> Keyed("interest", 4), page |-> Keyed("page", 1)]

-----------------------------------------------------------------------------
(* The clauses that each search knows.                                     *)

V3Texts   == Own({"nick", "frst", "last", "wcity", "wstate", "company", "position", "hcity", "hstate"})
               @@ [email |-> Either({"email2"})]
V3Numbers == Own({"age", "wcountry", "department", "hcountry", "uin"})

V5WhiteTexts     == Own({"nick", "frst", "last"}) @@ [email |-> Either({"email2", "email3"})]
V5WhiteNumbers   == Own({"age", "gender"}) @@ [language |-> Places("lang", 3)]
V5WhiteHomeWork  == Own({"company", "position", "work"}) @@
  [city |-> Either({"hcity"}), state |-> Either({"hstate", "wstate"}), country |-> Either({"hcountry", "wcountry"})]
V5WhitePast      == [past |-> Keyed("past", 3)]
V5WhiteAffil     == [affil |-> Keyed("affil", 3)]
V5WhiteInterestsAnywhere == [interest |-> {{<<"interest", i>>, <<"interest key", j>>} : i, j \in 1..4}]   \* mutant: a key of another place
V5WhiteInterests == [interest |-> Keyed("interest", 4)]

V5White2Texts     == Own({"nick", "frst", "last"}) @@ [email |-> Either({"email2", "email3"})]
V5White2Numbers   == Own({"age", "gender"}) @@ [language |-> Places("lang", 3)]
V5White2HomeWork  == Own({"company", "position", "work"}) @@
  [city |-> Either({"hcity"}), state |-> Either({"hstate", "wstate"}), country |-> Either({"hcountry", "wcountry"})]
V5White2Past      == [past |-> Keyed("past", 3)]
V5White2Affil     == [affil |-> Keyed("affil", 3)]
V5White2Interests == [interest |-> Keyed("interest", 4)]
V5White2Page      == [page |-> Keyed("page", 1)]

V5EmailText  == [email |-> Either({"email2"})]
V5Email2Text == [email |-> Either({"email2"})]
V5NameTexts  == Own({"nick", "frst", "last"})
V5Name2Texts == Own({"nick", "frst", "last"})
V5OldTexts   == Own({"nick", "frst", "last"}) @@ [email |-> Either({"email2"})]

V7WhiteTexts     == Own({"nick", "frst", "last"}) @@ [email |-> Either({"email2", "email3"})]
V7WhiteNumbers   == Own({"age", "gender"}) @@ [language |-> Places("lang", 3)]
V7WhiteHomeWork  == Own({"company", "position", "work"}) @@
  [city |-> Either({"hcity"}), state |-> Either({"hstate", "wstate"}), country |-> Either({"hcountry", "wcountry"})]
V7WhitePast      == [past |-> Keyed("past", 3)]
V7WhiteAffil     == [affil |-> Keyed("affil", 3)]
V7WhiteInterests == [interest |-> Keyed("interest", 4)]
V7WhitePage      == [page |-> Keyed("page", 1)]

V7DetailTexts == Own({"nick", "frst", "last"})
V7EmailText   == [email |-> Either({"email2", "email1"})]   \* e1publ is not asked
V7Email2Text  == [email |-> Either({"email2", "email1"})]

\* a code of work is looked for, but never read from the packet: no clause
TlvTexts     == Own({"uin", "nick", "frst", "last"})
TlvEmail     == [email |-> {{<<"email1", 1>>, <<"open", 1>>}, {<<"email2", 1>>}, {<<"email3", 1>>}}]
TlvNumbers   == Own({"age", "gender"}) @@ [language |-> Places("lang", 3)]
TlvHomeWork  == Own({"company", "position"}) @@
  [city |-> Either({"hcity"}), state |-> Either({"hstate", "wstate"}), country |-> Either({"hcountry", "wcountry"})]
TlvPast      == [past |-> Keyed("past", 3)]
TlvAffil     == [affil |-> Keyed("affil", 3)]
TlvInterests == [interest |-> Keyed("interest", 4)]
TlvPage      == [page |-> Keyed("page", 1)]
TlvMartial   == Own({"martial"})

UtfTexts   == Own({"uin", "nick", "frst", "last"})
UtfEmail   == [email |-> {{<<"email1", 1>>, <<"open", 1>>}, {<<"email2", 1>>}, {<<"email3", 1>>}}]
UtfNumbers == Own({"age", "gender"}) @@ [language |-> Places("lang", 3)]
UtfHome    == [city |-> Either({"hcity"}), country |-> Either({"hcountry", "wcountry"})]
UtfMartial == Own({"martial"})

-----------------------------------------------------------------------------
(* The handlers.                                                           *)
(*   takes    criteria its packet may carry                                *)
(*   empty    without a clause: "stub": a user "not implemented" is sent;  *)
(*            "error": the query is no SQL;  "all": it selects everybody   *)
(*            unless the packet has the keyword field                      *)
(*   limit    of the query: "none", "max", or "max + 1"                    *)
(*   refused  a string is too long: "leave": the user is moved offline and *)
(*            is not answered;  "stay": the search goes on without it      *)
(*   ends     how the client is told: "last": the last user's packet says  *)
(*            so;  "then": by a packet of its own                          *)
(*   more     the last packet of a list that was cut says so               *)

Handler(clauses, takes, empty, limit, refused, ends, more) ==
  [clauses |-> clauses, takes |-> takes \cup DOMAIN clauses, empty |-> empty, limit |-> limit,
   refused |-> refused, ends |-> ends, more |-> more]

Online   == Own({"online"})
OneField == Own({"uin"})

Handlers ==
  [V3       |-> Handler(V3Texts @@ V3Numbers, {"other"}, "stub", "max", "leave", "then", TRUE),
   V5White  |-> Handler(V5WhiteTexts @@ V5WhiteNumbers @@ V5WhiteHomeWork @@ V5WhitePast @@ V5WhiteAffil
                  @@ V5WhiteInterests @@ Online, {"department"}, "stub", "none", "stay", "last", TRUE),
   V5White2 |-> Handler(V5White2Texts @@ V5White2Numbers @@ V5White2HomeWork @@ V5White2Past @@ V5White2Affil
                  @@ V5White2Interests @@ V5White2Page @@ Online, {"department"}, "stub", "none", "stay", "last", TRUE),
   V5Uin    |-> Handler(OneField, {}, "error", "none", "leave", "last", TRUE),
   V5OldUin |-> Handler(OneField, {}, "error", "none", "leave", "then", FALSE),
   V5Uin2   |-> Handler(OneField, {}, "error", "none", "leave", "last", TRUE),
   V5Email  |-> Handler(V5EmailText, {}, "error", "max + 1", "leave", "last", TRUE),
   V5Email2 |-> Handler(V5Email2Text, {}, "error", "max + 1", "leave", "last", TRUE),
   V5Name   |-> Handler(V5NameTexts, {}, "error", "max + 1", "leave", "last", TRUE),
   V5Name2  |-> Handler(V5Name2Texts, {}, "error", "max + 1", "leave", "last", TRUE),
   V5Old    |-> Handler(V5OldTexts, {}, "error", "max + 1", "leave", "then", FALSE),
   V7White  |-> Handler(V7WhiteTexts @@ V7WhiteNumbers @@ V7WhiteHomeWork @@ V7WhitePast @@ V7WhiteAffil
                  @@ V7WhiteInterests @@ V7WhitePage @@ Online, {"department"}, "stub", "none", "stay", "last", TRUE),
   V7Details |-> Handler(V7DetailTexts, {}, "error", "max + 1", "stay", "last", TRUE),
   V7Email  |-> Handler(V7EmailText, {}, "error", "max + 1", "stay", "last", TRUE),
   V7Email2 |-> Handler(V7Email2Text @@ OneField, {}, "error", "max + 1", "stay", "last", TRUE),
   V7WpUin  |-> Handler(OneField, {}, "error", "none", "stay", "last", TRUE),
   V7Uin2   |-> Handler(OneField, {}, "error", "none", "stay", "last", TRUE),
   V7White2 |-> Handler(TlvTexts @@ TlvEmail @@ TlvNumbers @@ TlvHomeWork @@ TlvPast @@ TlvAffil
                  @@ TlvInterests @@ TlvPage @@ TlvMartial @@ Online, {"work", "keyword"}, "all", "none", "stay", "last", TRUE),
   V7Utf    |-> Handler(UtfTexts @@ UtfEmail @@ UtfNumbers @@ UtfHome @@ UtfMartial
                  @@ Online, {"keyword"}, "all", "none", "stay", "last", TRUE)]

V7      == {"V7White", "V7Details", "V7Email", "V7Email2", "V7WpUin", "V7Uin2", "V7White2", "V7Utf"}
Tagged  == {"V7White2", "V7Utf"}                          \* the packet is a chain of TLVs
Mails   == {"V5Email", "V5Email2", "V7Email", "V7Email2"}
Cutting == {"V5Name", "V5Name2", "V5Old", "V7Details"}    \* each clause has 64 characters
Short   == Mails \cup {"V3", "V5Uin", "V5OldUin", "V5Uin2", "V7WpUin", "V7Uin2"}  \* one field and no more

-----------------------------------------------------------------------------
(* The WHERE clause of a query.  A criterion is "good", or a text is       *)
(* "refused" (too long), "long" (not too long, but its clause is) or       *)
(* "blank", a number is "outside" what is accepted, a list is "bare" (no   *)
(* key of two letters).  What a string that was refused holds when the     *)
(* search goes on is undefined: junk is what it turns out to be.           *)

Values(search, c) ==
  IF search = "V3" THEN {"good"} \cup (IF c \in {"wcountry", "hcountry", "department"} THEN {} ELSE {"refused"})
  ELSE IF c \in Texts THEN {"good", "refused"} \cup (IF search \in Tagged \cup Mails THEN {"blank"} ELSE {})
                                          \cup (IF search \in Cutting THEN {"long"} ELSE {})
  ELSE IF c \in Lists THEN {"good", "bare", "outside"}
  ELSE IF c \in Ranged THEN {"good", "outside"} ELSE {"good"}

Compares(c) == IF c \in DOMAIN V3Texts THEN {"is", "not", "begins"} ELSE {"is", "not"}
Asking      == Handlers[query.search]
Refused     == \E c \in DOMAIN query.asked : query.asked[c] = "refused"
Value(c, junk) == IF query.asked[c] = "refused" THEN junk ELSE query.asked[c]

\* a text that is left blank is like anything where its length is not looked at
TakesBlank(c) == \/ query.search \in Tagged /\ c \in {"nick", "frst", "last", "email"}
                 \/ query.search \in Mails

\* a number is looked for only if there is no address
HasClause(c, value) ==
  /\ c \in DOMAIN Asking.clauses /\ value # "outside"
  /\ value = "blank" => TakesBlank(c)
  /\ (query.search = "V7Email2" /\ c = "uin") => "email" \notin DOMAIN query.asked
Given(junk) == {c \in DOMAIN query.asked : HasClause(c, Value(c, junk))}

As(clause, c, value) ==
  CASE value = "noone" -> Nobody
    [] value = "blank" -> Everybody
    [] value = "bare"  -> {{col \in alternative : col[1] = c} : alternative \in clause}
    [] OTHER           -> clause

\* a V3 text that "begins" (or ends) with something is looked for with "not like"
Negated(c) == query.search = "V3" /\ c \in DOMAIN V3Texts /\ query.compare # "is"

Selected(junk) == {u \in Users : \A c \in Given(junk) :
                     Holds(As(Asking.clauses[c], c, Value(c, junk)), rows[u]) # Negated(c)}

\* what makes a search one that is implemented
Implemented(junk) == Given(junk) \ (IF query.search \in Tagged THEN {"online", "martial"} ELSE {"online"}) # {}
Stubbed(junk) == /\ ~Implemented(junk)
                 /\ Asking.empty = "stub" \/ (Asking.empty = "all" /\ "keyword" \in DOMAIN query.asked)

\* "AND " takes four characters of the 64
Cut == \E c, d \in DOMAIN query.asked : query.asked[c] = "long" /\
         <<d, c>> \in {<<"nick", "frst">>, <<"nick", "last">>, <<"frst", "last">>,
                       <<"nick", "email">>, <<"frst", "email">>, <<"last", "email">>}
\* uin is a column of both tables that the UTF-8 search joins
Ambiguous   == query.search = "V7Utf" /\ "online" \in DOMAIN query.asked
NoSql(junk) == Cut \/ Ambiguous \/ (Asking.empty = "error" /\ Given(junk) = {})

Limit == CASE Asking.limit = "max + 1" -> MaxSearch + 1
           [] Asking.limit = "max" /\ DOMAIN query.asked \subseteq DOMAIN V3Texts -> MaxSearch
           [] OTHER -> Cardinality(Users)

-----------------------------------------------------------------------------
(* The packets.  next is the flag of a V7 packet: more packets follow.     *)

Packet(who, ok, last, more, next, shows) ==
  [who |-> who, ok |-> ok, last |-> last, more |-> more, next |-> next, shows |-> shows]
Stub      == Packet("stub", TRUE, Asking.ends = "last", FALSE, FALSE, "nothing")
None      == Packet("nobody", FALSE, TRUE, FALSE, FALSE, "nothing")
End(more) == Packet("nobody", FALSE, TRUE, more, FALSE, "nothing")

ShownByRow(u) == IF query.search \in V7 /\ rows[u] # {} THEN "email1" ELSE "email2"   \* mutant: the flag is not looked at
\* The address of a user: the first one only if it may be seen, or to himself.
Shown(u) == IF query.search \in V7 /\ (<<"open", 1>> \in rows[u] \/ place = u) THEN "email1" ELSE "email2"

More     == Len(found) > MaxSearch
IsLastOfAll == at = Len(found)   \* mutant: the limit is forgotten
IsLast   == at = Len(found) \/ at = MaxSearch
Stops    == at = Len(found) \/ (at = MaxSearch /\ query.search # "V3")

\* The searches of white pages say that packets follow in the last one of a list that was not cut.
Follow == IF ~IsLast THEN query.search \in V7
          ELSE ~More /\ query.search \in {"V7White", "V7White2", "V7Utf"}
Found  == LET last == IsLast /\ Asking.ends = "last" IN
  Packet(found[at], TRUE, last, last /\ More, Follow, Shown(found[at]))

-----------------------------------------------------------------------------
(* The steps of a search.                                                  *)

Over(how, packets) ==
  /\ phase' = "over" /\ outcome' = how /\ sent' = sent \o packets
  /\ UNCHANGED <<query, rows, place, found, total, at>>

\* V3, V5: a string is too long, the user is moved offline.
Refuse == phase = "asked" /\ Refused /\ Asking.refused = "leave" /\ Over("refused", <<>>)

Junk == IF Refused THEN {"good", "blank", "noone"} ELSE {"good"}
Goes == phase = "asked" /\ (Refused => Asking.refused = "stay")

NotImplemented == Goes /\ \E junk \in Junk :
  Stubbed(junk) /\ Over("stub", IF Asking.ends = "then" THEN <<Stub, End(FALSE)>> ELSE <<Stub>>)

\* The query is no SQL, or the statement fails.
Fails == Goes /\ \E junk \in Junk : ~Stubbed(junk) /\ Over("failed", <<None>>)

Orders(set, n) == {f \in [1..n -> set] : \A i, j \in 1..n : f[i] = f[j] => i = j}

Runs == Goes /\ \E junk \in Junk :
  /\ ~Stubbed(junk) /\ ~NoSql(junk)
  /\ LET chosen == Selected(junk)
         n      == IF Cardinality(chosen) > Limit THEN Limit ELSE Cardinality(chosen)
     IN  /\ found' \in Orders(chosen, n)
         /\ total' = chosen
         /\ phase' = IF n = 0 THEN "over" ELSE "sending"
         /\ sent'  = IF n = 0 THEN Append(sent, None) ELSE sent
  /\ at' = 1 /\ outcome' = "found" /\ UNCHANGED <<query, rows, place>>

\* One turn of the loop over the users found.
Send == /\ phase = "sending"
        /\ sent' = Append(sent, Found) /\ at' = at + 1
        /\ phase' = IF ~Stops THEN "sending" ELSE IF Asking.ends = "then" THEN "ending" ELSE "over"
        /\ UNCHANGED <<query, rows, place, found, total, outcome>>

Finish == /\ phase = "ending" /\ phase' = "over"
          /\ sent' = Append(sent, End(Asking.more /\ More))
          /\ UNCHANGED <<query, rows, place, found, total, at, outcome>>

\* While the list is sent the session may end, and the place get another user: one
\* whom the list has not come to yet, or it would make no difference.
SessionEnds == /\ phase = "sending" /\ query.search \in V7 /\ place = "guest" /\ place' = "nobody"
               /\ \E i \in at..Len(found) : found[i] = "one"
               /\ UNCHANGED <<query, rows, phase, found, total, at, sent, outcome>>
PlaceTaken  == /\ phase = "sending" /\ place = "nobody" /\ place' = "one"
               /\ UNCHANGED <<query, rows, phase, found, total, at, sent, outcome>>

-----------------------------------------------------------------------------
Looked(search, cs) == (UNION UNION {Meaning[c] : c \in cs \cap DOMAIN Meaning})
  \cup (UNION UNION {Handlers[search].clauses[c] : c \in cs \cap DOMAIN Handlers[search].clauses})

\* A uin is unique: the crowd has others than the one asked for.  The crowd only
\* makes lists longer: it is there when few criteria are asked (a bound).
Init ==
  \E search \in Searches : \E cs \in SUBSET Handlers[search].takes :
    /\ Cardinality(cs) <= MaxAsked
    /\ search \in Short => cs # {}
    /\ search = "V3" => Cardinality(cs) = 1
    /\ \E asked \in {f \in [cs -> UNION {Values(search, c) : c \in cs}] : \A c \in cs : f[c] \in Values(search, c)},
          compare \in IF search = "V3" THEN UNION {Compares(c) : c \in cs} ELSE {"is"},
          asker \in IF search \in V7 THEN {"guest", "one"} ELSE {"guest"} :
         query = [search |-> search, asked |-> asked, compare |-> compare, asker |-> asker]
    /\ LET looked == Looked(search, {c \in cs : query.asked[c] # "outside"}) IN
       \E held \in SUBSET looked, crowded \in BOOLEAN :
         /\ Cardinality(held) <= MaxHeld
         /\ crowded => Cardinality(cs) < MaxAsked
         /\ rows = [u \in Users |-> IF u = "one" THEN held ELSE IF crowded THEN looked \ {<<"uin", 1>>} ELSE {}]
    /\ place = query.asker
    /\ phase = "asked" /\ outcome = "none" /\ found = <<>> /\ total = {} /\ at = 1 /\ sent = <<>>

Next == Refuse \/ NotImplemented \/ Fails \/ Runs \/ Send \/ Finish \/ SessionEnds \/ PlaceTaken
Spec == Init /\ [][Next]_vars

-----------------------------------------------------------------------------
\* Every variable has its type, a list is never longer than its query or the
\* configuration allows, and who is in it was selected.
TypeOK ==
  /\ phase \in {"asked", "sending", "ending", "over"}
  /\ outcome \in {"none", "refused", "stub", "failed", "found"}
  /\ place \in {"guest", "one", "nobody"}
  /\ total \subseteq Users
  /\ \A i \in DOMAIN found : found[i] \in total
  /\ Asking.limit = "max + 1" => Len(found) <= MaxSearch + 1
  /\ (query.search = "V3" /\ DOMAIN query.asked \subseteq DOMAIN V3Texts) => Len(found) <= MaxSearch
  /\ at \in 1..Len(found) + 1
  /\ \A i \in DOMAIN sent : sent[i].who \in total \cup {"stub", "nobody"}

\* Types; and a search that is answered is answered to its end: the last packet and no other
\* says that it is the last, nobody is sent twice, and the client learns that the
\* list was cut exactly if it was.  V3 lists by a number are not cut; V3's other
\* lists and the old searches of V5 are, and nobody is told; the white pages of V7
\* announce one more packet than they send.
EndIsTold == TypeOK /\ (phase = "over" /\ outcome # "refused" =>
  LET listed == {i \in DOMAIN sent : sent[i].who \in Users} IN
  /\ sent # <<>> /\ \A i \in DOMAIN sent : sent[i].last <=> i = Len(sent)
  /\ \A i, j \in listed : sent[i].who = sent[j].who => i = j
  /\ Cardinality(listed) = Cardinality(total) \/ Cardinality(listed) = MaxSearch
  /\ Cardinality(listed) <= MaxSearch \/ (query.search = "V3" /\ DOMAIN query.asked \subseteq DOMAIN V3Numbers)
  /\ \/ sent[Len(sent)].more <=> Cardinality(total) > MaxSearch
     \/ query.search \in {"V3", "V5Old"} /\ ~sent[Len(sent)].more
  /\ query.search \in V7 => \A i \in DOMAIN sent :
       sent[i].next <=> \/ i < Len(sent)
                        \/ (query.search \in {"V7White", "V7White2", "V7Utf"} /\ listed # {} /\ ~sent[i].more))

\* What a search does not look at, by oversight or because it cannot be.
Overlooked ==
  {c \in DOMAIN query.asked : query.asked[c] \in {"refused", "outside"}
     \/ c \in {"keyword", "other"}
     \/ (c = "department" /\ query.search # "V3")
     \/ (c = "work" /\ query.search = "V7White2")
     \/ (c = "uin" /\ query.search = "V7Email2" /\ "email" \in DOMAIN query.asked)}

\* Only the searches of Tagged look at the three addresses in the same way.
Plain(u) == \/ query.search \in Tagged \/ "email" \notin DOMAIN query.asked
            \/ <<"email2", 1>> \in rows[u]
            \/ {<<"email1", 1>>, <<"email3", 1>>} \cap rows[u] = {}

\* A user is found exactly if he is what was asked for, by every criterion the
\* search looks at, but for V3's "begins", "ends" and comparisons of numbers and
\* for addresses that only some searches look at.
FindsThoseAsked ==
  /\ outcome = "found" /\ ~Refused
  /\ \/ query.compare = "is"
     \/ query.compare = "not" /\ DOMAIN query.asked \subseteq DOMAIN V3Texts
  =>
    \A u \in {v \in Users : Plain(v)} : u \in total <=> \A c \in DOMAIN query.asked \ Overlooked :
      Holds(As(Meaning[c], c, query.asked[c]), rows[u]) <=> query.compare = "is"

\* An address that may not be seen does not find its owner, but in two searches of V7,
\* and is shown to its owner only, unless he got the place of the one who asked while
\* the list was being sent.
AddressStaysHidden ==
  /\ (outcome = "found" /\ "email" \in DOMAIN query.asked /\ query.search \notin {"V7Email", "V7Email2"}) =>
       (query.asked["email"] = "good" /\ query.compare = "is" => \A u \in total : Holds(Meaning["email"], rows[u]))
  /\ \A i \in DOMAIN sent :
       sent[i].shows = "email1" => \/ <<"open", 1>> \in rows[sent[i].who]
                                   \/ sent[i].who = query.asker
                                   \/ place = sent[i].who
=============================================================================
