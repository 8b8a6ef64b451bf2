------------------------------ MODULE UserInfo ------------------------------
(***************************************************************************)
(* What users say about themselves: the columns of the table               *)
(* Users_Info_Ext, what each handler of the three protocols writes into    *)
(* them (database/userinfo_db.cpp and the handlers that call it) and what  *)
(* each reply shows of them.  There is no behaviour here; Directory runs   *)
(* the handlers against each other, WhitePages searches the columns.       *)
(*                                                                         *)
(* A column has the name the table gives it.  The number of an interest, a *)
(* past or an affiliation goes with its key: past_key1 stands for both.    *)
(***************************************************************************)
EXTENDS FiniteSets, Functions

\* What is stored in a column a handler has nothing for.
Empty     == "nothing"     \* the structure was zeroed
Undefined == "undefined"   \* it was not, or a string was refused

-----------------------------------------------------------------------------
(* The UPDATE statements: the columns that each sets.                      *)

SetAuthMode     == {"auth"}
SetPassword     == {"pass"}
SetSecure       == {"webaware", "iphide", "auth"}
SetHPageCat     == {"hpage_cf", "hpage_cat", "hpage_txt"}
SetNotes        == {"notes"}
SetHomePage     == {"hweb"}
SetWorkPage     == {"wweb"}
SetBasic        == {"nick", "frst", "last", "email1", "email2"}
SetV5More       == {"age", "sex", "hweb", "byear", "bmon", "bday", "lang1", "lang2", "lang3"}
SetInterests    == {"int_num", "int_key1", "int_key2", "int_key3", "int_key4"}
SetAffilations  == {"past_num", "past_key1", "past_key2", "past_key3",
                    "aff_num", "aff_key1", "aff_key2", "aff_key3"}
SetWork  == {"waddr", "wcity", "wstate", "wcountry", "wphon", "wfax", "wpager",
             "wzip", "wzip2", "wdepart", "wtitle", "wcompany"}
SetHome  == {"haddr", "hcity", "hstate", "hcountry", "hphon", "hfax", "hcell",
             "hzip", "hzip2", "sex", "bday", "bmon", "byear", "age"}
SetBasic2 == {"nick", "frst", "last", "email1", "email2", "email3", "hcity", "hstate", "hphon",
              "hfax", "hcell", "haddr", "hcountry", "gmtoffs", "hzip", "e1publ"}
SetBasic3 == SetBasic2 \ {"email2", "email3"}
SetWork2  == {"wcity", "wstate", "wphon", "wfax", "waddr", "wcompany", "wtitle", "wweb",
              "wocup", "wcountry", "wzip", "wdepart2"}

-----------------------------------------------------------------------------
(* A handler that saves: what its packet carries, which field (or what     *)
(* else) it puts into each column; when it answers and what; what it does  *)
(* about a string that is too long; and what it is known to spoil: fields  *)
(* of the packet that it does not keep, columns it empties or fills with   *)
(* what is not meant for them.                                             *)
(*   reply    "result": as the statement went;  "counted": also False when *)
(*            there was no such row;  "yes": True whatever happened;       *)
(*            "first": True before the statement is sent                   *)
(*   toolong  a string is: "drop": the user is moved offline, nothing is   *)
(*            saved;  "save": goes on with what there is;  "refuse":       *)
(*            answers False;  "none": there is no limit, or no string      *)
(*   about    the notes are saved first, by a statement of their own       *)
(*   flags    the addresses that come with a flag: hide this one           *)

\* columns cols, each from the field of its name if it is in the packet, or else other
From(cols, packet, other) == [c \in cols |-> IF c \in packet THEN c ELSE other]

Saves(proto, packet, writes, reply, toolong, spoils) ==
  [proto |-> proto, fields |-> packet, writes |-> writes, reply |-> reply,
   toolong |-> toolong, spoils |-> spoils, about |-> FALSE, reads |-> FALSE,
   flags |-> IF "e1publ" \in packet THEN {"email1"} ELSE {}]
Plain(proto, cols, reply, toolong) == Saves(proto, cols, From(cols, cols, Empty), reply, toolong, {})

\* V3: the results of the statements are not looked at.
V3Auth     == Plain("v3", SetAuthMode, "first", "none")
V3Pass     == Plain("v3", SetPassword, "first", "drop")
V3HomePage == Plain("v3", SetHomePage, "yes", "drop")
V3WorkPage == Plain("v3", SetWorkPage, "yes", "drop")
V3Notes    == Plain("v3", SetNotes, "yes", "none")
V3Work     == LET packet == SetWork \ {"wzip2"}
              IN  Saves("v3", packet, From(SetWork, packet, Undefined), "yes", "drop", {"wzip2"})
V3Home     == LET packet == SetHome \ {"hzip2"}
              IN  Saves("v3", packet, From(SetHome, packet, Empty), "yes", "drop", {"hzip2"})
\* V3 knows one address, which it shows from email2.
V3Basic    == LET packet == SetBasic \ {"email1"}
              IN  Saves("v3", packet, From(SetBasic, packet, "email2"), "yes", "drop", {"email1"})

\* V5: most handlers do not look whether a string was refused.
V5Pass       == Plain("v5", SetPassword, "result", "save")
V5Interests  == Plain("v5", SetInterests, "result", "save")
V5Affilation == Plain("v5", SetAffilations, "result", "save")
V5Basic      == Plain("v5", SetBasic2, "result", "save")
V5Basic2     == Plain("v5", SetBasic2, "result", "save")
V5More       == Plain("v5", SetV5More, "result", "save")
V5More2      == Plain("v5", SetV5More, "result", "save")
V5HPageCat   == Plain("v5", SetHPageCat, "result", "save")
V5Secure     == Plain("v5", SetSecure, "result", "none")
V5Work       == Plain("v5", SetWork2, "result", "refuse")
V5Work2      == Plain("v5", SetWork2, "result", "refuse")
V5About      == Plain("v5", SetNotes, "result", "refuse")

\* V7, one request for each group of fields
V7HPageCat   == Plain("v7", SetHPageCat, "result", "save")
V7Affilation == Plain("v7", SetAffilations, "result", "save")
V7Interests  == Plain("v7", SetInterests, "result", "save")
V7Perms      == Plain("v7", SetSecure, "result", "none")
V7Notes      == Plain("v7", SetNotes, "result", "refuse")
V7More       == Plain("v7", SetV5More, "result", "refuse")
V7Pass       == Plain("v7", SetPassword, "result", "refuse")
\* The statements know the zip as a number only; the packets have a string.
V7Work       == LET packet == (SetWork2 \ {"wzip"}) \cup {"wzip2"}
                IN  Saves("v7", packet, From(SetWork2, packet, Empty), "result", "refuse", {"wzip", "wzip2"})
V7Home       == LET packet == (SetBasic3 \ {"hzip"}) \cup {"hzip2"}
                IN  Saves("v7", packet, From(SetBasic3, packet, Empty), "result", "refuse", {"hzip", "hzip2"})
\* reads the row and writes it back with other addresses; their flags are skipped
V7Email      == LET packet == {"email2", "email3"}
                IN  [Saves("v7", packet, From(SetBasic2, packet, Empty), "result", "refuse", {})
                       EXCEPT !.reads = TRUE, !.flags = packet]

\* V7, one request with whatever fields the client puts into it
Chosen(cols) == [Plain("v7", cols, "counted", "refuse") EXCEPT !.about = "notes" \in cols,
                                                              !.writes = From(cols \ {"notes"}, cols, Empty)]
InfoNames  == {"nick", "frst", "last", "hcity", "hstate", "wcompany", "wdepart2", "wtitle"}
InfoPlaces == {"hweb", "haddr", "hphon", "hfax", "hcell", "waddr", "wcity", "wstate", "wphon", "wfax", "wweb"}
InfoNumbers == {"age", "sex", "hcountry", "wocup", "hzip", "wcountry", "wzip", "webaware", "auth",
                "gmtoffs", "byear", "bmon", "bday", "martial"}
InfoEmails == {"email1", "email2", "email3", "e1publ"}
InfoLangs  == {"lang1", "lang2", "lang3"}
InfoZips   == {"wzip2", "hzip2"}
InfoAll    == UNION {InfoNames, InfoPlaces, InfoNumbers, InfoEmails, InfoLangs, InfoZips,
                     SetInterests, SetAffilations, {"notes"}}
\* Each address has a flag; that of the one for email1 is stored, the others are not.
V7Info     == [Chosen(InfoAll) EXCEPT !.flags = InfoEmails \ {"e1publ"}]
\* Lists are stored from the last place down: one that is not full ends in the last columns,
\* and none of its addresses is in email1, the only one whose flag is stored.
FewOf(stored, flags) ==
  LET numbers == {"int_num", "past_num", "aff_num"}
      carried == {stored[c] : c \in DOMAIN stored} \cup (IF flags # {} THEN {"e1publ"} ELSE {})
  IN  [Chosen(carried) EXCEPT !.writes = stored, !.spoils = (carried \cup DOMAIN stored) \ numbers, !.flags = flags]
V7InfoOne   == FewOf([email3 |-> "email1", lang3 |-> "lang1", int_num |-> "int_num", int_key4 |-> "int_key1",
                      past_num |-> "past_num", past_key3 |-> "past_key1",
                      aff_num |-> "aff_num", aff_key3 |-> "aff_key1"], {"email1"})
V7InfoTwo   == FewOf([email2 |-> "email1", email3 |-> "email2", lang2 |-> "lang1", lang3 |-> "lang2",
                      int_num |-> "int_num", int_key3 |-> "int_key1", int_key4 |-> "int_key2",
                      past_num |-> "past_num", past_key2 |-> "past_key1", past_key3 |-> "past_key2",
                      aff_num |-> "aff_num", aff_key2 |-> "aff_key1", aff_key3 |-> "aff_key2"], {"email1", "email2"})
V7InfoThree == FewOf([int_num |-> "int_num", int_key2 |-> "int_key1", int_key3 |-> "int_key2",
                      int_key4 |-> "int_key3"], {})
\* A zip that is too long is left out without a word.
V7InfoZips == [Chosen({"nick"} \cup InfoZips) EXCEPT !.writes = From({"nick"}, {"nick"}, Empty), !.spoils = InfoZips]
\* Nothing but notes: they are stored, then there is nothing to update.
V7InfoNotes == Chosen({"notes"})

UtfNames  == {"nick", "frst", "last", "hweb", "sex", "lang1", "lang2", "lang3", "martial"}
UtfHome   == {"haddr", "hcity", "hstate", "hzip2", "hcountry"}
UtfWork   == {"wtitle", "wcompany", "wdepart2", "wweb", "waddr", "wcity", "wstate", "wzip2", "wcountry"}
UtfBirth  == {"bcity", "bstate", "bcountry"}
UtfPhones == {"hphon", "wphon", "hcell", "hfax", "wfax"}
V7Utf     == Chosen(UNION {UtfNames, UtfHome, UtfWork, UtfBirth, SetInterests, UtfPhones, {"notes"}})
V7UtfFew  == Chosen({"int_num", "int_key1"})
\* A kind of phone that is not known: it and those after it are left out.
V7UtfPhones == [Chosen({"nick"} \cup UtfPhones) EXCEPT !.writes = From({"nick"}, {"nick"}, Empty), !.spoils = UtfPhones]
\* A telephone of the service itself is accepted and stored nowhere.
V7IcqPhone == [Plain("v7", {}, "result", "none") EXCEPT !.reply = "yes"]

Saving ==
  {V3Auth, V3Pass, V3HomePage, V3WorkPage, V3Notes, V3Work, V3Home, V3Basic,
   V5Pass, V5Interests, V5Affilation, V5Basic, V5Basic2, V5More, V5More2, V5HPageCat, V5Secure, V5Work, V5Work2, V5About,
   V7HPageCat, V7Affilation, V7Interests, V7Perms, V7Notes, V7More, V7Pass, V7Work, V7Home, V7Email,
   V7Info, V7InfoOne, V7InfoTwo, V7InfoThree, V7InfoZips, V7InfoNotes, V7Utf, V7UtfFew, V7UtfPhones, V7IcqPhone}

-----------------------------------------------------------------------------
(* A reply that shows a user: the columns it is made of, and what a        *)
(* stranger gets for an email1 that its owner hides.                       *)

Shows(cols) == [cols |-> cols, instead |-> "email1"]
Hides(cols, instead) == [cols |-> cols, instead |-> instead]
People == {"nick", "frst", "last", "email2", "auth"}

V3Found       == Shows(People)
V3BasicInfo   == Shows(People)
V3BasicSingle == Shows(People)
V3WorkInfo    == Shows(SetWork \ {"wzip2"})
V3HomeInfo    == Shows(SetHome \ {"hzip2"})
V3WorkWeb     == Shows({"wweb"})
V3HomeWeb     == Shows({"hweb"})
V3NotesInfo   == Shows({"notes"})

V5ShortInfo   == Shows(People \cup {"sex"})
V5Info2       == Hides(SetBasic2 \cup {"auth", "webaware", "iphide"}, Empty)
V5Info3       == Hides(SetBasic2, Empty)
V5MoreInfo    == Shows(SetV5More)
V5MoreInfo2   == Shows(SetV5More)
V5WorkInfo    == Shows(SetWork2)
V5WorkInfo2   == Shows(SetWork2)
V5AboutInfo   == Shows({"notes"})
V5HPageInfo   == Shows(SetHPageCat)
V5InterestInfo == Shows(SetInterests)
V5AffilInfo   == Shows(SetAffilations \ {"aff_num"})
V5Found       == Shows(People)
V5Found2      == Shows(People \cup {"webaware"})
V5WhiteFound  == Shows(People \cup {"webaware"})
V5WhiteFound2 == Shows(People \cup {"webaware"})
V5OldInfo     == Shows(People)
V5OldInfoExt  == Shows({"hcity", "hcountry", "hstate", "age", "sex", "hphon", "hweb", "notes"})
V5OldFound    == Shows(People)

V7HomeInfo    == Hides((SetBasic3 \ {"hzip"}) \cup {"hzip2", "auth", "webaware", "iphide"}, Empty)
V7MoreInfo    == Shows(SetV5More \cup {"martial"})
V7EmailInfo   == Shows({"email2", "email3"})
V7HPageInfo   == Shows(SetHPageCat)
V7WorkInfo    == Shows((SetWork2 \ {"wzip"}) \cup {"wzip2"})
V7AboutInfo   == Shows({"notes"})
V7InterestInfo == Shows(SetInterests)
V7AffilInfo   == Shows(SetAffilations \ {"aff_num"})
V7ShortInfo   == Hides({"nick", "frst", "last", "email1", "auth", "sex"}, Empty)
V7FoundOpen   == Shows({"nick", "frst", "last", "email1", "auth", "webaware", "sex", "age"})
V7Found       == Hides({"nick", "frst", "last", "email1", "auth", "webaware", "sex", "age"}, "email2")
V7UtfFound    == Hides(((UNION {UtfNames, UtfHome, UtfWork, UtfBirth, UtfPhones, SetInterests}) \ {"int_num"})
                       \cup {"email1", "notes", "webaware", "auth"}, "email2")

Showing ==
  {V3Found, V3BasicInfo, V3BasicSingle, V3WorkInfo, V3HomeInfo, V3WorkWeb, V3HomeWeb, V3NotesInfo,
   V5ShortInfo, V5Info2, V5Info3, V5MoreInfo, V5MoreInfo2, V5WorkInfo, V5WorkInfo2, V5AboutInfo, V5HPageInfo,
   V5InterestInfo, V5AffilInfo, V5Found, V5Found2, V5WhiteFound, V5WhiteFound2, V5OldInfo, V5OldInfoExt, V5OldFound,
   V7HomeInfo, V7MoreInfo, V7EmailInfo, V7HPageInfo, V7WorkInfo, V7AboutInfo, V7InterestInfo, V7AffilInfo,
   V7ShortInfo, V7Found, V7UtfFound}

\* What the reply shows from column c of a row: to its owner, or to others.
Column(reply, c, own, hidden) == IF c = "email1" /\ hidden /\ ~own THEN reply.instead ELSE c

\* Columns that are looked at together; no handler decides anything by what is in a column.
Aspects ==
  LET together == {InfoEmails, SetInterests, InfoLangs, {"past_num", "past_key1", "past_key2", "past_key3"},
                   {"aff_num", "aff_key1", "aff_key2", "aff_key3"}, {"hzip", "hzip2"}, {"wzip", "wzip2"}}
      all      == (UNION {r.cols : r \in Showing}) \cup (UNION {h.fields : h \in Saving})
  IN  together \cup {{c} : c \in all \ UNION together}
=============================================================================
