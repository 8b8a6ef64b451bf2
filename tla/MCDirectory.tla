---------------------------- MODULE MCDirectory ----------------------------
EXTENDS Directory, TLC

\* How the handlers treat a column.
Treats(h, c) == [proto |-> h.proto, reply |-> h.reply, toolong |-> h.toolong, reads |-> h.reads, about |-> h.about /\ c = "notes",
                 carries |-> c \in h.fields, spoils |-> c \in h.spoils,
                 writes |-> IF c \notin DOMAIN h.writes THEN "no" ELSE IF h.writes[c] = c THEN "itself" ELSE h.writes[c]]
Kind(c) == <<{Treats(h, c) : h \in {k \in Saving : c \in k.fields \cup DOMAIN k.writes}}, \E r \in Showing : c \in r.cols>>

\* The aspects looked at: those of several columns, and single columns whose
\* handlers include, for each other column, all that treat it.
ASSUME EveryKind == LET kinds == {Kind(CHOOSE c \in a : TRUE) : a \in {b \in Looks : Cardinality(b) = 1}} IN
  \A a \in Aspects : a \in Looks \/ (Cardinality(a) = 1 /\ \A c \in a : \E k \in kinds : Kind(c)[1] \subseteq k[1] /\ (Kind(c)[2] => k[2]))

Symmetry == Permutations(PPs) \cup Permutations(Users) \cup Permutations(Newcomers)
=============================================================================
