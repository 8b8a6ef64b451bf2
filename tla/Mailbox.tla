------------------------------ MODULE Mailbox ------------------------------
(***************************************************************************)
(* What the message system promises about one letter to one user: it is    *)
(* given to a session of the user, or put into the user's mailbox, and     *)
(* that once; a letter in the mailbox is read any number of times; a       *)
(* removed letter does not come back, though a reader who opened the       *)
(* mailbox before it was removed may still be shown it.                    *)
(***************************************************************************)
CONSTANT Letters        \* pairs of a letter and its addressee

VARIABLES box,          \* letters in the mailboxes
          used,         \* letters that were put into a mailbox at some time
          got           \* letters shown to a client at some time

TypeOK == used \in SUBSET Letters /\ box \in SUBSET used /\ got \in SUBSET Letters

Init == box = {} /\ used = {} /\ got = {}

Put(x) ==
  /\ x \notin used \cup got
  /\ box' = box \cup {x} /\ used' = used \cup {x}
  /\ UNCHANGED got

Hand(x) ==
  /\ x \notin used
  /\ got' = got \cup {x}
  /\ UNCHANGED <<box, used>>

Show(x) ==
  /\ x \in used
  /\ got' = got \cup {x}
  /\ UNCHANGED <<box, used>>

\* One DELETE empties (a part of) one mailbox.
Remove(u) ==
  /\ \E S \in SUBSET {x \in box : x[2] = u} : box' = box \ S
  /\ UNCHANGED <<used, got>>

Next == \/ \E x \in Letters : Put(x) \/ Hand(x) \/ Show(x)
        \/ \E u \in {x[2] : x \in Letters} : Remove(u)

Spec == Init /\ [][Next]_<<box, used, got>>
=============================================================================
