---------------------------- MODULE MCMessaging ----------------------------
EXTENDS Messaging, TLC
CONSTANTS p1, p2
Symmetry == Permutations({p1, p2})
ThreePairs == {<<"v5", "v3">>, <<"v7", "v5">>, <<"v3", "v7">>}

\* The rows matter as long as a broadcast may still ask for them.
Asked == /\ \E f \in Writers : proto[f] = "v3"
         /\ \/ Len(mail) < MaxMsgs
            \/ \E p \in PPs : At(p, "bselect") \/ (At(p, "bsend") /\ st[p].u = 1)
View == <<proto, shm, mail, boxes, inbox, st, told, kept, missed, nsess, nread, now, nerr,
          IF Asked THEN <<rows, due>> ELSE <<>>>>
=============================================================================
