----------------------------- MODULE Supervisor -----------------------------
(***************************************************************************)
(* The socket processor (SP) as the parent of the other processes: its     *)
(* list of children (isdcore/process.cpp), the functions that fork them    *)
(* (isdcore/process_init.cpp), the SIGCHLD handler (system/signals.cpp)    *)
(* and the check that restarts what is missing (isdcore/sprocess.cpp).     *)
(*                                                                         *)
(* SIGCHLD is never blocked: its handler runs between any two steps of SP  *)
(* and changes the list and childs_check under the code it interrupts.  A  *)
(* child is the record [child_pid, child_role]; pids are not used again.   *)
(* The handler may also come while childs_num walks the list: both use the *)
(* global cursor cl_list, and the handler frees records, so the number the *)
(* walk returns is then anything.  An insertion is one step.  fork_childs  *)
(* and the check go through the roles in different orders; here it is one. *)
(***************************************************************************)
EXTENDS Naturals, Sequences, FiniteSets

CONSTANTS Order,      \* the roles, in the order in which SP goes through them
          Need,       \* Need[r]: min_childs packet processors, one of the others
          ForkFails,  \* may fork() return -1
          MaxDeaths   \* bound: deaths and reloads in a behaviour

Roles == {Order[k] : k \in 1 .. Len(Order)}

ASSUME OrderAssumption == Order \in Seq(STRING) /\ Order # <<>>
                          /\ \A j, k \in 1 .. Len(Order) : Order[j] = Order[k] => j = k
ASSUME NeedAssumption  == Need \in [Roles -> Nat \ {0}]
ASSUME BoundAssumption == ForkFails \in BOOLEAN /\ MaxDeaths \in Nat

VARIABLES childs,       \* the list
          running,      \* children that run
          zombies,      \* children that died and were not waited for
          childs_check, \* "is any child death?"
          reload,       \* reload_in_progress
          pc,           \* where SP is
          at,           \* the role it is at, an index of Order
          togo,         \* children of this role it has still to fork
          new,          \* the child it forked last
          starting,     \* is SP inside fork_childs
          lost,         \* did the handler interrupt the walk in progress
          missed,       \* roles counted before the handler ran in the last check
          garbled,      \* did the handler ever interrupt a walk
          npid, ndeath  \* pids given, deaths so far

vars == <<childs, running, zombies, childs_check, reload, pc, at, togo, new, starting,
          lost, missed, garbled, npid, ndeath>>

OfRole(S, r) == {c \in S : c.child_role = r}
Role == Order[at]
NoChild == [child_pid |-> 0, child_role |-> Order[1]]

\* fork_childs begins with the first role.
Init ==
  /\ childs = {} /\ running = {} /\ zombies = {}
  /\ childs_check = 0 /\ reload = FALSE
  /\ pc = "fork" /\ at = 1 /\ togo = Need[Order[1]] /\ new = NoChild /\ starting = TRUE
  /\ lost = FALSE /\ missed = {} /\ garbled = FALSE
  /\ npid = 0 /\ ndeath = 0

----------------------------------------------------------------------------
(* The children, and the signals that interrupt SP. *)

Die(c) ==
  /\ ndeath < MaxDeaths
  /\ running' = running \ {c} /\ zombies' = zombies \cup {c}
  /\ ndeath' = ndeath + 1
  /\ UNCHANGED <<childs, childs_check, reload, pc, at, togo, new, starting, lost, missed,
                 garbled, npid>>

\* killpg(0, SIGINT): every child exits.
KillAll ==
  /\ ndeath < MaxDeaths
  /\ ndeath' = ndeath + 1
  /\ running' = {}
  /\ reload' = TRUE

\* mySIGHUPHandler: the configuration has changed.
mySIGHUPHandler ==
  /\ KillAll
  /\ zombies' = zombies \cup running
  /\ UNCHANGED <<childs, childs_check, pc, at, togo, new, starting, lost, missed, garbled, npid>>

\* What the handler spoils: the walk in progress and the counts made in this check.
Interrupt ==
  /\ lost' = (lost \/ pc = "walk")
  /\ garbled' = (garbled \/ pc = "walk")
  /\ missed' = missed \cup IF pc = "poll" \/ starting THEN {} ELSE {Order[k] : k \in 1 .. at}

\* mySIGCHLDHandler waits for every zombie, requests a check (ROLE_BUSY is not in use)
\* and deletes it from the list, where it need not be yet.  If one exited for a database
\* failure, the others are killed and waited for as they die.
mySIGCHLDHandler ==
  /\ zombies # {}
  /\ childs' = childs \ zombies
  /\ childs_check' = 1
  /\ Interrupt
  /\ \/ zombies' = {} /\ UNCHANGED <<running, reload, ndeath>>
     \/ ~reload /\ KillAll /\ zombies' = running
  /\ UNCHANGED <<pc, at, togo, new, starting, npid>>

----------------------------------------------------------------------------
(* The check for missing children. *)

\* Mutant: SP does not look while a reload is in progress.
prchilds_checkNotReloading ==
  /\ pc = "poll" /\ childs_check = 1 /\ ~reload
  /\ pc' = "walk" /\ at' = 1
  /\ lost' = FALSE /\ missed' = {}
  /\ UNCHANGED <<childs, running, zombies, childs_check, reload, togo, new, starting, garbled,
                 npid, ndeath>>

\* prchilds_check, once a second when poll returns.
prchilds_check ==
  /\ pc = "poll" /\ childs_check = 1
  /\ pc' = "walk" /\ at' = 1
  /\ lost' = FALSE /\ missed' = {}
  /\ UNCHANGED <<childs, running, zombies, childs_check, reload, togo, new, starting, garbled,
                 npid, ndeath>>

\* SP goes on with the next role, or back to poll.
NextRole ==
  /\ lost' = FALSE
  /\ IF at < Len(Order)
       THEN /\ at' = at + 1
            /\ pc' = IF starting THEN "fork" ELSE "walk"
            /\ togo' = IF starting THEN Need[Order[at + 1]] ELSE togo
            /\ UNCHANGED starting
       ELSE /\ pc' = "poll"
            /\ starting' = FALSE
            /\ UNCHANGED <<at, togo>>

Counts == IF lost THEN 0 .. Cardinality(childs) + 1 ELSE {Cardinality(OfRole(childs, Role))}

\* Mutant: SP forks as many as configured.
childs_numForksAll ==
  /\ pc = "walk"
  /\ \E cnum \in Counts :
       IF cnum < Need[Role]
         THEN /\ pc' = "fork" /\ togo' = Need[Role]
              /\ UNCHANGED <<at, starting, lost>>
         ELSE NextRole
  /\ UNCHANGED <<childs, running, zombies, childs_check, reload, new, missed, garbled, npid, ndeath>>

\* childs_num has walked the list: what is missing will be forked.
childs_num ==
  /\ pc = "walk"
  /\ \E cnum \in Counts :
       IF cnum < Need[Role]
         THEN /\ pc' = "fork" /\ togo' = Need[Role] - cnum
              /\ UNCHANGED <<at, starting, lost>>
         ELSE NextRole
  /\ UNCHANGED <<childs, running, zombies, childs_check, reload, new, missed, garbled, npid, ndeath>>

\* fork(): the child runs, and may die, before it is in the list.  -1 is not tested.
fork_child ==
  /\ pc = "fork"
  /\ npid' = npid + 1
  /\ new' = [child_pid |-> npid + 1, child_role |-> Role]
  /\ \/ running' = running \cup {new'}
     \/ ForkFails /\ UNCHANGED running
  /\ pc' = "insert"
  /\ UNCHANGED <<childs, zombies, childs_check, reload, at, togo, starting, lost, missed, garbled,
                 ndeath>>

\* Mutant: only the first child of a role is put into the list.
child_insertFirst ==
  /\ pc = "insert"
  /\ childs' = IF OfRole(childs, Role) = {} THEN childs \cup {new} ELSE childs
  /\ togo' = togo - 1
  /\ pc' = IF togo > 1 THEN "fork" ELSE "reset"
  /\ UNCHANGED <<running, zombies, childs_check, reload, at, new, starting, lost, missed, garbled,
                 npid, ndeath>>

child_insert ==
  /\ pc = "insert"
  /\ childs' = childs \cup {new}
  /\ togo' = togo - 1
  /\ pc' = IF togo > 1 THEN "fork" ELSE "reset"
  /\ UNCHANGED <<running, zombies, childs_check, reload, at, new, starting, lost, missed, garbled,
                 npid, ndeath>>

\* Mutant: SP returns after the first role it forked for.
resetReturns ==
  /\ pc = "reset"
  /\ childs_check' = 0
  /\ UNCHANGED reload
  /\ pc' = "poll" /\ starting' = FALSE
  /\ UNCHANGED <<childs, running, zombies, new, missed, garbled, npid, ndeath, at, togo, lost>>

\* What was missing is forked: the request is withdrawn.  fork_childs goes on.
reset ==
  /\ pc = "reset"
  /\ IF starting
       THEN UNCHANGED <<childs_check, reload>>
       ELSE childs_check' = 0 /\ reload' = (reload /\ Role = "packet")
  /\ NextRole
  /\ UNCHANGED <<childs, running, zombies, new, missed, garbled, npid, ndeath>>

----------------------------------------------------------------------------
SPStep == prchilds_check \/ childs_num \/ fork_child \/ child_insert \/ reset

Next ==
  \/ \E c \in running : Die(c)
  \/ mySIGHUPHandler \/ mySIGCHLDHandler
  \/ SPStep

Spec == Init /\ [][Next]_vars

\* A pending signal is delivered; SP is woken by clients again and again.
FairSpec == Spec /\ WF_vars(mySIGCHLDHandler) /\ WF_vars(SPStep)

----------------------------------------------------------------------------
(* Properties. *)

Children == [child_pid : Nat, child_role : Roles]

\* Type invariant; a fork is only begun for a child that is missing.
TypeOK ==
  /\ childs \subseteq Children /\ IsFiniteSet(childs)
  /\ running \subseteq Children /\ zombies \subseteq Children
  /\ running \cap zombies = {}
  /\ childs_check \in {0, 1} /\ reload \in BOOLEAN
  /\ pc \in {"poll", "walk", "fork", "insert", "reset"}
  /\ at \in 1 .. Len(Order) /\ togo \in Nat /\ new \in Children
  /\ starting \in BOOLEAN /\ lost \in BOOLEAN /\ garbled \in BOOLEAN
  /\ missed \subseteq Roles
  /\ npid \in Nat /\ ndeath \in 0 .. MaxDeaths
  /\ pc \in {"fork", "insert"} => togo > 0
  /\ \A c \in childs \cup running \cup zombies \cup {new} : c.child_pid <= npid

\* Every child that was not waited for is in the list, or is just being inserted: it
\* will be counted, and its end will be noticed.
ListedOrNew == running \cup zombies \subseteq childs \cup IF pc = "insert" THEN {new} ELSE {}

\* Records of the list that stand for no process.
Phantoms == childs \ (running \cup zombies)

Idle == pc = "poll" /\ childs_check = 0 /\ zombies = {}
Short(r) == Cardinality(OfRole(running, r)) < Need[r]

\* The only ways in which a missing child is forgotten: the handler ran in the middle
\* of a check, after the role was counted, or the list holds a child that died before
\* it was inserted or never existed.
ShortIsKnown ==
  Idle => \A r \in Roles : Short(r) => r \in missed \/ OfRole(Phantoms, r) # {}

\* As long as no walk over the list was interrupted there are never more children of a
\* role than configured: a second EPacket would take half of the acknowledgements.
NeverTooMany ==
  ~garbled => \A r \in Roles : Cardinality(OfRole(running, r)) <= Need[r]

\* Once children no longer die, SP finds the missing ones: from some time on a role
\* that is short is one of the known cases.
RecoversUnlessKnown ==
  <>[](\A r \in Roles : Short(r) => r \in missed \/ OfRole(Phantoms, r) # {})
=============================================================================
