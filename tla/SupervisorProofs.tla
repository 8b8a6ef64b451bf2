-------------------------- MODULE SupervisorProofs --------------------------
(***************************************************************************)
(* Proofs about Supervisor, for any roles and numbers of children.         *)
(***************************************************************************)
EXTENDS Supervisor, FiniteSetTheorems, SequenceTheorems, TLAPS

----------------------------------------------------------------------------
(* Types. *)

LEMMA OrderFacts == Len(Order) \in Nat /\ 1 \in 1 .. Len(Order)
<1>1. Order \in Seq(STRING) /\ Order # <<>>
  BY OrderAssumption
<1>2. Len(Order) \in Nat /\ Len(Order) # 0
  BY <1>1, EmptySeq
<1> QED BY <1>2

LEMMA RoleType == TypeOK => Role \in Roles /\ Need[Role] \in Nat \ {0}
BY NeedAssumption DEF TypeOK, Role, Roles

\* What the steps to the next role keep.
LEMMA NextRoleType ==
  ASSUME TypeOK, NextRole
  PROVE  /\ at' \in 1 .. Len(Order) /\ togo' \in Nat /\ lost' \in BOOLEAN /\ starting' \in BOOLEAN
         /\ pc' \in {"poll", "walk", "fork"}
         /\ pc' = "fork" => togo' > 0
<1>1. Len(Order) \in Nat /\ at \in 1 .. Len(Order) /\ starting \in BOOLEAN
  BY OrderFacts DEF TypeOK
<1>2. CASE at < Len(Order)
  <2>1. at + 1 \in 1 .. Len(Order)
    BY <1>1, <1>2
  <2>2. Need[Order[at + 1]] \in Nat \ {0}
    BY <2>1, NeedAssumption DEF Roles
  <2>3. at' = at + 1 /\ lost' \in BOOLEAN /\ starting' \in BOOLEAN
    BY <1>1, <1>2 DEF NextRole
  <2>4. CASE starting
    <3>1. pc' = "fork" /\ togo' = Need[Order[at + 1]]
      BY <1>2, <2>4 DEF NextRole
    <3>2. togo' \in Nat /\ togo' > 0
      BY <2>2, <3>1
    <3> QED BY <2>1, <2>3, <3>1, <3>2
  <2>5. CASE ~starting
    <3>1. pc' = "walk" /\ togo' = togo
      BY <1>2, <2>5 DEF NextRole
    <3> QED BY <1>1, <2>1, <2>3, <3>1 DEF TypeOK
  <2> QED BY <2>4, <2>5
<1>3. CASE ~(at < Len(Order))
  BY <1>3 DEF NextRole, TypeOK
<1> QED BY <1>2, <1>3

LEMMA CountsNat == ASSUME TypeOK, NEW c \in Counts PROVE c \in Nat
<1>1. OfRole(childs, Role) \subseteq childs /\ IsFiniteSet(childs)
  BY DEF OfRole, TypeOK
<1>2. Cardinality(OfRole(childs, Role)) \in Nat /\ Cardinality(childs) \in Nat
  BY <1>1, FS_Subset, FS_CardinalityType
<1> QED BY <1>2 DEF Counts

LEMMA TypeStep == TypeOK /\ [Next]_vars => TypeOK'
<1> SUFFICES ASSUME TypeOK, [Next]_vars PROVE TypeOK'
  OBVIOUS
<1>1. ASSUME NEW c \in running, Die(c) PROVE TypeOK'
  BY <1>1, BoundAssumption DEF Die, TypeOK
<1>2. CASE mySIGHUPHandler
  BY <1>2, BoundAssumption DEF mySIGHUPHandler, KillAll, TypeOK
<1>3. CASE mySIGCHLDHandler
  <2>1. IsFiniteSet(childs')
    BY <1>3, FS_Subset DEF mySIGCHLDHandler, TypeOK
  <2>2. lost' \in BOOLEAN /\ garbled' \in BOOLEAN /\ missed' \subseteq Roles
    BY <1>3 DEF mySIGCHLDHandler, Interrupt, TypeOK, Roles
  <2>3. running' \subseteq running /\ zombies' \subseteq running /\ running' \cap zombies' = {}
    BY <1>3 DEF mySIGCHLDHandler, KillAll
  <2>4. ndeath' \in 0 .. MaxDeaths /\ reload' \in BOOLEAN
    <3>1. (ndeath' = ndeath /\ reload' = reload)
          \/ (ndeath < MaxDeaths /\ ndeath' = ndeath + 1 /\ reload' = TRUE)
      BY <1>3 DEF mySIGCHLDHandler, KillAll
    <3>2. MaxDeaths \in Nat /\ ndeath \in 0 .. MaxDeaths /\ reload \in BOOLEAN
      BY BoundAssumption DEF TypeOK
    <3>3. ndeath' \in 0 .. MaxDeaths
      BY <3>1, <3>2
    <3>4. reload' \in BOOLEAN
      BY <3>1, <3>2
    <3> QED BY <3>3, <3>4
  <2>5. childs' \subseteq childs /\ childs_check' = 1
        /\ UNCHANGED <<pc, at, togo, new, starting, npid>>
    BY <1>3 DEF mySIGCHLDHandler
  <2> QED BY <2>1, <2>2, <2>3, <2>4, <2>5 DEF TypeOK
<1>4. CASE prchilds_check
  BY <1>4, OrderFacts DEF prchilds_check, TypeOK
<1>5. CASE childs_num
  <2>1. PICK cnum \in Counts :
          IF cnum < Need[Role]
            THEN pc' = "fork" /\ togo' = Need[Role] - cnum /\ UNCHANGED <<at, starting, lost>>
            ELSE NextRole
    BY <1>5 DEF childs_num
  <2>2. CASE cnum < Need[Role]
    <3>1. togo' \in Nat /\ togo' > 0
      BY <2>1, <2>2, CountsNat, RoleType
    <3> QED BY <1>5, <2>1, <2>2, <3>1 DEF childs_num, TypeOK
  <2>3. CASE ~(cnum < Need[Role])
    BY <1>5, <2>1, <2>3, NextRoleType DEF childs_num, TypeOK
  <2> QED BY <2>2, <2>3
<1>6. CASE fork_child
  <2>1. new' \in Children /\ npid' = npid + 1 /\ new'.child_pid = npid + 1
    BY <1>6, RoleType DEF fork_child, Children, TypeOK
  <2>2. running' \subseteq running \cup {new'} /\ new' \notin zombies
    BY <1>6, <2>1 DEF fork_child, TypeOK
  <2>3. running' \cap zombies = {} /\ running' \subseteq Children
    BY <2>1, <2>2 DEF TypeOK
  <2>4. \A c \in childs \cup running' \cup zombies \cup {new'} : c.child_pid <= npid + 1
    BY <2>1, <2>2 DEF TypeOK, Children
  <2> QED BY <1>6, <2>1, <2>3, <2>4 DEF fork_child, TypeOK
<1>7. CASE child_insert
  <2>1. IsFiniteSet(childs')
    BY <1>7, FS_AddElement DEF child_insert, TypeOK
  <2> QED BY <1>7, <2>1 DEF child_insert, TypeOK
<1>8. CASE reset
  BY <1>8, NextRoleType DEF reset, TypeOK
<1>9. CASE UNCHANGED vars
  BY <1>9 DEF vars, TypeOK
<1> QED BY <1>1, <1>2, <1>3, <1>4, <1>5, <1>6, <1>7, <1>8, <1>9 DEF Next, SPStep

LEMMA TypeInit == Init => TypeOK
<1> SUFFICES ASSUME Init PROVE TypeOK
  OBVIOUS
<1>1. 1 \in 1 .. Len(Order) /\ Order[1] \in Roles /\ Need[Order[1]] \in Nat \ {0}
  BY OrderFacts, NeedAssumption DEF Roles
<1>2. IsFiniteSet({})
  BY FS_EmptySet
<1>3. NoChild \in Children /\ NoChild.child_pid = 0
  BY <1>1 DEF NoChild, Children
<1>4. togo \in Nat /\ togo > 0 /\ ndeath \in 0 .. MaxDeaths
  BY <1>1, BoundAssumption DEF Init
<1>5. \A c \in childs \cup running \cup zombies \cup {new} : c.child_pid <= npid
  BY <1>3 DEF Init
<1>6. childs = {} /\ running = {} /\ zombies = {} /\ missed = {} /\ new = NoChild
      /\ childs_check = 0 /\ pc = "fork" /\ at = 1 /\ npid = 0
  BY DEF Init
<1>7. reload \in BOOLEAN /\ starting \in BOOLEAN /\ lost \in BOOLEAN /\ garbled \in BOOLEAN
  BY DEF Init
<1> QED BY <1>1, <1>2, <1>3, <1>4, <1>5, <1>6, <1>7 DEF TypeOK

\* Type correctness for any roles and any number of children, garbled walks included.
THEOREM TypeCorrect == Spec => []TypeOK
BY TypeInit, TypeStep, PTL DEF Spec

----------------------------------------------------------------------------
(* The list. *)

LEMMA ListedStep == TypeOK /\ ListedOrNew /\ [Next]_vars => ListedOrNew'
<1> SUFFICES ASSUME TypeOK, ListedOrNew, [Next]_vars PROVE ListedOrNew'
  OBVIOUS
<1>1. ASSUME NEW c \in running, Die(c) PROVE ListedOrNew'
  BY <1>1 DEF Die, ListedOrNew
<1>2. CASE mySIGHUPHandler
  BY <1>2 DEF mySIGHUPHandler, KillAll, ListedOrNew
<1>3. CASE mySIGCHLDHandler
  <2>1. running' \cup zombies' \subseteq running /\ childs' = childs \ zombies
        /\ UNCHANGED <<pc, new>>
    BY <1>3 DEF mySIGCHLDHandler, KillAll
  <2>2. running \cap zombies = {}
    BY DEF TypeOK
  <2> QED BY <2>1, <2>2 DEF ListedOrNew
<1>4. CASE prchilds_check
  BY <1>4 DEF prchilds_check, ListedOrNew
<1>5. CASE childs_num
  <2>1. pc = "walk" /\ UNCHANGED <<childs, running, zombies>>
    BY <1>5 DEF childs_num
  <2> QED BY <2>1 DEF ListedOrNew
<1>6. CASE fork_child
  <2>1. pc = "fork" /\ pc' = "insert" /\ UNCHANGED <<childs, zombies>>
        /\ running' \subseteq running \cup {new'}
    BY <1>6 DEF fork_child
  <2> QED BY <2>1 DEF ListedOrNew
<1>7. CASE child_insert
  BY <1>7 DEF child_insert, ListedOrNew
<1>8. CASE reset
  <2>1. pc = "reset" /\ UNCHANGED <<childs, running, zombies>>
    BY <1>8 DEF reset
  <2> QED BY <2>1 DEF ListedOrNew
<1>9. CASE UNCHANGED vars
  BY <1>9 DEF vars, ListedOrNew
<1> QED BY <1>1, <1>2, <1>3, <1>4, <1>5, <1>6, <1>7, <1>8, <1>9 DEF Next, SPStep

\* Whatever the signals interrupt, no child that lives or waits for its parent is
\* missing from the list, but for the one being inserted.
THEOREM NoneUnlisted == Spec => []ListedOrNew
<1>1. Init => ListedOrNew
  BY DEF Init, ListedOrNew
<1> QED BY <1>1, TypeCorrect, ListedStep, PTL DEF Spec

----------------------------------------------------------------------------
(* The number of children. *)

\* Children of role r that will still be inserted in this turn.
Due(r) == IF r = Role /\ pc \in {"fork", "insert"} THEN togo ELSE 0

\* Strengthens NeverTooMany: what is listed and what is still to come is never more
\* than configured, and fork_childs finds no record of the roles it has not reached.
CountInv ==
  /\ pc = "walk" /\ lost => garbled
  /\ starting => pc \in {"fork", "insert", "reset"}
  /\ pc = "insert" => new.child_role = Role
  /\ ~garbled => \A r \in Roles : Cardinality(OfRole(childs, r)) + Due(r) <= Need[r]
  /\ ~garbled /\ starting =>
       \A k \in 1 .. Len(Order) : k > at => OfRole(childs, Order[k]) = {}

\* What a smaller list and a longer one count.
LEMMA OfRoleFinite ==
  ASSUME NEW S, IsFiniteSet(S), NEW r
  PROVE  IsFiniteSet(OfRole(S, r)) /\ Cardinality(OfRole(S, r)) \in Nat
<1>1. OfRole(S, r) \subseteq S
  BY DEF OfRole
<1> QED BY <1>1, FS_Subset, FS_CardinalityType

LEMMA OfRoleSubset ==
  ASSUME NEW S, IsFiniteSet(S), NEW U \in SUBSET S, NEW r
  PROVE  Cardinality(OfRole(U, r)) <= Cardinality(OfRole(S, r))
<1>1. OfRole(U, r) \subseteq OfRole(S, r)
  BY DEF OfRole
<1> QED BY <1>1, OfRoleFinite, FS_Subset

LEMMA OfRoleAdd ==
  ASSUME NEW S, IsFiniteSet(S), NEW c, NEW r
  PROVE  /\ Cardinality(OfRole(S \cup {c}, r)) <= Cardinality(OfRole(S, r)) + 1
         /\ c.child_role # r => OfRole(S \cup {c}, r) = OfRole(S, r)
<1>1. OfRole(S \cup {c}, r) = IF c.child_role = r THEN OfRole(S, r) \cup {c} ELSE OfRole(S, r)
  BY DEF OfRole
<1>2. Cardinality(OfRole(S, r) \cup {c}) \in
        {Cardinality(OfRole(S, r)), Cardinality(OfRole(S, r)) + 1}
  BY OfRoleFinite, FS_AddElement
<1>3. Cardinality(OfRole(S, r)) \in Nat
  BY OfRoleFinite
<1> QED BY <1>1, <1>2, <1>3

\* SP goes on to the next role: nothing is due for the one it leaves.
LEMMA NextRoleCount ==
  ASSUME TypeOK, CountInv, NextRole, pc \in {"walk", "reset"},
         UNCHANGED <<childs, new, garbled>>
  PROVE  CountInv'
<1>1. Len(Order) \in Nat /\ at \in 1 .. Len(Order) /\ IsFiniteSet(childs)
  BY OrderFacts DEF TypeOK
<1>2. lost' = FALSE /\ pc' \in {"poll", "walk", "fork"} /\ pc' # "insert"
  BY DEF NextRole
<1>3. ASSUME NEW r \in Roles, ~garbled PROVE Cardinality(OfRole(childs, r)) <= Need[r]
  <2>1. Due(r) = 0
    BY DEF Due
  <2>2. Cardinality(OfRole(childs, r)) \in Nat
    BY <1>1, OfRoleFinite
  <2> QED BY <1>3, <2>1, <2>2 DEF CountInv
<1>4. CASE at < Len(Order) /\ starting
  <2>1. at' = at + 1 /\ pc' = "fork" /\ togo' = Need[Order[at + 1]] /\ starting'
    BY <1>4 DEF NextRole
  <2>2. at' \in 1 .. Len(Order) /\ Order[at'] \in Roles /\ Need[Order[at']] \in Nat
    BY <1>1, <1>4, <2>1, NeedAssumption DEF Roles
  <2>3. ASSUME ~garbled, NEW r \in Roles
        PROVE  Cardinality(OfRole(childs', r)) + Due(r)' <= Need[r]
    <3>1. CASE r = Order[at']
      <4>1. OfRole(childs, r) = {}
        BY <1>1, <1>4, <2>1, <2>2, <2>3, <3>1 DEF CountInv
      <4>2. Cardinality(OfRole(childs, r)) = 0
        BY <4>1, FS_EmptySet
      <4>3. Due(r)' = Need[r]
        BY <2>1, <3>1 DEF Due, Role
      <4> QED BY <2>2, <3>1, <4>2, <4>3
    <3>2. CASE r # Order[at']
      <4>1. Due(r)' = 0
        BY <3>2 DEF Due, Role
      <4>2. Cardinality(OfRole(childs, r)) \in Nat
        BY <1>1, OfRoleFinite
      <4> QED BY <1>3, <2>3, <4>1, <4>2
    <3> QED BY <3>1, <3>2
  <2>4. ASSUME ~garbled, NEW k \in 1 .. Len(Order), k > at' PROVE OfRole(childs', Order[k]) = {}
    <3>1. k > at
      BY <1>1, <2>1, <2>4
    <3> QED BY <1>4, <2>4, <3>1 DEF CountInv
  <2> QED BY <1>2, <2>1, <2>3, <2>4 DEF CountInv
<1>5. CASE ~(at < Len(Order) /\ starting)
  <2>1. pc' \in {"poll", "walk"} /\ ~starting'
    BY <1>5 DEF NextRole
  <2>2. ASSUME ~garbled, NEW r \in Roles
        PROVE  Cardinality(OfRole(childs', r)) + Due(r)' <= Need[r]
    <3>1. Due(r)' = 0
      BY <2>1 DEF Due
    <3>2. Cardinality(OfRole(childs, r)) \in Nat
      BY <1>1, OfRoleFinite
    <3> QED BY <1>3, <2>2, <3>1, <3>2
  <2> QED BY <1>2, <2>1, <2>2 DEF CountInv
<1> QED BY <1>4, <1>5

LEMMA CountStep == TypeOK /\ TypeOK' /\ CountInv /\ [Next]_vars => CountInv'
<1> SUFFICES ASSUME TypeOK, TypeOK', CountInv, [Next]_vars PROVE CountInv'
  OBVIOUS
<1>f. IsFiniteSet(childs) /\ IsFiniteSet(childs')
  BY DEF TypeOK
\* Steps that neither count nor fork.
<1>0. ASSUME UNCHANGED <<pc, at, togo, new, starting>>, childs' \subseteq childs,
             garbled => garbled', pc = "walk" /\ lost' => garbled'
      PROVE  CountInv'
  <2>1. ASSUME ~garbled', NEW r \in Roles
        PROVE  Cardinality(OfRole(childs', r)) + Due(r)' <= Need[r]
    <3>1. Due(r)' = Due(r) /\ Due(r) \in Nat
      BY <1>0 DEF Due, Role, TypeOK
    <3>2. Cardinality(OfRole(childs', r)) <= Cardinality(OfRole(childs, r))
      BY <1>0, <1>f, OfRoleSubset
    <3>3. Cardinality(OfRole(childs, r)) + Due(r) <= Need[r]
      BY <1>0, <2>1 DEF CountInv
    <3>4. Cardinality(OfRole(childs', r)) \in Nat /\ Cardinality(OfRole(childs, r)) \in Nat
          /\ Need[r] \in Nat
      BY <1>f, OfRoleFinite, NeedAssumption
    <3> QED BY <3>1, <3>2, <3>3, <3>4
  <2>2. ASSUME ~garbled', starting', NEW k \in 1 .. Len(Order), k > at'
        PROVE  OfRole(childs', Order[k]) = {}
    <3>1. OfRole(childs, Order[k]) = {}
      BY <1>0, <2>2 DEF CountInv
    <3> QED BY <1>0, <3>1 DEF OfRole
  <2> QED BY <1>0, <2>1, <2>2 DEF CountInv, Role
<1>1. ASSUME NEW c \in running, Die(c) PROVE CountInv'
  <2>1. UNCHANGED <<childs, pc, at, togo, new, starting, lost, garbled>>
    BY <1>1 DEF Die
  <2> QED BY <1>0, <2>1 DEF CountInv
<1>2. CASE mySIGHUPHandler
  <2>1. UNCHANGED <<childs, pc, at, togo, new, starting, lost, garbled>>
    BY <1>2 DEF mySIGHUPHandler
  <2> QED BY <1>0, <2>1 DEF CountInv
<1>3. CASE mySIGCHLDHandler
  <2>1. UNCHANGED <<pc, at, togo, new, starting>> /\ childs' \subseteq childs
    BY <1>3 DEF mySIGCHLDHandler
  <2>2. garbled' = (garbled \/ pc = "walk")
    BY <1>3 DEF mySIGCHLDHandler, Interrupt
  <2> QED BY <1>0, <2>1, <2>2
<1>4. CASE prchilds_check
  <2>1. pc = "poll" /\ pc' = "walk" /\ lost' = FALSE /\ UNCHANGED <<childs, starting, garbled>>
    BY <1>4 DEF prchilds_check
  <2>2. ASSUME ~garbled, NEW r \in Roles
        PROVE  Cardinality(OfRole(childs', r)) + Due(r)' <= Need[r]
    <3>1. Due(r) = 0 /\ Due(r)' = 0
      BY <2>1 DEF Due
    <3> QED BY <2>1, <2>2, <3>1 DEF CountInv
  <2>3. ~starting'
    BY <2>1 DEF CountInv
  <2> QED BY <2>1, <2>2, <2>3 DEF CountInv
<1>5. CASE childs_num
  <2>1. pc = "walk" /\ UNCHANGED <<childs, new, garbled>> /\ ~starting
    BY <1>5 DEF childs_num, CountInv
  <2>2. PICK cnum \in Counts :
          IF cnum < Need[Role]
            THEN pc' = "fork" /\ togo' = Need[Role] - cnum /\ UNCHANGED <<at, starting, lost>>
            ELSE NextRole
    BY <1>5 DEF childs_num
  <2>3. CASE cnum < Need[Role]
    <3>1. pc' = "fork" /\ togo' = Need[Role] - cnum /\ UNCHANGED <<at, starting, lost>>
      BY <2>2, <2>3
    <3>2. ASSUME ~garbled, NEW r \in Roles
          PROVE  Cardinality(OfRole(childs', r)) + Due(r)' <= Need[r]
      <4>1. Cardinality(OfRole(childs, r)) \in Nat /\ Need[r] \in Nat
        BY <1>f, OfRoleFinite, NeedAssumption
      <4>2. CASE r = Role
        <5>1. Counts = {Cardinality(OfRole(childs, Role))}
          BY <2>1, <3>2 DEF Counts, CountInv
        <5>2. cnum = Cardinality(OfRole(childs, r))
          BY <4>2, <5>1
        <5>3. Due(r)' = Need[r] - cnum
          BY <3>1, <4>2 DEF Due, Role
        <5> QED BY <2>1, <4>1, <5>2, <5>3
      <4>3. CASE r # Role
        <5>1. Due(r)' = 0 /\ Due(r) = 0
          BY <2>1, <3>1, <4>3 DEF Due, Role
        <5> QED BY <2>1, <3>2, <4>1, <5>1 DEF CountInv
      <4> QED BY <4>2, <4>3
    <3> QED BY <2>1, <3>1, <3>2 DEF CountInv
  <2>4. CASE ~(cnum < Need[Role])
    BY <2>1, <2>2, <2>4, NextRoleCount
  <2> QED BY <2>3, <2>4
<1>6. CASE fork_child
  <2>1. pc = "fork" /\ pc' = "insert" /\ new'.child_role = Role
        /\ UNCHANGED <<childs, at, togo, starting, lost, garbled>>
    BY <1>6 DEF fork_child
  <2>2. \A r : Due(r)' = Due(r)
    BY <2>1 DEF Due, Role
  <2> QED BY <2>1, <2>2 DEF CountInv, Role
<1>7. CASE child_insert
  <2>1. /\ pc = "insert" /\ childs' = childs \cup {new} /\ togo' = togo - 1
        /\ pc' = (IF togo > 1 THEN "fork" ELSE "reset") /\ pc' \in {"fork", "reset"}
        /\ UNCHANGED <<at, starting, lost, garbled>>
    BY <1>7 DEF child_insert
  <2>2. new.child_role = Role /\ togo \in Nat /\ togo > 0
    BY <2>1 DEF CountInv, TypeOK
  <2>3. ASSUME ~garbled, NEW r \in Roles
        PROVE  Cardinality(OfRole(childs', r)) + Due(r)' <= Need[r]
    <3>1. Cardinality(OfRole(childs, r)) \in Nat /\ Cardinality(OfRole(childs', r)) \in Nat
          /\ Need[r] \in Nat
      BY <1>f, OfRoleFinite, NeedAssumption
    <3>2. Cardinality(OfRole(childs, r)) + Due(r) <= Need[r]
      BY <2>3 DEF CountInv
    <3>3. CASE r = Role
      <4>1. Due(r) = togo /\ Due(r)' = togo - 1
        BY <2>1, <2>2, <3>3 DEF Due, Role
      <4>2. Cardinality(OfRole(childs', r)) <= Cardinality(OfRole(childs, r)) + 1
        BY <1>f, <2>1, OfRoleAdd
      <4> QED BY <2>2, <3>1, <3>2, <4>1, <4>2
    <3>4. CASE r # Role
      <4>1. Due(r) = 0 /\ Due(r)' = 0
        BY <2>1, <3>4 DEF Due, Role
      <4>2. OfRole(childs', r) = OfRole(childs, r)
        BY <1>f, <2>1, <2>2, <3>4, OfRoleAdd
      <4> QED BY <3>2, <4>1, <4>2
    <3> QED BY <3>3, <3>4
  <2>4. ASSUME ~garbled, starting, NEW k \in 1 .. Len(Order), k > at
        PROVE  OfRole(childs', Order[k]) = {}
    <3>1. OfRole(childs, Order[k]) = {}
      BY <2>4 DEF CountInv
    <3>2. Order[k] # Role
      BY <2>4, OrderAssumption DEF Role, TypeOK
    <3> QED BY <1>f, <2>1, <2>2, <3>1, <3>2, OfRoleAdd
  <2> QED BY <2>1, <2>3, <2>4 DEF CountInv
<1>8. CASE reset
  <2>1. pc = "reset" /\ NextRole /\ UNCHANGED <<childs, new, garbled>>
    BY <1>8 DEF reset
  <2> QED BY <2>1, NextRoleCount
<1>9. CASE UNCHANGED vars
  <2>1. UNCHANGED <<childs, pc, at, togo, new, starting, lost, garbled>>
    BY <1>9 DEF vars
  <2> QED BY <1>0, <2>1 DEF CountInv
<1> QED BY <1>1, <1>2, <1>3, <1>4, <1>5, <1>6, <1>7, <1>8, <1>9 DEF Next, SPStep

LEMMA CountInit == Init => CountInv
<1> SUFFICES ASSUME Init PROVE CountInv
  OBVIOUS
<1>1. childs = {} /\ pc = "fork" /\ at = 1 /\ togo = Need[Order[1]]
  BY DEF Init
<1>2. \A r : OfRole(childs, r) = {}
  BY <1>1 DEF OfRole
<1>3. ASSUME NEW r \in Roles PROVE Cardinality(OfRole(childs, r)) + Due(r) <= Need[r]
  <2>1. Cardinality(OfRole(childs, r)) = 0 /\ Need[r] \in Nat
    BY <1>2, FS_EmptySet, NeedAssumption
  <2>2. Due(r) \in {0, Need[r]}
    BY <1>1 DEF Due, Role
  <2> QED BY <2>1, <2>2
<1> QED BY <1>1, <1>2, <1>3 DEF CountInv

LEMMA NotTooMany == TypeOK /\ ListedOrNew /\ CountInv => NeverTooMany
<1> SUFFICES ASSUME TypeOK, ListedOrNew, CountInv, ~garbled, NEW r \in Roles
             PROVE  Cardinality(OfRole(running, r)) <= Need[r]
  BY DEF NeverTooMany
<1>1. IsFiniteSet(childs) /\ IsFiniteSet(childs \cup {new})
  BY FS_AddElement DEF TypeOK
<1>2. Cardinality(OfRole(childs, r)) \in Nat /\ Need[r] \in Nat
  BY <1>1, OfRoleFinite, NeedAssumption
<1>3. Cardinality(OfRole(childs, r)) + Due(r) <= Need[r]
  BY DEF CountInv
<1>4. CASE pc = "insert"
  <2>1. running \subseteq childs \cup {new} /\ new.child_role = Role /\ togo \in Nat /\ togo > 0
    BY <1>4 DEF ListedOrNew, CountInv, TypeOK
  <2>2. Cardinality(OfRole(running, r)) <= Cardinality(OfRole(childs \cup {new}, r))
    BY <1>1, <2>1, OfRoleSubset
  <2>3. Cardinality(OfRole(running, r)) \in Nat
    BY <1>1, <2>1, FS_Subset, OfRoleFinite
  <2>4. CASE r = Role
    <3>1. Due(r) = togo
      BY <1>4, <2>4 DEF Due
    <3>2. Cardinality(OfRole(childs \cup {new}, r)) <= Cardinality(OfRole(childs, r)) + 1
      BY <1>1, OfRoleAdd
    <3>3. Cardinality(OfRole(childs \cup {new}, r)) \in Nat
      BY <1>1, OfRoleFinite
    <3> QED BY <1>2, <1>3, <2>1, <2>2, <2>3, <3>1, <3>2, <3>3
  <2>5. CASE r # Role
    <3>1. Due(r) = 0
      BY <2>5 DEF Due
    <3>2. OfRole(childs \cup {new}, r) = OfRole(childs, r)
      BY <1>1, <2>1, <2>5, OfRoleAdd
    <3> QED BY <1>2, <1>3, <2>2, <2>3, <3>1, <3>2
  <2> QED BY <2>4, <2>5
<1>5. CASE pc # "insert"
  <2>1. running \subseteq childs
    BY <1>5 DEF ListedOrNew
  <2>2. Cardinality(OfRole(running, r)) <= Cardinality(OfRole(childs, r))
    BY <1>1, <2>1, OfRoleSubset
  <2>3. Cardinality(OfRole(running, r)) \in Nat
    BY <1>1, <2>1, FS_Subset, OfRoleFinite
  <2>4. Due(r) \in Nat
    BY DEF Due, TypeOK
  <2> QED BY <1>2, <1>3, <2>2, <2>3, <2>4
<1> QED BY <1>4, <1>5

\* For any configuration, no role ever has more children than configured, unless a
\* signal came in the middle of a walk over the list.
THEOREM NoMoreThanConfigured == Spec => []NeverTooMany
<1>1. Spec => []CountInv
  BY TypeCorrect, CountInit, CountStep, PTL DEF Spec
<1> QED BY <1>1, TypeCorrect, NoneUnlisted, NotTooMany, PTL

----------------------------------------------------------------------------
(* What is missing. *)

\* The roles SP has been through: all of them between two checks.
Reached == IF pc = "poll" THEN Len(Order) ELSE IF pc = "walk" THEN at - 1 ELSE at
Filled(r) == r \in missed \/ Cardinality(OfRole(childs, r)) + Due(r) >= Need[r]

\* Strengthens ShortIsKnown: unless another check is requested, no list of a role SP has
\* been through is short, counting the children it is about to insert; a count the handler
\* spoiled is one of a role it has noted.
FilledInv ==
  /\ pc = "walk" /\ lost => Role \in missed
  /\ pc = "insert" => new \notin childs
  /\ \/ (starting \/ pc = "poll") /\ childs_check = 1
     \/ \A k \in 1 .. Len(Order) : k <= Reached => Filled(Order[k])

\* SP goes on with the next role, having found or forked all children of this one.
LEMMA NextRoleFilled ==
  ASSUME TypeOK, CountInv, NextRole, pc \in {"walk", "reset"},
         UNCHANGED <<childs, missed>>,
         (starting /\ childs_check' = 1) \/ \A k \in 1 .. Len(Order) : k <= at => Filled(Order[k])
  PROVE  FilledInv'
<1>1. /\ Len(Order) \in Nat /\ at \in 1 .. Len(Order) /\ at \in Nat /\ IsFiniteSet(childs)
      /\ \A r : Due(r) = 0
  BY OrderFacts DEF TypeOK, Due
<1>2. lost' = FALSE /\ pc' \in {"poll", "walk", "fork"}
  BY DEF NextRole
<1>3. CASE starting /\ childs_check' = 1
  BY <1>2, <1>3 DEF FilledInv, NextRole
<1>4. CASE \A k \in 1 .. Len(Order) : k <= at => Filled(Order[k])
  <2>1. CASE at < Len(Order) /\ starting
    <3>1. at' = at + 1 /\ pc' = "fork" /\ togo' = Need[Order[at + 1]] /\ at' \in 1 .. Len(Order)
      BY <1>1, <2>1 DEF NextRole
    <3>2. Order[at'] \in Roles /\ Need[Order[at']] \in Nat
      BY <3>1, NeedAssumption DEF Roles
    <3>3. ASSUME NEW k \in 1 .. Len(Order), k <= at' PROVE Filled(Order[k])'
      <4>1. Order[k] \in Roles /\ Need[Order[k]] \in Nat
        BY NeedAssumption DEF Roles
      <4>2. Cardinality(OfRole(childs, Order[k])) \in Nat
        BY <1>1, OfRoleFinite
      <4>3. CASE Order[k] = Order[at']
        <5>1. Due(Order[k])' = Need[Order[k]]
          BY <3>1, <4>3 DEF Due, Role
        <5> QED BY <4>1, <4>2, <5>1 DEF Filled
      <4>4. CASE Order[k] # Order[at']
        <5>1. k # at' /\ k <= at
          BY <1>1, <3>1, <3>3, <4>4
        <5>2. Filled(Order[k]) /\ Due(Order[k]) = 0 /\ Due(Order[k])' = 0
          BY <1>1, <1>4, <4>4, <5>1 DEF Due, Role
        <5> QED BY <5>2 DEF Filled
      <4> QED BY <4>3, <4>4
    <3>4. Reached' = at'
      BY <3>1 DEF Reached
    <3> QED BY <3>1, <3>3, <3>4 DEF FilledInv
  <2>2. CASE ~(at < Len(Order) /\ starting)
    <3>1. /\ pc' \in {"poll", "walk"}
          /\ pc' = "walk" => at' = at + 1
          /\ pc' = "poll" => at = Len(Order)
      BY <1>1, <2>2 DEF NextRole
    <3>2. Reached' = at
      BY <1>1, <3>1 DEF Reached
    <3>3. \A r : Due(r)' = 0
      BY <3>1 DEF Due
    <3>4. \A r : Filled(r) => Filled(r)'
      BY <1>1, <3>3 DEF Filled
    <3> QED BY <1>2, <1>4, <3>1, <3>2, <3>4 DEF FilledInv
  <2> QED BY <2>1, <2>2
<1> QED BY <1>3, <1>4

LEMMA FilledStep == TypeOK /\ CountInv /\ FilledInv /\ [Next]_vars => FilledInv'
<1> SUFFICES ASSUME TypeOK, CountInv, FilledInv, [Next]_vars PROVE FilledInv'
  OBVIOUS
<1>0. /\ Len(Order) \in Nat /\ at \in 1 .. Len(Order) /\ IsFiniteSet(childs)
      /\ togo \in Nat /\ npid \in Nat
  BY OrderFacts DEF TypeOK
\* Steps that change nothing that is counted.
<1>1. ASSUME UNCHANGED <<childs, pc, at, togo, new, starting, lost, missed, childs_check>>
      PROVE  FilledInv'
  <2>1. \A r : Filled(r) => Filled(r)'
    BY <1>1 DEF Filled, Due, Role
  <2> QED BY <1>1, <2>1 DEF FilledInv, Reached, Role
<1>2. ASSUME NEW c \in running, Die(c) PROVE FilledInv'
  BY <1>1, <1>2 DEF Die
<1>3. CASE mySIGHUPHandler
  BY <1>1, <1>3 DEF mySIGHUPHandler
<1>4. CASE mySIGCHLDHandler
  <2>1. /\ childs' = childs \ zombies /\ childs_check' = 1 /\ Interrupt
        /\ UNCHANGED <<pc, at, togo, new, starting>>
    BY <1>4 DEF mySIGCHLDHandler
  <2>2. CASE pc = "poll" \/ starting
    <3>1. pc # "walk"
      BY <2>2 DEF CountInv
    <3> QED BY <2>1, <2>2, <3>1 DEF FilledInv
  <2>3. CASE ~(pc = "poll" \/ starting)
    <3>1. missed' = missed \cup {Order[k] : k \in 1 .. at}
      BY <2>1, <2>3 DEF Interrupt
    <3>2. Reached <= at
      BY <1>0, <2>3 DEF Reached
    <3>3. ASSUME NEW k \in 1 .. Len(Order), k <= Reached' PROVE Filled(Order[k])'
      <4>1. Reached' = Reached /\ Reached \in Int
        BY <1>0, <2>1 DEF Reached
      <4>2. k \in 1 .. at
        BY <1>0, <3>2, <3>3, <4>1
      <4> QED BY <3>1, <4>2 DEF Filled
    <3>4. Role' \in missed'
      BY <1>0, <2>1, <3>1 DEF Role
    <3> QED BY <2>1, <3>3, <3>4 DEF FilledInv
  <2> QED BY <2>2, <2>3
<1>5. CASE prchilds_check
  <2>1. pc' = "walk" /\ at' = 1 /\ lost' = FALSE
    BY <1>5 DEF prchilds_check
  <2>2. Reached' = 0
    BY <2>1 DEF Reached
  <2> QED BY <2>1, <2>2 DEF FilledInv
<1>6. CASE childs_num
  <2>1. pc = "walk" /\ UNCHANGED <<childs, new, missed, childs_check>> /\ ~starting
    BY <1>6 DEF childs_num, CountInv
  <2>2. PICK cnum \in Counts :
          IF cnum < Need[Role]
            THEN pc' = "fork" /\ togo' = Need[Role] - cnum /\ UNCHANGED <<at, starting, lost>>
            ELSE NextRole
    BY <1>6 DEF childs_num
  <2>3. cnum \in Nat /\ Need[Role] \in Nat /\ Cardinality(OfRole(childs, Role)) \in Nat
    BY <1>0, CountsNat, RoleType, OfRoleFinite
  <2>4. Role \in missed \/ cnum = Cardinality(OfRole(childs, Role))
    BY <2>1 DEF FilledInv, Counts
  <2>5. \A r : Due(r) = 0
    BY <2>1 DEF Due
  <2>6. \A k \in 1 .. Len(Order) : k <= at - 1 => Filled(Order[k])
    BY <2>1 DEF FilledInv, Reached
  <2>7. CASE cnum < Need[Role]
    <3>1. pc' = "fork" /\ togo' = Need[Role] - cnum /\ UNCHANGED <<at, starting, lost>>
      BY <2>2, <2>7
    <3>2. Reached' = at /\ Role' = Role
      BY <3>1 DEF Reached, Role
    <3>3. Filled(Role)'
      <4>1. Due(Role)' = Need[Role] - cnum
        BY <3>1, <3>2 DEF Due
      <4> QED BY <2>1, <2>3, <2>4, <3>2, <4>1 DEF Filled
    <3>4. ASSUME NEW k \in 1 .. Len(Order), k <= at PROVE Filled(Order[k])'
      <4>1. CASE k = at
        BY <3>1, <3>3, <4>1 DEF Role
      <4>2. CASE k # at
        <5>1. Order[k] # Role
          BY <1>0, <4>2, OrderAssumption DEF Role
        <5>2. Due(Order[k])' = 0
          BY <3>2, <5>1 DEF Due
        <5>3. Filled(Order[k])
          BY <1>0, <2>6, <3>4, <4>2
        <5> QED BY <2>1, <2>5, <5>2, <5>3 DEF Filled
      <4> QED BY <4>1, <4>2
    <3> QED BY <3>1, <3>2, <3>4 DEF FilledInv
  <2>8. CASE ~(cnum < Need[Role])
    <3>1. Filled(Role)
      BY <2>3, <2>4, <2>5, <2>8 DEF Filled
    <3>2. \A k \in 1 .. Len(Order) : k <= at => Filled(Order[k])
      BY <1>0, <2>6, <3>1 DEF Role
    <3> QED BY <2>1, <2>2, <2>8, <3>2, NextRoleFilled
  <2> QED BY <2>7, <2>8
<1>7. CASE fork_child
  <2>1. /\ pc = "fork" /\ pc' = "insert" /\ new'.child_pid = npid + 1
        /\ UNCHANGED <<childs, at, togo, starting, lost, missed, childs_check>>
    BY <1>7 DEF fork_child
  <2>2. new' \notin childs
    BY <1>0, <2>1 DEF TypeOK, Children
  <2>3. Reached' = Reached /\ \A r : Filled(r) => Filled(r)'
    BY <2>1 DEF Reached, Filled, Due, Role
  <2> QED BY <2>1, <2>2, <2>3 DEF FilledInv
<1>8. CASE child_insert
  <2>1. /\ pc = "insert" /\ childs' = childs \cup {new} /\ togo' = togo - 1
        /\ pc' = (IF togo > 1 THEN "fork" ELSE "reset") /\ pc' \in {"fork", "reset"}
        /\ UNCHANGED <<at, starting, lost, missed, childs_check>>
    BY <1>8 DEF child_insert
  <2>2. new.child_role = Role /\ togo > 0 /\ new \notin childs
    BY <2>1 DEF CountInv, FilledInv, TypeOK
  <2>3. ASSUME NEW k \in 1 .. Len(Order), Filled(Order[k]) PROVE Filled(Order[k])'
    <3> DEFINE r == Order[k]
    <3>1. Cardinality(OfRole(childs, r)) \in Nat /\ Need[r] \in Nat
      BY <1>0, OfRoleFinite, NeedAssumption DEF Roles
    <3>2. CASE r = Role
      <4>1. OfRole(childs', r) = OfRole(childs, r) \cup {new} /\ new \notin OfRole(childs, r)
        BY <2>1, <2>2, <3>2 DEF OfRole
      <4>2. Cardinality(OfRole(childs', r)) = Cardinality(OfRole(childs, r)) + 1
        BY <1>0, <4>1, OfRoleFinite, FS_AddElement
      <4>3. Due(r) = togo /\ Due(r)' = togo - 1
        BY <1>0, <2>1, <2>2, <3>2 DEF Due, Role
      <4> HIDE DEF r
      <4> QED BY <1>0, <2>1, <2>3, <3>1, <4>2, <4>3 DEF Filled, r
    <3>3. CASE r # Role
      <4>1. OfRole(childs', r) = OfRole(childs, r)
        BY <1>0, <2>1, <2>2, <3>3, OfRoleAdd
      <4>2. Due(r) = 0 /\ Due(r)' = 0
        BY <2>1, <3>3 DEF Due, Role
      <4> QED BY <2>1, <2>3, <4>1, <4>2 DEF Filled
    <3> QED BY <3>2, <3>3
  <2>4. Reached' = Reached
    BY <2>1 DEF Reached
  <2> QED BY <2>1, <2>3, <2>4 DEF FilledInv
<1>9. CASE reset
  <2>1. /\ pc = "reset" /\ NextRole /\ UNCHANGED <<childs, new, missed>>
        /\ childs_check' = IF starting THEN childs_check ELSE 0
    BY <1>9 DEF reset
  <2>2. (starting /\ childs_check = 1) \/ \A k \in 1 .. Len(Order) : k <= at => Filled(Order[k])
    BY <2>1 DEF FilledInv, Reached
  <2> QED BY <2>1, <2>2, NextRoleFilled
<1>10. CASE UNCHANGED vars
  BY <1>1, <1>10 DEF vars
<1> QED BY <1>2, <1>3, <1>4, <1>5, <1>6, <1>7, <1>8, <1>9, <1>10 DEF Next, SPStep

LEMMA FilledInit == Init => FilledInv
<1> SUFFICES ASSUME Init PROVE FilledInv
  OBVIOUS
<1>1. childs = {} /\ pc = "fork" /\ at = 1 /\ togo = Need[Order[1]]
  BY DEF Init
<1>2. ASSUME NEW k \in 1 .. Len(Order), k <= Reached PROVE Filled(Order[k])
  <2>1. k = 1 /\ Order[1] \in Roles /\ Need[Order[1]] \in Nat
    BY <1>1, <1>2, OrderFacts, NeedAssumption DEF Reached, Roles
  <2>2. OfRole(childs, Order[1]) = {}
    BY <1>1 DEF OfRole
  <2>3. Cardinality(OfRole(childs, Order[1])) = 0 /\ Due(Order[1]) = Need[Order[1]]
    BY <1>1, <2>2, FS_EmptySet DEF Due, Role
  <2> QED BY <2>1, <2>3 DEF Filled
<1> QED BY <1>1, <1>2 DEF FilledInv

LEMMA KnownShort == TypeOK /\ ListedOrNew /\ FilledInv => ShortIsKnown
<1> SUFFICES ASSUME TypeOK, ListedOrNew, FilledInv, Idle, NEW r \in Roles, Short(r),
                    r \notin missed
             PROVE  OfRole(Phantoms, r) # {}
  BY DEF ShortIsKnown
<1>1. PICK k \in 1 .. Len(Order) : r = Order[k]
  BY DEF Roles
<1>2. pc = "poll" /\ childs_check = 0 /\ zombies = {} /\ running \subseteq childs
  BY DEF Idle, ListedOrNew
<1>3. IsFiniteSet(childs) /\ IsFiniteSet(running)
  BY <1>2, FS_Subset DEF TypeOK
<1>4. /\ Cardinality(OfRole(childs, r)) \in Nat /\ Cardinality(OfRole(running, r)) \in Nat
      /\ Need[r] \in Nat
  BY <1>3, OfRoleFinite, NeedAssumption
<1>5. Cardinality(OfRole(childs, r)) >= Need[r]
  <2>1. k <= Reached /\ Due(r) = 0
    BY <1>2, OrderFacts DEF Reached, Due
  <2>2. Filled(r)
    BY <1>1, <1>2, <2>1 DEF FilledInv
  <2> QED BY <1>4, <2>1, <2>2 DEF Filled
<1>6. ~(OfRole(childs, r) = OfRole(running, r))
  BY <1>4, <1>5 DEF Short
<1> QED BY <1>2, <1>6 DEF OfRole, Phantoms

\* For any configuration: when SP has nothing left to check and a role is short of
\* children, then a signal came in the middle of the check, after the role was counted,
\* or the list holds a record of no process.
THEOREM ShortForKnownReasons == Spec => []ShortIsKnown
<1>1. Spec => []CountInv
  BY TypeCorrect, CountInit, CountStep, PTL DEF Spec
<1>2. Spec => []FilledInv
  BY <1>1, TypeCorrect, FilledInit, FilledStep, PTL DEF Spec
<1> QED BY <1>2, TypeCorrect, NoneUnlisted, KnownShort, PTL

=============================================================================
