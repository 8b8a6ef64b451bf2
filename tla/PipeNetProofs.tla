--------------------------- MODULE PipeNetProofs ---------------------------
(***************************************************************************)
(* Proofs about PipeNet, for any number of packet processors and any       *)
(* capacity of the pipes.                                                  *)
(***************************************************************************)
EXTENDS PipeNet, TLAPS

\* Appending keeps the elements in their set.
LEMMA SeqFacts ==
  ASSUME NEW S, NEW s \in Seq(S)
  PROVE  /\ <<>> \in Seq(S)
         /\ \A d \in S : <<d>> \in Seq(S) /\ Append(s, d) \in Seq(S) /\ Len(Append(s, d)) = Len(s) + 1
         /\ \A t \in Seq(S) : s \o t \in Seq(S)
         /\ s # <<>> => Head(s) \in S /\ Tail(s) \in Seq(S) /\ Len(Tail(s)) = Len(s) - 1
         /\ Len(s) \in Nat
OBVIOUS

\* The plans of a packet processor and of EUser stay within what they write.
LEMMA PlansOfHandlers ==
  ASSUME NEW p \in PPs \cup {EU}
  PROVE  /\ Plans \subseteq Seq(Writes(p))
         /\ \A n \in Notes : <<UserEvent>> \o n \in Seq(Writes(p))
         /\ <<>> \in Seq(Writes(p)) /\ <<Fragment>> \in Seq(Writes(p))
<1> DEFINE W == Writes(p)
<1>1. {Confirmed, Reply, UserEvent, Fragment} \subseteq W
  <2>1. WritesTo(p) = {"toutgoing", "outgoing", "euser", "defrag"}
    BY ProcsAssumption DEF WritesTo
  <2>2. {Confirmed, Reply, UserEvent, Fragment} \subseteq Datagrams
    BY DEF Datagrams
  <2>3. \A d \in {Confirmed, Reply, UserEvent, Fragment} : d.to \in WritesTo(p)
    BY <2>1 DEF Confirmed, Reply, UserEvent, Fragment
  <2> QED BY <2>2, <2>3 DEF Writes
<1> HIDE DEF W
<1>2. /\ <<>> \in Seq(W) /\ <<Confirmed>> \in Seq(W) /\ <<Reply>> \in Seq(W)
      /\ <<UserEvent>> \in Seq(W) /\ <<Fragment>> \in Seq(W)
  BY <1>1, SeqFacts
<1>3. Notes \subseteq Seq(W)
  BY <1>2 DEF Notes
<1>4. \A n \in Notes : <<UserEvent>> \o n \in Seq(W)
  BY <1>2, <1>3, SeqFacts
<1> DEFINE Triples == {<<>>, <<UserEvent>>} \X Notes \X {<<>>, <<Reply>>}
<1>5. ASSUME NEW t \in Triples PROVE t[1] \o t[2] \o t[3] \in Seq(W)
  <2>1. t[1] \in {<<>>, <<UserEvent>>} /\ t[2] \in Notes /\ t[3] \in {<<>>, <<Reply>>}
    OBVIOUS
  <2>2. t[1] \in Seq(W) /\ t[2] \in Seq(W) /\ t[3] \in Seq(W)
    BY <1>2, <1>3, <2>1
  <2>3. t[1] \o t[2] \in Seq(W)
    BY <2>2, SeqFacts
  <2> QED BY <2>2, <2>3, SeqFacts
<1>6. Plans \subseteq Seq(W)
  BY <1>2, <1>5 DEF Plans
<1> QED BY <1>2, <1>4, <1>6 DEF W

\* What a process may write is a datagram to one of the pipes.
LEMMA WritesAreDatagrams ==
  /\ \A p \in Procs : Writes(p) \subseteq Datagrams
  /\ \A d \in Datagrams : d.to \in Pipes
BY DEF Writes, Datagrams, Pipes, Request, Reply, Confirmed, AckEvent, UserEvent, Heartbeat,
       Fragment

\* A process that takes its next input keeps the types.
LEMMA TakeType ==
  ASSUME IInv, NEW p \in Procs, NEW q \in Pipes, NEW plans, Take(p, q, plans),
         plans \subseteq Seq(Writes(p)), beat' \in BOOLEAN
  PROVE  IInv'
<1>1. PICK plan \in plans : todo' = [todo EXCEPT ![p] = plan]
  BY DEF Take
<1>2. plan \in Seq(Writes(p)) /\ Seq(Writes(p)) \subseteq Seq(Datagrams)
  BY WritesAreDatagrams
<1>3. pipe[q] \in Seq(Datagrams) /\ pipe[q] # <<>> /\ Len(pipe[q]) <= Capacity
  BY DEF IInv, TypeOK, OwnPipes, Take
<1>4. Tail(pipe[q]) \in Seq(Datagrams) /\ Len(Tail(pipe[q])) <= Capacity
  BY <1>3, SeqFacts, CapacityAssumption
<1>5. pipe' = [pipe EXCEPT ![q] = Tail(pipe[q])]
  BY DEF Take
<1> HIDE DEF Take
<1>6. pipe' \in [Pipes -> Seq(Datagrams)] /\ \A r \in Pipes : Len(pipe'[r]) <= Capacity
  BY <1>4, <1>5 DEF IInv, TypeOK, OwnPipes
<1>7. todo' \in [Procs -> Seq(Datagrams)] /\ \A r \in Procs : todo'[r] \in Seq(Writes(r))
  BY <1>1, <1>2 DEF IInv, TypeOK, OwnPipes
<1> QED BY <1>6, <1>7 DEF IInv, TypeOK, OwnPipes

\* A process that decides by itself what to write keeps the types.
LEMMA PlanType ==
  ASSUME IInv, NEW p \in Procs, NEW plan \in Seq(Writes(p)),
         todo' = [todo EXCEPT ![p] = plan], pipe' = pipe, beat' \in BOOLEAN
  PROVE  IInv'
<1>1. Seq(Writes(p)) \subseteq Seq(Datagrams)
  BY WritesAreDatagrams
<1> QED BY <1>1 DEF IInv, TypeOK, OwnPipes

\* sendto keeps the types: it waits while the pipe is full.
LEMMA SendType ==
  ASSUME IInv, NEW p \in Procs, Send(p)
  PROVE  IInv'
<1> DEFINE d == Head(todo[p])
<1>1. todo[p] \in Seq(Writes(p)) /\ todo[p] # <<>>
  BY DEF IInv, TypeOK, OwnPipes, Send
<1>2. d \in Writes(p) /\ Tail(todo[p]) \in Seq(Writes(p))
  BY <1>1, SeqFacts
<1>3. d \in Datagrams /\ d.to \in Pipes
  BY <1>2, WritesAreDatagrams
<1>4. pipe[d.to] \in Seq(Datagrams) /\ Len(pipe[d.to]) \in Nat
  BY <1>3 DEF IInv, TypeOK, OwnPipes
<1>5. ~(Len(pipe[d.to]) >= Capacity)
  BY DEF Send, Full
<1>6. Append(pipe[d.to], d) \in Seq(Datagrams) /\ Len(Append(pipe[d.to], d)) <= Capacity
  BY <1>3, <1>4, <1>5, CapacityAssumption
<1>7. pipe' = [pipe EXCEPT ![d.to] = Append(pipe[d.to], d)]
  BY DEF Send
<1>8. todo' = [todo EXCEPT ![p] = Tail(todo[p])] /\ beat' = beat
  BY DEF Send
<1>9. Tail(todo[p]) \in Seq(Datagrams)
  BY <1>2, WritesAreDatagrams
<1> HIDE DEF d
<1>10. pipe' \in [Pipes -> Seq(Datagrams)] /\ \A r \in Pipes : Len(pipe'[r]) <= Capacity
  BY <1>3, <1>6, <1>7 DEF IInv, TypeOK, OwnPipes
<1>11. todo' \in [Procs -> Seq(Datagrams)] /\ \A r \in Procs : todo'[r] \in Seq(Writes(r))
  BY <1>2, <1>8, <1>9 DEF IInv, TypeOK, OwnPipes
<1> QED BY <1>8, <1>10, <1>11 DEF IInv, TypeOK, OwnPipes

\* The plans of the other processes.
LEMMA OtherPlans ==
  /\ <<Request>> \in Seq(Writes(SP)) /\ <<AckEvent>> \in Seq(Writes(SP))
  /\ <<>> \in Seq(Writes(SP))
  /\ <<>> \in Seq(Writes(EP))
  /\ <<Heartbeat, AckEvent>> \in Seq(Writes(ET))
  /\ <<Request>> \in Seq(Writes(DF)) /\ <<>> \in Seq(Writes(DF))
<1>1. Request \in Writes(SP) /\ AckEvent \in Writes(SP)
  BY ProcsAssumption DEF Writes, WritesTo, Datagrams, Request, AckEvent
<1>2. Heartbeat \in Writes(ET) /\ AckEvent \in Writes(ET)
  BY ProcsAssumption DEF Writes, WritesTo, Datagrams, Heartbeat, AckEvent
<1>3. Request \in Writes(DF)
  BY ProcsAssumption DEF Writes, WritesTo, Datagrams, Request
<1> QED BY <1>1, <1>2, <1>3

\* Every step keeps the types.
LEMMA TypeStep == IInv /\ [Next]_vars => IInv'
<1> SUFFICES ASSUME IInv, [Next]_vars PROVE IInv'
  OBVIOUS
<1>0. {SP, EP, EU, ET, DF} \subseteq Procs /\ PPs \subseteq Procs /\ beat \in BOOLEAN
  BY DEF Procs, IInv, TypeOK, OwnPipes
<1>1. ASSUME NEW p \in Procs, Send(p) PROVE IInv'
  BY <1>1, SendType
<1>2. CASE NetworkInput
  <2>1. PICK d \in {Request, AckEvent} : todo' = [todo EXCEPT ![SP] = <<d>>]
    BY <1>2 DEF NetworkInput
  <2>2. <<d>> \in Seq(Writes(SP))
    BY OtherPlans
  <2>3. pipe' = pipe /\ beat' = beat
    BY <1>2 DEF NetworkInput
  <2> QED BY <1>0, <2>1, <2>2, <2>3, PlanType
<1>3. CASE tog_process
  <2>1. Take(SP, "toutgoing", {<<>>, <<Request>>}) /\ beat' = beat
    BY <1>3 DEF tog_process
  <2>2. {<<>>, <<Request>>} \subseteq Seq(Writes(SP)) /\ "toutgoing" \in Pipes
    BY OtherPlans DEF Pipes
  <2> QED BY <1>0, <2>1, <2>2, TakeType
<1>4. ASSUME NEW p \in PPs, process_packet(p) PROVE IInv'
  <2>1. Take(p, "incoming", Plans) /\ beat' = beat
    BY <1>4 DEF process_packet
  <2>2. Plans \subseteq Seq(Writes(p)) /\ "incoming" \in Pipes
    BY PlansOfHandlers DEF Pipes
  <2> QED BY <1>0, <2>1, <2>2, TakeType
<1>5. ASSUME NEW q \in {"outgoing", "epacket"}, process_epacket(q) PROVE IInv'
  <2>1. Take(EP, q, {<<>>}) /\ beat' = beat
    BY <1>5 DEF process_epacket
  <2>2. {<<>>} \subseteq Seq(Writes(EP)) /\ q \in Pipes
    BY OtherPlans DEF Pipes
  <2> QED BY <1>0, <2>1, <2>2, TakeType
<1>6. CASE etimerSIGALRMHandler
  BY <1>0, <1>6, OtherPlans, PlanType DEF etimerSIGALRMHandler
<1>7. CASE process_defrag
  <2>1. Take(DF, "defrag", {<<>>, <<Request>>}) /\ beat' = beat
    BY <1>7 DEF process_defrag
  <2>2. {<<>>, <<Request>>} \subseteq Seq(Writes(DF)) /\ "defrag" \in Pipes
    BY OtherPlans DEF Pipes
  <2> QED BY <1>0, <2>1, <2>2, TakeType
<1>8. CASE euser_process_event
  <2>1. Take(EU, "euser", {<<>>}) /\ beat' \in BOOLEAN
    BY <1>8 DEF euser_process_event
  <2>2. {<<>>} \subseteq Seq(Writes(EU)) /\ "euser" \in Pipes
    BY PlansOfHandlers DEF Pipes
  <2> QED BY <1>0, <2>1, <2>2, TakeType
<1>9. CASE move_user_offline
  BY <1>0, <1>9, PlansOfHandlers, PlanType DEF move_user_offline
<1>10. CASE scheduler_timer
  BY <1>0, <1>10, PlansOfHandlers, PlanType DEF scheduler_timer
<1>11. CASE UNCHANGED vars
  BY <1>11 DEF vars, IInv, TypeOK, OwnPipes
<1> QED BY <1>1, <1>2, <1>3, <1>4, <1>5, <1>6, <1>7, <1>8, <1>9, <1>10, <1>11 DEF Next

\* Types hold at the start.
LEMMA TypeInit == Init => IInv
<1>1. Len(<<>>) = 0 /\ <<>> \in Seq(Datagrams) /\ \A p \in Procs : <<>> \in Seq(Writes(p))
  OBVIOUS
<1>2. ASSUME Init PROVE \A q \in Pipes : pipe[q] = <<>> /\ Len(pipe[q]) <= Capacity
  BY <1>1, <1>2, CapacityAssumption DEF Init
<1>3. ASSUME Init PROVE pipe \in [Pipes -> Seq(Datagrams)]
  BY <1>1, <1>3 DEF Init
<1>4. ASSUME Init PROVE todo \in [Procs -> Seq(Datagrams)] /\ \A p \in Procs : todo[p] \in Seq(Writes(p))
  BY <1>1, <1>4 DEF Init
<1> QED BY <1>2, <1>3, <1>4 DEF Init, IInv, TypeOK, OwnPipes

\* The pipes and what is still to be written keep their types.
LEMMA Invariance == Spec => []IInv
BY TypeInit, TypeStep, PTL DEF Spec

\* Type correctness, for every number of packet processors: no pipe is ever over its
\* capacity.
THEOREM TypeCorrect == Spec => []TypeOK
<1>1. IInv => TypeOK
  BY DEF IInv
<1> QED BY <1>1, Invariance, PTL

\* The pipe a process waits for is one of those it writes to.
LEMMA WaitsForOwn ==
  ASSUME IInv, NEW p \in Procs, NEW q, WaitsFor(p, q)
  PROVE  q \in WritesTo(p)
<1>1. Head(todo[p]) \in Writes(p)
  BY SeqFacts DEF IInv, TypeOK, OwnPipes, WaitsFor
<1> QED BY <1>1 DEF WaitsFor, Writes

\* In a frozen set, someone waits for room in the incoming pipe, or EUser waits for
\* itself: follow who waits for whom.
LEMMA FreezeCauses == IInv => FreezesOnlyHere
<1> SUFFICES ASSUME IInv, NEW D \in SUBSET Procs, Dead(D), D # {},
                    ~(EU \in D /\ WaitsFor(EU, "euser"))
             PROVE  PPs \subseteq D /\ \E w \in {SP, DF} \cap D : WaitsFor(w, "incoming")
  BY DEF FreezesOnlyHere, Waiting
<1>1. ASSUME NEW p \in D
      PROVE  \E q \in WritesTo(p) : q \in Pipes /\ WaitsFor(p, q) /\ Readers(q) \subseteq D
  BY WaitsForOwn DEF Dead
<1>2. EP \notin D
  BY <1>1, ProcsAssumption DEF WritesTo
<1>3. ASSUME NEW q \in Pipes, Readers(q) \subseteq D PROVE q \notin {"outgoing", "epacket"}
  BY <1>2, <1>3 DEF Readers
<1>4. \A q \in Pipes : /\ q = "incoming" => Readers(q) = PPs
                       /\ q = "toutgoing" => Readers(q) = {SP}
                       /\ q = "euser" => Readers(q) = {EU}
                       /\ q = "defrag" => Readers(q) = {DF}
  BY DEF Readers
<1> DEFINE Goal == PPs \subseteq D /\ \E w \in {SP, DF} \cap D : WaitsFor(w, "incoming")
<1>5. ASSUME SP \in D PROVE Goal
  <2>1. PICK q \in WritesTo(SP) : q \in Pipes /\ WaitsFor(SP, q) /\ Readers(q) \subseteq D
    BY <1>1, <1>5
  <2>2. q = "incoming"
    BY <1>3, <2>1, ProcsAssumption DEF WritesTo
  <2> QED BY <1>4, <1>5, <2>1, <2>2
<1>6. ASSUME DF \in D PROVE Goal
  <2>1. PICK q \in WritesTo(DF) : q \in Pipes /\ WaitsFor(DF, q) /\ Readers(q) \subseteq D
    BY <1>1, <1>6
  <2>2. q = "incoming"
    BY <1>3, <2>1, ProcsAssumption DEF WritesTo
  <2> QED BY <1>4, <1>6, <2>1, <2>2
<1>7. ASSUME EU \in D PROVE Goal
  <2>1. PICK q \in WritesTo(EU) : q \in Pipes /\ WaitsFor(EU, q) /\ Readers(q) \subseteq D
    BY <1>1, <1>7
  <2>2. q \in {"toutgoing", "defrag"}
    BY <1>3, <1>7, <2>1, ProcsAssumption DEF WritesTo
  <2> QED BY <1>4, <1>5, <1>6, <2>1, <2>2
<1>8. ASSUME NEW p \in D PROVE Goal
  <2>1. PICK q \in WritesTo(p) : q \in Pipes /\ WaitsFor(p, q) /\ Readers(q) \subseteq D
    BY <1>1, <1>8
  <2>2. CASE q = "incoming"
    <3>1. p \in {SP, DF}
      BY <1>2, <2>1, <2>2 DEF WritesTo, Procs
    <3> QED BY <1>5, <1>6, <3>1, <1>8
  <2>3. CASE q = "toutgoing"
    BY <1>4, <1>5, <2>1, <2>3
  <2>4. CASE q = "euser"
    BY <1>4, <1>7, <2>1, <2>4
  <2>5. CASE q = "defrag"
    BY <1>4, <1>6, <2>1, <2>5
  <2> QED BY <1>3, <2>1, <2>2, <2>3, <2>4, <2>5 DEF Pipes
<1> QED BY <1>8

\* For every number of packet processors and every capacity: when a set of processes
\* can never move again, EUser waits for room in its own pipe, or all packet processors
\* are frozen together with a writer of the incoming pipe.  Removing those two waits
\* would keep the server from freezing.
THEOREM FreezeIsKnown == Spec => []FreezesOnlyHere
BY Invariance, FreezeCauses, PTL
=============================================================================
