----------------------------- MODULE Services_proofs -----------------------------
(***************************************************************************)
(* Proofs about the two services that devices meet at.  SignalingServer:   *)
(* for every set of peers and groups and every value of the limits.        *)
(* CloudGroups: for every finite set of devices and every set of users and *)
(* tokens.  The two share no state, and no proof uses both.                *)
(***************************************************************************)
EXTENDS SignalingServer, CloudGroups, FiniteSetTheorems, TLAPS

-----------------------------------------------------------------------------
(* SignalingServer: lemmas about its operators.                            *)

\* Iterating the map of a group yields a sequence of its peers in which
\* each of them occurs.
LEMMA OrdersAreSequences ==
    ASSUME NEW S \in SUBSET Peers, NEW s \in Orders(S)
    PROVE  /\ s \in Seq(S)
           /\ s \in Seq(Peers)
           /\ \A x \in S : \E i \in DOMAIN s : s[i] = x
<1>1. IsFiniteSet(S)
  BY PeersAssumption, FS_Subset
<1>2. Cardinality(S) \in Nat
  BY <1>1, FS_CardinalityType
<1>3. QED
  BY <1>2 DEF Orders

\* A client's list stays a set of described peers.
LEMMA ApplyType ==
    ASSUME NEW list \in SUBSET Described, NEW m \in Message
    PROVE  Apply(list, m) \in SUBSET Described
BY DEF Apply, Message

\* A send keeps the channels and the lists well-formed.
LEMMA SendType ==
    ASSUME TypeOK, NEW q \in Peers, NEW m \in Message, Send(q, m)
    PROVE  /\ channel' \in [Peers -> Seq(Message)]
           /\ roster' \in [Peers -> SUBSET Described]
<1>1. CASE RxOpen(q)
  <2>1. Apply(roster[q], m) \in SUBSET Described
    BY ApplyType DEF TypeOK
  <2>2. Append(channel[q], m) \in Seq(Message)
    BY DEF TypeOK
  <2>3. QED
    BY <1>1, <2>1, <2>2, ZenonT(60) DEF Send, TypeOK
<1>2. CASE ~RxOpen(q)
  BY <1>2 DEF Send, TypeOK, queueVars
<1>3. QED
  BY <1>1, <1>2

-----------------------------------------------------------------------------
(* SignalingServer: type correctness.                                      *)

LEMMA TypeInit == Init => TypeOK
<1>1. NoJob \in [msg : Message, to : Seq(Peers)]
  BY DEF NoJob, Message
<1>2. QED
  BY <1>1, PeersAssumption DEF Init, TypeOK

LEMMA TypeNext == TypeOK /\ [Next]_vars => TypeOK'
<1> SUFFICES ASSUME TypeOK, [Next]_vars PROVE TypeOK'
  OBVIOUS
<1> USE DEF TypeOK
<1>j. NoJob \in [msg : Message, to : Seq(Peers)]
  BY DEF NoJob, Message
<1>g. \A p \in Peers : GroupOf[p] \in Groups
  BY PeersAssumption
<1>o. \A p \in Peers : Others(p) \in SUBSET Peers
  BY DEF Others, Members
<1>1. ASSUME NEW p \in Peers, Refuse(p) PROVE TypeOK'
  BY <1>1, <1>g DEF Refuse, recvVars, queueVars
<1>2. ASSUME NEW p \in Peers, Register(p) PROVE TypeOK'
  <2>1. PICK order \in Orders(Others(p)) : todo' = [todo EXCEPT ![p] = order]
    BY <1>2 DEF Register, Enter
  <2>2. order \in Seq(Peers)
    BY <1>o, OrdersAreSequences
  <2>3. {<<q, info[q]>> : q \in Others(p)} \in SUBSET Described
    BY <1>o DEF Described
  <2>4. QED
    BY <1>2, <1>g, <2>1, <2>2, <2>3
       DEF Register, Enter, CountRequest, recvVars, queueVars
<1>3. ASSUME NEW p \in Peers, SendJoin(p) PROVE TypeOK'
  <2>1. [type |-> "Join", peer |-> <<p, 0>>] \in Message
    BY DEF Message, Described
  <2>2. Head(todo[p]) \in Peers /\ Tail(todo[p]) \in Seq(Peers)
    BY <1>3 DEF SendJoin
  <2>3. /\ channel' \in [Peers -> Seq(Message)]
        /\ roster' \in [Peers -> SUBSET Described]
    BY <1>3, <2>1, <2>2, SendType DEF SendJoin
  <2>4. QED
    BY <1>3, <2>2, <2>3 DEF SendJoin, mapVars, recvVars
<1>4. ASSUME NEW p \in Peers, SendHello(p) PROVE TypeOK'
  <2>1. [type |-> "Hello", peers |-> snapshot[p]] \in Message
    BY DEF Message
  <2>2. /\ channel' \in [Peers -> Seq(Message)]
        /\ roster' \in [Peers -> SUBSET Described]
    BY <1>4, <2>1, SendType DEF SendHello
  <2>3. QED
    BY <1>4, <2>2 DEF SendHello, mapVars
<1>5. ASSUME NEW p \in Peers, Deliver(p) PROVE TypeOK'
  BY <1>5 DEF Deliver, mapVars, handlerVars, recvVars
<1>6. ASSUME NEW p \in Peers, RecvOverLimit(p) PROVE TypeOK'
  <2>1. [msg |-> [type |-> "Error"], to |-> <<p>>]
           \in [msg : Message, to : Seq(Peers)]
    BY DEF Message
  <2>2. QED
    BY <1>6, <2>1 DEF RecvOverLimit, ClientSends, mapVars, handlerVars, queueVars
<1>7. ASSUME NEW p \in Peers, RecvUpdate(p) PROVE TypeOK'
  <2>1. /\ requestCount' \in [Groups -> Nat]
        /\ messages' \in Nat
    BY <1>7, <1>g DEF RecvUpdate, CountRequest, ClientSends
  <2>2. info' \in [Peers -> Nat] /\ job' \in [Peers -> [msg : Message, to : Seq(Peers)]]
    <3>1. CASE p \in txMap
      <4>1. PICK order \in Orders(Others(p)) :
               job' = [job EXCEPT ![p] =
                          [msg |-> [type |-> "Update", peer |-> <<p, info[p] + 1>>],
                           to |-> order]]
        BY <1>7, <3>1 DEF RecvUpdate
      <4>2. order \in Seq(Peers)
        BY <1>o, OrdersAreSequences
      <4>3. [type |-> "Update", peer |-> <<p, info[p] + 1>>] \in Message
        BY DEF Message, Described
      <4>4. [msg |-> [type |-> "Update", peer |-> <<p, info[p] + 1>>],
             to |-> order] \in [msg : Message, to : Seq(Peers)]
        BY <4>2, <4>3
      <4>5. job' \in [Peers -> [msg : Message, to : Seq(Peers)]]
        BY <4>1, <4>4
      <4>6. info' = [info EXCEPT ![p] = info[p] + 1]
        BY <1>7, <3>1 DEF RecvUpdate
      <4>7. info' \in [Peers -> Nat]
        BY <4>6
      <4>8. QED
        BY <4>5, <4>7
    <3>2. CASE p \notin txMap
      BY <1>7, <3>2 DEF RecvUpdate
    <3>3. QED
      BY <3>1, <3>2
  <2>3. QED
    BY <1>7, <2>1, <2>2 DEF RecvUpdate, handlerVars, queueVars
<1>8. ASSUME NEW p \in Peers, RecvSdp(p) PROVE TypeOK'
  <2>1. /\ requestCount' \in [Groups -> Nat]
        /\ messages' \in Nat
    BY <1>8, <1>g DEF RecvSdp, ForwardSdp, CountRequest, ClientSends
  <2>2. PICK target \in Peers, kind \in {"Offer", "Answer"} :
           job' = [job EXCEPT ![p] =
                      IF target \in Members(GroupOf[p])
                      THEN [msg |-> [type |-> kind, peer |-> <<p, 0>>],
                            to |-> <<target>>]
                      ELSE NoJob]
    BY <1>8 DEF RecvSdp, ForwardSdp
  <2>3. [msg |-> [type |-> kind, peer |-> <<p, 0>>], to |-> <<target>>]
           \in [msg : Message, to : Seq(Peers)]
    BY DEF Message, Described
  <2>4. QED
    BY <1>8, <1>j, <2>1, <2>2, <2>3 DEF RecvSdp, ForwardSdp, mapVars, handlerVars, queueVars
<1>9. ASSUME NEW p \in Peers, RecvForward(p) PROVE TypeOK'
  <2>1. job[p].msg \in Message /\ job[p].to \in Seq(Peers)
    OBVIOUS
  <2>2. Head(job[p].to) \in Peers /\ Tail(job[p].to) \in Seq(Peers)
    BY <1>9, <2>1 DEF RecvForward
  <2>3. /\ channel' \in [Peers -> Seq(Message)]
        /\ roster' \in [Peers -> SUBSET Described]
    BY <1>9, <2>1, <2>2, SendType DEF RecvForward
  <2>4. job' \in [Peers -> [msg : Message, to : Seq(Peers)]]
    BY <1>9, <1>j, <2>1, <2>2 DEF RecvForward, Advance
  <2>5. QED
    BY <1>9, <2>3, <2>4 DEF RecvForward, mapVars, handlerVars
<1>10. ASSUME NEW p \in Peers, RecvReturns(p) PROVE TypeOK'
  BY <1>10 DEF RecvReturns, mapVars, handlerVars, queueVars
<1>11. ASSUME NEW p \in Peers, RecvAborted(p) PROVE TypeOK'
  BY <1>11, <1>j DEF RecvAborted, mapVars, handlerVars, queueVars
<1>12. ASSUME NEW p \in Peers, ClientQuits(p) PROVE TypeOK'
  BY <1>12 DEF ClientQuits, mapVars, handlerVars, recvVars, queueVars
<1>13. ASSUME NEW p \in Peers, SendTaskFails(p) PROVE TypeOK'
  BY <1>13 DEF SendTaskFails, DropChannel, mapVars
<1>14. ASSUME NEW p \in Peers, RecvTaskDone(p) PROVE TypeOK'
  BY <1>14 DEF RecvTaskDone, DropChannel, mapVars, recvVars
<1>15. ASSUME NEW p \in Peers, Unregister(p) PROVE TypeOK'
  <2>1. PICK order \in Orders(Others(p)) : todo' = [todo EXCEPT ![p] = order]
    BY <1>15 DEF Unregister, Leave
  <2>2. order \in Seq(Peers)
    BY <1>o, OrdersAreSequences
  <2>3. QED
    BY <1>15, <2>1, <2>2 DEF Unregister, Leave, recvVars, queueVars
<1>16. ASSUME NEW p \in Peers, SendLeft(p) PROVE TypeOK'
  <2>1. [type |-> "Left", peer |-> p] \in Message
    BY DEF Message
  <2>2. Head(todo[p]) \in Peers /\ Tail(todo[p]) \in Seq(Peers)
    BY <1>16 DEF SendLeft
  <2>3. /\ channel' \in [Peers -> Seq(Message)]
        /\ roster' \in [Peers -> SUBSET Described]
    BY <1>16, <2>1, <2>2, SendType DEF SendLeft
  <2>4. QED
    BY <1>16, <2>2, <2>3 DEF SendLeft, mapVars, recvVars
<1>17. ASSUME NEW p \in Peers, Finish(p) PROVE TypeOK'
  BY <1>17 DEF Finish, mapVars, recvVars, queueVars
<1>18. ASSUME ClearRequestCounts PROVE TypeOK'
  BY <1>18 DEF ClearRequestCounts, mapVars, handlerVars, recvVars, queueVars
<1>19. CASE UNCHANGED vars
  BY <1>19 DEF vars, mapVars, handlerVars, recvVars, queueVars
<1>20. QED
  BY <1>1, <1>2, <1>3, <1>4, <1>5, <1>6, <1>7, <1>8, <1>9, <1>10, <1>11, <1>12,
     <1>13, <1>14, <1>15, <1>16, <1>17, <1>18, <1>19
     DEF Next, Connect, HandlerStep, RecvStep

\* Every state of the server is well-formed: the handler of every
\* connection, the shared map, the channels and the clients' lists.
THEOREM TypeCorrect == Spec => []TypeOK
<1>1. QED
  BY TypeInit, TypeNext, PTL DEF Spec

-----------------------------------------------------------------------------
(* SignalingServer: the shared map.                                        *)

LEMMA HandledNext == TypeOK /\ RegisteredIsHandled /\ [Next]_vars
                        => RegisteredIsHandled'
<1> SUFFICES ASSUME TypeOK, RegisteredIsHandled, [Next]_vars
             PROVE  RegisteredIsHandled'
  OBVIOUS
<1> USE DEF RegisteredIsHandled
<1>t. handler \in [Peers -> {"new", "refused", "joining", "running",
                             "closing", "leaving", "gone"}]
  BY DEF TypeOK
<1>1. ASSUME NEW p \in Peers, Refuse(p) PROVE RegisteredIsHandled'
  BY <1>1, <1>t DEF Refuse
<1>2. ASSUME NEW p \in Peers, Register(p) PROVE RegisteredIsHandled'
  BY <1>2, <1>t DEF Register, Enter
<1>3. ASSUME NEW p \in Peers, SendHello(p) PROVE RegisteredIsHandled'
  BY <1>3, <1>t DEF SendHello, mapVars
<1>4. ASSUME NEW p \in Peers, SendTaskFails(p) PROVE RegisteredIsHandled'
  BY <1>4, <1>t DEF SendTaskFails, mapVars
<1>5. ASSUME NEW p \in Peers, RecvTaskDone(p) PROVE RegisteredIsHandled'
  BY <1>5, <1>t DEF RecvTaskDone, mapVars
<1>6. ASSUME NEW p \in Peers, Unregister(p) PROVE RegisteredIsHandled'
  BY <1>6, <1>t DEF Unregister, Leave
<1>7. ASSUME NEW p \in Peers, Finish(p) PROVE RegisteredIsHandled'
  BY <1>7, <1>t DEF Finish, mapVars
<1>8. ASSUME NEW p \in Peers,
             \/ SendJoin(p) \/ SendLeft(p) \/ Deliver(p) \/ RecvStep(p)
             \/ RecvOverLimit(p) \/ RecvUpdate(p) \/ RecvSdp(p)
             \/ ClientQuits(p)
      PROVE  RegisteredIsHandled'
  BY <1>8 DEF SendJoin, SendLeft, Deliver, RecvStep, RecvForward, RecvReturns,
     RecvAborted, RecvOverLimit, RecvUpdate, RecvSdp, ForwardSdp, ClientQuits, mapVars,
     handlerVars
<1>9. ASSUME ClearRequestCounts PROVE RegisteredIsHandled'
  BY <1>9 DEF ClearRequestCounts, mapVars, handlerVars
<1>10. CASE UNCHANGED vars
  BY <1>10 DEF vars, mapVars, handlerVars
<1>11. QED
  BY <1>1, <1>2, <1>3, <1>4, <1>5, <1>6, <1>7, <1>8, <1>9, <1>10
     DEF Next, Connect, HandlerStep

LEMMA LimitNext == TypeOK /\ WithinConnectionLimit /\ [Next]_vars
                      => WithinConnectionLimit'
<1> SUFFICES ASSUME TypeOK, WithinConnectionLimit, [Next]_vars, NEW g \in Groups
             PROVE  Cardinality(Members(g)') <= MaxConnections
  BY DEF WithinConnectionLimit
<1>t. txMap \subseteq Peers /\ MaxConnections \in Nat
  BY LimitsAssumption DEF TypeOK
<1>f. IsFiniteSet(Members(g)) /\ Cardinality(Members(g)) \in Nat
  <2>1. Members(g) \in SUBSET Peers
    BY <1>t DEF Members
  <2>2. QED
    BY <2>1, PeersAssumption, FS_Subset, FS_CardinalityType
<1>i. Cardinality(Members(g)) <= MaxConnections
  BY DEF WithinConnectionLimit
<1>1. ASSUME NEW p \in Peers, Register(p)
      PROVE  Cardinality(Members(g)') <= MaxConnections
  <2>1. CASE GroupOf[p] = g
    <3>1. Members(g)' = Members(g) \cup {p}
      BY <1>1, <2>1 DEF Register, Enter, Members
    <3>2. Cardinality(Members(g)) < MaxConnections
      BY <1>1, <2>1 DEF Register, Enter
    <3>3. /\ IsFiniteSet(Members(g) \cup {p})
          /\ Cardinality(Members(g) \cup {p}) =
                IF p \in Members(g) THEN Cardinality(Members(g))
                ELSE Cardinality(Members(g)) + 1
      BY <1>f, FS_AddElement
    <3>4. Cardinality(Members(g) \cup {p}) <= MaxConnections
      <4>1. CASE p \in Members(g)
        BY <4>1, <1>i, <3>3
      <4>2. CASE p \notin Members(g)
        BY <4>2, <1>t, <1>f, <3>2, <3>3
      <4>3. QED
        BY <4>1, <4>2
    <3>5. QED
      BY <3>1, <3>4
  <2>2. CASE GroupOf[p] # g
    <3>1. Members(g)' = Members(g)
      BY <1>1, <2>2 DEF Register, Enter, Members
    <3>2. QED
      BY <1>i, <3>1
  <2>3. QED
    BY <2>1, <2>2
<1>2. ASSUME NEW p \in Peers, Unregister(p)
      PROVE  Cardinality(Members(g)') <= MaxConnections
  <2>1. Members(g)' \in SUBSET Members(g)
    BY <1>2 DEF Unregister, Leave, Members
  <2>2. /\ IsFiniteSet(Members(g)')
        /\ Cardinality(Members(g)') <= Cardinality(Members(g))
    BY <2>1, <1>f, FS_Subset
  <2>3. Cardinality(Members(g)') \in Nat
    BY <2>2, FS_CardinalityType
  <2>4. QED
    BY <1>t, <1>f, <1>i, <2>2, <2>3
<1>3. ASSUME UNCHANGED txMap
      PROVE  Cardinality(Members(g)') <= MaxConnections
  <2>1. Members(g)' = Members(g)
    BY <1>3 DEF Members
  <2>2. QED
    BY <1>i, <2>1
<1>4. ASSUME NEW p \in Peers,
             \/ Refuse(p) \/ SendJoin(p) \/ SendHello(p) \/ SendTaskFails(p)
             \/ RecvTaskDone(p) \/ SendLeft(p) \/ Finish(p) \/ Deliver(p)
             \/ RecvStep(p) \/ RecvOverLimit(p) \/ RecvUpdate(p) \/ RecvSdp(p)
             \/ ClientQuits(p)
      PROVE  UNCHANGED txMap
  BY <1>4 DEF Refuse, SendJoin, SendHello, SendTaskFails, RecvTaskDone,
     SendLeft, Finish, Deliver, RecvStep, RecvForward, RecvReturns, RecvAborted,
     RecvOverLimit, RecvUpdate, RecvSdp, ForwardSdp, ClientQuits, mapVars
<1>5. ASSUME ClearRequestCounts \/ UNCHANGED vars PROVE UNCHANGED txMap
  BY <1>5 DEF ClearRequestCounts, vars, mapVars
<1>6. QED
  BY <1>1, <1>2, <1>3, <1>4, <1>5 DEF Next, Connect, HandlerStep

-----------------------------------------------------------------------------
(* SignalingServer: discovery.                                             *)

\* What a message does to the ids a client lists.
LEMMA ApplyIds ==
    ASSUME NEW list \in SUBSET Described, NEW m \in Message
    PROVE  /\ m.type = "Hello" =>
                 Ids(Apply(list, m)) = Ids(list) \cup Ids(m.peers)
           /\ m.type \in {"Join", "Update"} =>
                 Ids(Apply(list, m)) = Ids(list) \cup {m.peer[1]}
           /\ m.type = "Left" =>
                 Ids(Apply(list, m)) = Ids(list) \ {m.peer}
           /\ m.type \in {"Offer", "Answer", "Error"} =>
                 Ids(Apply(list, m)) = Ids(list)
<1>1. CASE m.type = "Hello"
  BY <1>1 DEF Apply, Ids
<1>2. CASE m.type \in {"Join", "Update"}
  BY <1>2 DEF Apply, Ids
<1>3. CASE m.type = "Left"
  BY <1>3 DEF Apply, Ids
<1>4. CASE m.type \in {"Offer", "Answer", "Error"}
  BY <1>4 DEF Apply, Ids
<1>5. QED
  BY <1>1, <1>2, <1>3, <1>4

\* A send changes the list of an open receiver and no other.
LEMMA SendListed ==
    ASSUME TypeOK, NEW q \in Peers, NEW m \in Message, Send(q, m)
    PROVE  \A r \in Peers :
              Listed(r)' = IF r = q /\ RxOpen(q) THEN Ids(Apply(roster[q], m))
                           ELSE Listed(r)
BY DEF Send, Listed, TypeOK, queueVars

\* A message that is not a Left never removes anyone from a list.
LEMMA SendGrows ==
    ASSUME TypeOK, NEW q \in Peers, NEW m \in Message, m.type # "Left", Send(q, m)
    PROVE  \A r \in Peers : Listed(r) \subseteq Listed(r)'
<1>1. roster[q] \in SUBSET Described
  BY DEF TypeOK
<1>2. Ids(roster[q]) \subseteq Ids(Apply(roster[q], m))
  BY <1>1, ApplyIds DEF Message
<1>3. QED
  BY <1>2, SendListed DEF Listed

LEMMA JobNext == TypeOK /\ JobInv /\ [Next]_vars => JobInv'
<1> SUFFICES ASSUME TypeOK, JobInv, [Next]_vars PROVE JobInv'
  OBVIOUS
<1> USE DEF JobInv
<1>t. job \in [Peers -> [msg : Message, to : Seq(Peers)]]
  BY DEF TypeOK
<1>1. ASSUME NEW p \in Peers, RecvOverLimit(p) PROVE JobInv'
  BY <1>1, <1>t DEF RecvOverLimit
<1>2. ASSUME NEW p \in Peers, RecvUpdate(p) PROVE JobInv'
  <2>1. CASE p \in txMap
    <3>1. PICK order \in Orders(Others(p)) :
             job' = [job EXCEPT ![p] =
                        [msg |-> [type |-> "Update", peer |-> <<p, info[p] + 1>>],
                         to |-> order]]
      BY <1>2, <2>1 DEF RecvUpdate
    <3>2. job'[p].msg = [type |-> "Update", peer |-> <<p, info[p] + 1>>]
      BY <1>t, <3>1
    <3>3. \A r \in Peers : r # p => job'[r] = job[r]
      BY <1>t, <3>1
    <3>4. QED
      BY <3>2, <3>3
  <2>2. CASE p \notin txMap
    BY <1>2, <2>2 DEF RecvUpdate
  <2>3. QED
    BY <2>1, <2>2
<1>3. ASSUME NEW p \in Peers, RecvSdp(p) PROVE JobInv'
  <2>1. PICK target \in Peers, kind \in {"Offer", "Answer"} :
           job' = [job EXCEPT ![p] =
                      IF target \in Members(GroupOf[p])
                      THEN [msg |-> [type |-> kind, peer |-> <<p, 0>>],
                            to |-> <<target>>]
                      ELSE NoJob]
    BY <1>3 DEF RecvSdp, ForwardSdp
  <2>2. \/ job'[p].msg = [type |-> kind, peer |-> <<p, 0>>]
        \/ job'[p].msg = [type |-> "Error"]
    BY <1>t, <2>1 DEF NoJob
  <2>3. \A r \in Peers : r # p => job'[r] = job[r]
    BY <1>t, <2>1
  <2>4. QED
    BY <2>2, <2>3
<1>4. ASSUME NEW p \in Peers, RecvForward(p) PROVE JobInv'
  BY <1>4, <1>t DEF RecvForward, Advance, NoJob
<1>5. ASSUME NEW p \in Peers, RecvAborted(p) PROVE JobInv'
  BY <1>5, <1>t DEF RecvAborted, NoJob
<1>6. ASSUME NEW p \in Peers,
             \/ Connect(p) \/ HandlerStep(p) \/ Deliver(p) \/ RecvReturns(p)
             \/ ClientQuits(p)
      PROVE  JobInv'
  BY <1>6 DEF Connect, Refuse, Register, Enter, HandlerStep, SendJoin, SendHello,
     SendTaskFails, RecvTaskDone, Unregister, Leave, SendLeft, Finish, Deliver,
     RecvReturns, ClientQuits, recvVars
<1>7. CASE ClearRequestCounts \/ UNCHANGED vars
  BY <1>7 DEF ClearRequestCounts, vars, recvVars
<1>8. QED
  BY <1>1, <1>2, <1>3, <1>4, <1>5, <1>6, <1>7 DEF Next, RecvStep

LEMMA DiscoveryNext ==
    TypeOK /\ RegisteredIsHandled /\ JobInv /\ DiscoveryInv /\ [Next]_vars
        => DiscoveryInv'
<1> SUFFICES ASSUME TypeOK, RegisteredIsHandled, JobInv, DiscoveryInv,
                    [Next]_vars,
                    NEW p \in Peers, NEW q \in Peers, p # q,
                    GroupOf[p] = GroupOf[q], RxOpen(p)', RxOpen(q)'
             PROVE  (q \in Listed(p) \/ WillJoin(q, p) \/ WillGreet(p, q))'
  BY DEF DiscoveryInv
<1> DEFINE Found == q \in Listed(p) \/ WillJoin(q, p) \/ WillGreet(p, q)
<1>t. /\ handler \in [Peers -> {"new", "refused", "joining", "running",
                                "closing", "leaving", "gone"}]
      /\ todo \in [Peers -> Seq(Peers)]
      /\ snapshot \in [Peers -> SUBSET Described]
      /\ job \in [Peers -> [msg : Message, to : Seq(Peers)]]
  BY DEF TypeOK
<1>i. RxOpen(p) /\ RxOpen(q) => Found
  BY DEF DiscoveryInv
<1>1. ASSUME NEW r \in Peers, Register(r) PROVE Found'
  <2>1. CASE r = p
    <3>1. q \in txMap
      BY <1>1, <1>t, <2>1 DEF Register, Enter, RxOpen, RegisteredIsHandled
    <3>2. q \in Others(p)
      BY <3>1 DEF Others, Members
    <3>3. <<q, info[q]>> \in snapshot'[p]
      BY <1>1, <1>t, <2>1, <3>2 DEF Register, Enter
    <3>4. q \in Ids(snapshot'[p])
      BY <3>3 DEF Ids
    <3>5. QED
      BY <1>1, <1>t, <2>1, <3>4 DEF Register, Enter, WillGreet
  <2>2. CASE r = q
    <3>1. p \in txMap
      BY <1>1, <1>t, <2>2 DEF Register, Enter, RxOpen, RegisteredIsHandled
    <3>2. p \in Others(q) /\ Others(q) \in SUBSET Peers
      BY <3>1 DEF Others, Members, TypeOK
    <3>3. PICK order \in Orders(Others(q)) : todo' = [todo EXCEPT ![q] = order]
      BY <1>1, <2>2 DEF Register, Enter
    <3>4. \E i \in DOMAIN order : order[i] = p
      BY <3>2, OrdersAreSequences
    <3>5. todo'[q] = order
      BY <1>t, <3>3
    <3>6. QED
      BY <1>1, <1>t, <2>2, <3>4, <3>5 DEF Register, Enter, WillJoin
  <2>3. CASE r # p /\ r # q
    <3>1. PICK order \in Orders(Others(r)) : todo' = [todo EXCEPT ![r] = order]
      BY <1>1 DEF Register, Enter
    <3>2. /\ handler'[p] = handler[p] /\ handler'[q] = handler[q]
          /\ todo'[q] = todo[q]
          /\ snapshot'[p] = snapshot[p]
          /\ roster' = roster
      BY <1>1, <1>t, <2>3, <3>1 DEF Register, Enter, queueVars
    <3>3. QED
      BY <1>i, <3>2 DEF RxOpen, Listed, WillJoin, WillGreet
  <2>4. QED
    BY <2>1, <2>2, <2>3
<1>2. ASSUME NEW r \in Peers, SendJoin(r) PROVE Found'
  <2> DEFINE t == Head(todo[r])
             m == [type |-> "Join", peer |-> <<r, 0>>]
  <2>1. t \in Peers /\ m \in Message /\ Send(t, m)
    BY <1>2, <1>t DEF SendJoin, Message, Described
  <2>2. /\ handler' = handler /\ snapshot' = snapshot
        /\ todo' = [todo EXCEPT ![r] = Tail(todo[r])]
    BY <1>2 DEF SendJoin
  <2>3. Found
    BY <1>i, <2>2 DEF RxOpen
  <2>4. CASE q \in Listed(p)
    BY <2>1, <2>4, SendGrows
  <2>5. CASE WillJoin(q, p)
    <3>1. PICK i \in DOMAIN todo[q] : todo[q][i] = p
      BY <2>5 DEF WillJoin
    <3>2. CASE r # q
      BY <1>t, <2>2, <2>5, <3>2 DEF WillJoin
    <3>3. CASE r = q /\ i = 1
      <4>1. t = p /\ RxOpen(p)
        BY <1>t, <2>2, <3>1, <3>3 DEF RxOpen
      <4>2. Listed(p)' = Ids(Apply(roster[p], m))
        BY <2>1, <4>1, SendListed
      <4>3. Ids(Apply(roster[p], m)) = Ids(roster[p]) \cup {r}
        BY <2>1, ApplyIds DEF TypeOK
      <4>4. QED
        BY <3>3, <4>2, <4>3
    <3>4. CASE r = q /\ i # 1
      <4>1. i \in 2..Len(todo[q])
        BY <1>t, <3>1, <3>4
      <4>2. i - 1 \in DOMAIN Tail(todo[q]) /\ Tail(todo[q])[i - 1] = p
        BY <1>t, <3>1, <4>1, SMTT(60)
      <4>3. QED
        BY <1>t, <2>2, <2>5, <3>4, <4>2 DEF WillJoin
    <3>5. QED
      BY <3>2, <3>3, <3>4
  <2>6. CASE WillGreet(p, q)
    BY <2>2, <2>6 DEF WillGreet
  <2>7. QED
    BY <2>3, <2>4, <2>5, <2>6
<1>3. ASSUME NEW r \in Peers, SendHello(r) PROVE Found'
  <2> DEFINE m == [type |-> "Hello", peers |-> snapshot[r]]
  <2>1. m \in Message /\ Send(r, m)
    BY <1>3, <1>t DEF SendHello, Message
  <2>2. /\ handler' = [handler EXCEPT ![r] = "running"]
        /\ snapshot' = snapshot /\ todo' = todo
        /\ handler[r] = "joining" /\ todo[r] = <<>>
    BY <1>3 DEF SendHello
  <2>3. Found
    BY <1>i, <1>t, <2>2 DEF RxOpen
  <2>4. CASE q \in Listed(p)
    BY <2>1, <2>4, SendGrows
  <2>5. CASE WillJoin(q, p)
    BY <1>t, <2>2, <2>5, SMTT(60) DEF WillJoin
  <2>6. CASE WillGreet(p, q)
    <3>1. CASE r = p
      <4>1. Listed(p)' = Ids(Apply(roster[p], m))
        BY <2>1, <2>2, <3>1, SendListed DEF RxOpen
      <4>2. m.type = "Hello" /\ m.peers = snapshot[p]
        BY <3>1
      <4>3. roster[p] \in SUBSET Described
        BY DEF TypeOK
      <4>4. Ids(Apply(roster[p], m)) = Ids(roster[p]) \cup Ids(snapshot[p])
        BY ONLY <2>1, <4>2, <4>3, ApplyIds
      <4>5. QED
        BY <2>6, <4>1, <4>4 DEF WillGreet
    <3>2. CASE r # p
      BY <1>t, <2>2, <2>6, <3>2 DEF WillGreet
    <3>3. QED
      BY <3>1, <3>2
  <2>7. QED
    BY <2>3, <2>4, <2>5, <2>6
<1>4. ASSUME NEW r \in Peers, RecvForward(r) PROVE Found'
  <2>1. /\ Head(job[r].to) \in Peers
        /\ job[r].msg \in Message
        /\ Send(Head(job[r].to), job[r].msg)
    BY <1>4, <1>t DEF RecvForward
  <2>2. job[r].msg.type # "Left"
    BY DEF JobInv
  <2>3. Listed(p) \subseteq Listed(p)'
    BY <2>1, <2>2, SendGrows
  <2>4. QED
    BY <1>4, <1>i, <2>3 DEF RecvForward, handlerVars, RxOpen, WillJoin, WillGreet
<1>5. ASSUME NEW r \in Peers, SendTaskFails(r) \/ RecvTaskDone(r) PROVE Found'
  <2>1. /\ handler' = [handler EXCEPT ![r] = "closing"]
        /\ roster' = [roster EXCEPT ![r] = {}]
        /\ snapshot' = snapshot /\ todo' = todo
    BY <1>5 DEF SendTaskFails, RecvTaskDone, DropChannel
  <2>2. r # p /\ r # q
    BY <1>t, <2>1 DEF RxOpen
  <2>3. QED
    BY <1>i, <1>t, <2>1, <2>2 DEF RxOpen, Listed, WillJoin, WillGreet
<1>6. ASSUME NEW r \in Peers, Unregister(r) PROVE Found'
  <2>1. PICK order \in Orders(Others(r)) : todo' = [todo EXCEPT ![r] = order]
    BY <1>6 DEF Unregister, Leave
  <2>2. /\ handler' = [handler EXCEPT ![r] = "leaving"]
        /\ snapshot' = [snapshot EXCEPT ![r] = {}]
        /\ roster' = roster
    BY <1>6 DEF Unregister, Leave, queueVars
  <2>3. r # p /\ r # q
    BY <1>t, <2>2 DEF RxOpen
  <2>4. QED
    BY <1>i, <1>t, <2>1, <2>2, <2>3 DEF RxOpen, Listed, WillJoin, WillGreet
<1>7. ASSUME NEW r \in Peers, SendLeft(r) PROVE Found'
  <2> DEFINE t == Head(todo[r])
             m == [type |-> "Left", peer |-> r]
  <2>1. t \in Peers /\ m \in Message /\ Send(t, m)
    BY <1>7, <1>t DEF SendLeft, Message
  <2>2. /\ handler' = handler /\ snapshot' = snapshot
        /\ todo' = [todo EXCEPT ![r] = Tail(todo[r])]
        /\ handler[r] = "leaving"
    BY <1>7 DEF SendLeft
  <2>3. r # p /\ r # q
    BY <2>2 DEF RxOpen
  <2>4. q \in Listed(p) => q \in Listed(p)'
    <3>1. Ids(Apply(roster[t], m)) = Ids(roster[t]) \ {r}
      BY <2>1, ApplyIds, ZenonT(60) DEF TypeOK
    <3>2. Listed(p)' = IF p = t /\ RxOpen(t) THEN Ids(Apply(roster[t], m))
                       ELSE Listed(p)
      BY <2>1, SendListed
    <3>3. QED
      BY <2>3, <3>1, <3>2 DEF Listed
  <2>5. QED
    BY <1>i, <1>t, <2>2, <2>3, <2>4 DEF RxOpen, WillJoin, WillGreet
<1>8. ASSUME NEW r \in Peers, Refuse(r) \/ Finish(r) PROVE Found'
  <2>1. /\ \/ handler' = [handler EXCEPT ![r] = "refused"]
           \/ handler' = [handler EXCEPT ![r] = "gone"]
        /\ snapshot' = snapshot /\ todo' = todo /\ roster' = roster
    BY <1>8 DEF Refuse, Finish, queueVars
  <2>2. r # p /\ r # q
    BY <1>t, <2>1 DEF RxOpen
  <2>3. QED
    BY <1>i, <1>t, <2>1, <2>2 DEF RxOpen, Listed, WillJoin, WillGreet
<1>9. ASSUME UNCHANGED <<handlerVars, roster>> PROVE Found'
  BY <1>9, <1>i DEF handlerVars, RxOpen, Listed, WillJoin, WillGreet
<1>10. ASSUME NEW r \in Peers,
              \/ Deliver(r) \/ RecvOverLimit(r) \/ RecvUpdate(r) \/ RecvSdp(r)
              \/ RecvReturns(r) \/ RecvAborted(r) \/ ClientQuits(r)
       PROVE  UNCHANGED <<handlerVars, roster>>
  BY <1>10 DEF Deliver, RecvOverLimit, RecvUpdate, RecvSdp, ForwardSdp, RecvReturns,
     RecvAborted, ClientQuits, queueVars
<1>11. ASSUME ClearRequestCounts \/ UNCHANGED vars
       PROVE  UNCHANGED <<handlerVars, roster>>
  BY <1>11 DEF ClearRequestCounts, vars, queueVars
<1>12. QED
  BY <1>1, <1>2, <1>3, <1>4, <1>5, <1>6, <1>7, <1>8, <1>9, <1>10, <1>11
     DEF Next, Connect, HandlerStep, RecvStep

-----------------------------------------------------------------------------
(* SignalingServer: isolation of the groups.                               *)

\* The peers a message names: those a client adds to its list, or shows as
\* the origin of an offer.
Names(m) == CASE m.type = "Hello" -> Ids(m.peers)
              [] m.type \in {"Join", "Update", "Offer", "Answer"} -> {m.peer[1]}
              [] OTHER -> {}

\* A send to a peer of the group of everyone the message names keeps the
\* groups apart.
LEMMA SendIsolated ==
    ASSUME TypeOK, GroupsAreIsolated,
           NEW q \in Peers, NEW m \in Message, Send(q, m),
           \A x \in Names(m) : GroupOf[x] = GroupOf[q]
    PROVE  GroupsAreIsolated'
<1>1. CASE ~RxOpen(q)
  BY <1>1 DEF Send, queueVars, GroupsAreIsolated, Listed
<1>2. CASE RxOpen(q)
  <2>1. \A r \in Peers : Listed(r)' \subseteq Listed(r) \cup (IF r = q THEN Names(m) ELSE {})
    <3>1. roster[q] \in SUBSET Described
      BY DEF TypeOK
    <3>2. Ids(Apply(roster[q], m)) \subseteq Ids(roster[q]) \cup Names(m)
      <4>1. CASE m.type = "Hello"
        BY <4>1, <3>1, ApplyIds DEF Names
      <4>2. CASE m.type \in {"Join", "Update"}
        BY <4>2, <3>1, ApplyIds DEF Names
      <4>3. CASE m.type = "Left"
        BY <4>3, <3>1, ApplyIds
      <4>4. CASE m.type \in {"Offer", "Answer", "Error"}
        BY <4>4, <3>1, ApplyIds
      <4>5. QED
        BY <4>1, <4>2, <4>3, <4>4 DEF Message
    <3>3. QED
      BY <1>2, <3>2, SendListed DEF Listed
  <2>2. \A r \in Peers : \A x \in Listed(r)' : GroupOf[x] = GroupOf[r]
    BY <2>1 DEF GroupsAreIsolated
  <2>3. /\ channel \in [Peers -> Seq(Message)]
        /\ channel' = [channel EXCEPT ![q] = Append(channel[q], m)]
    BY <1>2 DEF Send, TypeOK
  <2>4. \A r \in Peers : \A i \in DOMAIN channel'[r] :
           channel'[r][i].type \in {"Offer", "Answer"}
              => GroupOf[channel'[r][i].peer[1]] = GroupOf[r]
    <3> SUFFICES ASSUME NEW r \in Peers, NEW i \in DOMAIN channel'[r],
                        channel'[r][i].type \in {"Offer", "Answer"}
                 PROVE  GroupOf[channel'[r][i].peer[1]] = GroupOf[r]
      OBVIOUS
    <3>1. CASE r = q /\ i = Len(channel[q]) + 1
      <4>1. channel'[r][i] = m
        BY <2>3, <3>1
      <4>2. m.peer[1] \in Names(m)
        BY <4>1 DEF Names
      <4>3. QED
        BY <3>1, <4>1, <4>2
    <3>2. CASE ~(r = q /\ i = Len(channel[q]) + 1)
      <4>1. i \in DOMAIN channel[r] /\ channel'[r][i] = channel[r][i]
        BY <2>3, <3>2
      <4>2. QED
        BY <4>1 DEF GroupsAreIsolated
    <3>3. QED
      BY <3>1, <3>2
  <2>5. QED
    BY <2>2, <2>4 DEF GroupsAreIsolated
<1>3. QED
  BY <1>1, <1>2

\* The peers still to be sent to after the first are among those before.
LEMMA TailAmong ==
    ASSUME NEW s \in Seq(Peers), s # <<>>
    PROVE  /\ \A i \in DOMAIN Tail(s) : \E j \in DOMAIN s : Tail(s)[i] = s[j]
           /\ \E j \in DOMAIN s : Head(s) = s[j]
<1>1. 1 \in DOMAIN s /\ Head(s) = s[1]
  OBVIOUS
<1>2. ASSUME NEW i \in DOMAIN Tail(s)
      PROVE  i + 1 \in DOMAIN s /\ Tail(s)[i] = s[i + 1]
  OBVIOUS
<1>3. QED
  BY <1>1, <1>2

\* The order in which a group is iterated names peers of the group only.
LEMMA OrdersOfOthers ==
    ASSUME TypeOK, NEW p \in Peers, NEW order \in Orders(Others(p))
    PROVE  \A i \in DOMAIN order : GroupOf[order[i]] = GroupOf[p]
<1>1. Others(p) \in SUBSET Peers
  BY DEF Others, Members, TypeOK
<1>2. order \in Seq(Others(p))
  BY <1>1, OrdersAreSequences
<1>3. \A q \in Others(p) : GroupOf[q] = GroupOf[p]
  BY DEF Others, Members
<1>4. QED
  BY <1>2, <1>3

LEMMA GroupNext ==
    TypeOK /\ JobInv /\ GroupInv /\ GroupsAreIsolated /\ [Next]_vars
        => GroupInv' /\ GroupsAreIsolated'
<1> SUFFICES ASSUME TypeOK, JobInv, GroupInv, GroupsAreIsolated, [Next]_vars
             PROVE  GroupInv' /\ GroupsAreIsolated'
  OBVIOUS
<1>t. /\ todo \in [Peers -> Seq(Peers)]
      /\ snapshot \in [Peers -> SUBSET Described]
      /\ job \in [Peers -> [msg : Message, to : Seq(Peers)]]
      /\ channel \in [Peers -> Seq(Message)]
      /\ roster \in [Peers -> SUBSET Described]
  BY DEF TypeOK
<1>1. ASSUME NEW p \in Peers, Register(p) \/ Unregister(p)
      PROVE  GroupInv' /\ GroupsAreIsolated'
  <2>1. PICK order \in Orders(Others(p)) : todo' = [todo EXCEPT ![p] = order]
    BY <1>1 DEF Register, Enter, Unregister, Leave
  <2>2. \A i \in DOMAIN order : GroupOf[order[i]] = GroupOf[p]
    BY OrdersOfOthers
  <2>3. \A r \in Peers : \A d \in snapshot'[r] : GroupOf[d[1]] = GroupOf[r]
    <3>1. \A q \in Others(p) : GroupOf[q] = GroupOf[p]
      BY DEF Others, Members
    <3>2. \/ snapshot' = [snapshot EXCEPT ![p] = {<<q, info[q]>> : q \in Others(p)}]
          \/ snapshot' = [snapshot EXCEPT ![p] = {}]
      BY <1>1 DEF Register, Enter, Unregister, Leave
    <3>3. \A d \in {<<q, info[q]>> : q \in Others(p)} : GroupOf[d[1]] = GroupOf[p]
      BY <3>1
    <3>4. \A d \in snapshot'[p] : GroupOf[d[1]] = GroupOf[p]
      BY <1>t, <3>2, <3>3
    <3>5. \A r \in Peers : r # p => snapshot'[r] = snapshot[r]
      BY <1>t, <3>2
    <3>6. QED
      BY <3>4, <3>5 DEF GroupInv
  <2>4. UNCHANGED <<job, channel, roster>>
    BY <1>1 DEF Register, Enter, Unregister, Leave, recvVars, queueVars
  <2>5. GroupInv'
    BY <1>t, <2>1, <2>2, <2>3, <2>4 DEF GroupInv
  <2>6. QED
    BY <2>4, <2>5 DEF GroupsAreIsolated, Listed
<1>2. ASSUME NEW p \in Peers, SendJoin(p) \/ SendLeft(p)
      PROVE  GroupInv' /\ GroupsAreIsolated'
  <2>1. todo[p] \in Seq(Peers) /\ todo[p] # <<>>
    BY <1>2, <1>t DEF SendJoin, SendLeft
  <2>2. /\ todo' = [todo EXCEPT ![p] = Tail(todo[p])]
        /\ UNCHANGED <<snapshot, job>>
    BY <1>2 DEF SendJoin, SendLeft, recvVars
  <2>3. \A i \in DOMAIN Tail(todo[p]) : GroupOf[Tail(todo[p])[i]] = GroupOf[p]
    BY <2>1, TailAmong DEF GroupInv
  <2>4. GroupInv'
    BY <1>t, <2>2, <2>3 DEF GroupInv
  <2>5. PICK m \in Message : Send(Head(todo[p]), m) /\ Names(m) \subseteq {p}
    <3>1. CASE SendJoin(p)
      <4>1. [type |-> "Join", peer |-> <<p, 0>>] \in Message
        BY DEF Message, Described
      <4>2. Names([type |-> "Join", peer |-> <<p, 0>>]) = {p}
        BY DEF Names
      <4>3. QED
        BY <3>1, <4>1, <4>2 DEF SendJoin
    <3>2. CASE SendLeft(p)
      <4>1. [type |-> "Left", peer |-> p] \in Message
        BY DEF Message
      <4>2. Names([type |-> "Left", peer |-> p]) = {}
        BY DEF Names
      <4>3. QED
        BY <3>2, <4>1, <4>2 DEF SendLeft
    <3>3. QED
      BY <1>2, <3>1, <3>2
  <2>6. Head(todo[p]) \in Peers /\ GroupOf[Head(todo[p])] = GroupOf[p]
    BY <2>1, TailAmong DEF GroupInv
  <2>7. GroupsAreIsolated'
    BY <2>5, <2>6, SendIsolated
  <2>8. QED
    BY <2>4, <2>7
<1>3. ASSUME NEW p \in Peers, SendHello(p)
      PROVE  GroupInv' /\ GroupsAreIsolated'
  <2> DEFINE m == [type |-> "Hello", peers |-> snapshot[p]]
  <2>1. m \in Message /\ Send(p, m)
    BY <1>3, <1>t DEF SendHello, Message
  <2>2. \A x \in Names(m) : GroupOf[x] = GroupOf[p]
    BY DEF Names, Ids, GroupInv
  <2>3. GroupsAreIsolated'
    BY <2>1, <2>2, SendIsolated
  <2>4. QED
    BY <1>3, <2>3 DEF SendHello, GroupInv
<1>4. ASSUME NEW p \in Peers, RecvForward(p)
      PROVE  GroupInv' /\ GroupsAreIsolated'
  <2>1. /\ job[p].to \in Seq(Peers) /\ job[p].to # <<>>
        /\ job[p].msg \in Message
        /\ Send(Head(job[p].to), job[p].msg)
        /\ job' = [job EXCEPT ![p] = Advance(job[p])]
        /\ UNCHANGED <<snapshot, todo>>
    BY <1>4, <1>t DEF RecvForward, handlerVars
  <2>2. Head(job[p].to) \in Peers /\ GroupOf[Head(job[p].to)] = GroupOf[p]
    BY <2>1, TailAmong DEF GroupInv
  <2>3. Names(job[p].msg) \subseteq {p}
    BY DEF JobInv, Names
  <2>4. GroupsAreIsolated'
    BY <2>1, <2>2, <2>3, SendIsolated
  <2>5. \A i \in DOMAIN Advance(job[p]).to : GroupOf[Advance(job[p]).to[i]] = GroupOf[p]
    <3>1. CASE Len(job[p].to) = 1
      BY <3>1 DEF Advance, NoJob
    <3>2. CASE Len(job[p].to) # 1
      <4>1. Advance(job[p]).to = Tail(job[p].to)
        BY <3>2 DEF Advance
      <4>2. QED
        BY <2>1, <4>1, TailAmong DEF GroupInv
    <3>3. QED
      BY <3>1, <3>2
  <2>6. GroupInv'
    BY <1>t, <2>1, <2>5 DEF GroupInv
  <2>7. QED
    BY <2>4, <2>6
<1>5. ASSUME NEW p \in Peers, NEW j,
             \A i \in DOMAIN j.to : GroupOf[j.to[i]] = GroupOf[p],
             job' = [job EXCEPT ![p] = j],
             UNCHANGED <<todo, snapshot, channel, roster>>
      PROVE  GroupInv' /\ GroupsAreIsolated'
  BY <1>5, <1>t DEF GroupInv, GroupsAreIsolated, Listed
<1>6. ASSUME NEW p \in Peers, RecvOverLimit(p) \/ RecvAborted(p)
      PROVE  GroupInv' /\ GroupsAreIsolated'
  <2>1. \A i \in DOMAIN <<p>> : GroupOf[<<p>>[i]] = GroupOf[p]
    OBVIOUS
  <2>2. \A i \in DOMAIN NoJob.to : GroupOf[NoJob.to[i]] = GroupOf[p]
    BY DEF NoJob
  <2>3. CASE RecvOverLimit(p)
    BY <2>3, <2>1, <1>5 DEF RecvOverLimit, handlerVars, queueVars
  <2>4. CASE RecvAborted(p)
    BY <2>4, <2>2, <1>5 DEF RecvAborted, handlerVars, queueVars
  <2>5. QED
    BY <1>6, <2>3, <2>4
<1>7. ASSUME NEW p \in Peers, RecvUpdate(p)
      PROVE  GroupInv' /\ GroupsAreIsolated'
  <2>1. UNCHANGED <<todo, snapshot, channel, roster>>
    BY <1>7 DEF RecvUpdate, handlerVars, queueVars
  <2>2. CASE p \in txMap
    <3>1. PICK order \in Orders(Others(p)) :
             job' = [job EXCEPT ![p] =
                        [msg |-> [type |-> "Update", peer |-> <<p, info[p] + 1>>],
                         to |-> order]]
      BY <1>7, <2>2 DEF RecvUpdate
    <3>2. \A i \in DOMAIN order : GroupOf[order[i]] = GroupOf[p]
      BY OrdersOfOthers
    <3>3. QED
      BY <2>1, <3>1, <3>2, <1>5
  <2>3. CASE p \notin txMap
    BY <1>7, <2>1, <2>3 DEF RecvUpdate, GroupInv, GroupsAreIsolated, Listed
  <2>4. QED
    BY <2>2, <2>3
<1>8. ASSUME NEW p \in Peers, RecvSdp(p)
      PROVE  GroupInv' /\ GroupsAreIsolated'
  <2>1. PICK target \in Peers, kind \in {"Offer", "Answer"} :
           job' = [job EXCEPT ![p] =
                      IF target \in Members(GroupOf[p])
                      THEN [msg |-> [type |-> kind, peer |-> <<p, 0>>],
                            to |-> <<target>>]
                      ELSE NoJob]
    BY <1>8 DEF RecvSdp, ForwardSdp
  <2> DEFINE j == IF target \in Members(GroupOf[p])
                  THEN [msg |-> [type |-> kind, peer |-> <<p, 0>>],
                        to |-> <<target>>]
                  ELSE NoJob
  <2>2. \A i \in DOMAIN j.to : GroupOf[j.to[i]] = GroupOf[p]
    BY DEF Members, NoJob
  <2>3. QED
    BY <1>8, <2>1, <2>2, <1>5 DEF RecvSdp, ForwardSdp, handlerVars, queueVars
<1>9. ASSUME NEW p \in Peers, SendTaskFails(p) \/ RecvTaskDone(p)
      PROVE  GroupInv' /\ GroupsAreIsolated'
  <2>1. /\ channel' = [channel EXCEPT ![p] = <<>>]
        /\ roster' = [roster EXCEPT ![p] = {}]
        /\ UNCHANGED <<todo, snapshot, job>>
    BY <1>9 DEF SendTaskFails, RecvTaskDone, DropChannel, recvVars
  <2>2. QED
    BY <1>t, <2>1 DEF GroupInv, GroupsAreIsolated, Listed, Ids
<1>10. ASSUME NEW p \in Peers, Deliver(p)
       PROVE  GroupInv' /\ GroupsAreIsolated'
  <2>1. /\ channel' = [channel EXCEPT ![p] = Tail(channel[p])]
        /\ channel[p] \in Seq(Message) /\ channel[p] # <<>>
        /\ UNCHANGED <<todo, snapshot, job, roster>>
    BY <1>10, <1>t DEF Deliver, handlerVars, recvVars
  <2>2. \A i \in DOMAIN Tail(channel[p]) :
           i + 1 \in DOMAIN channel[p] /\ Tail(channel[p])[i] = channel[p][i + 1]
    BY <2>1
  <2>3. GroupsAreIsolated'
    BY <1>t, <2>1, <2>2 DEF GroupsAreIsolated, Listed
  <2>4. QED
    BY <2>1, <2>3 DEF GroupInv
<1>11. ASSUME UNCHANGED <<todo, snapshot, job, channel, roster>>
       PROVE  GroupInv' /\ GroupsAreIsolated'
  BY <1>11 DEF GroupInv, GroupsAreIsolated, Listed
<1>12. ASSUME NEW p \in Peers,
              Refuse(p) \/ Finish(p) \/ RecvReturns(p) \/ ClientQuits(p)
       PROVE  UNCHANGED <<todo, snapshot, job, channel, roster>>
  BY <1>12 DEF Refuse, Finish, RecvReturns, ClientQuits, handlerVars, recvVars,
     queueVars
<1>13. ASSUME ClearRequestCounts \/ UNCHANGED vars
       PROVE  UNCHANGED <<todo, snapshot, job, channel, roster>>
  BY <1>13 DEF ClearRequestCounts, vars, handlerVars, recvVars, queueVars
<1>14. QED
  BY <1>1, <1>2, <1>3, <1>4, <1>6, <1>7, <1>8, <1>9, <1>10, <1>11, <1>12, <1>13
     DEF Next, Connect, HandlerStep, RecvStep

-----------------------------------------------------------------------------
(* SignalingServer: the theorems.                                          *)

\* The conjunction of the invariants of SignalingServer is inductive, for
\* any number of connections and any limits.
THEOREM Inductive == Spec => []IndInv
<1>1. Init => IndInv
  <2> SUFFICES ASSUME Init PROVE IndInv
    OBVIOUS
  <2>1. TypeOK
    BY TypeInit
  <2>2. \A g \in Groups : Members(g) = {}
    BY DEF Init, Members
  <2>3. WithinConnectionLimit
    BY <2>2, FS_EmptySet, LimitsAssumption DEF WithinConnectionLimit
  <2>4. RegisteredIsHandled
    BY DEF Init, RegisteredIsHandled
  <2>5. JobInv
    BY DEF Init, JobInv, NoJob
  <2>6. DiscoveryInv
    BY DEF Init, DiscoveryInv, RxOpen
  <2>7. GroupInv /\ GroupsAreIsolated
    BY DEF Init, GroupInv, GroupsAreIsolated, NoJob, Listed, Ids
  <2>8. QED
    BY <2>1, <2>3, <2>4, <2>5, <2>6, <2>7 DEF IndInv
<1>2. IndInv /\ [Next]_vars => IndInv'
  BY TypeNext, HandledNext, LimitNext, JobNext, DiscoveryNext, GroupNext
     DEF IndInv
<1>3. QED
  BY <1>1, <1>2, PTL DEF Spec

\* Every entry of tx_map has a handler that will remove it, however the
\* connections come and go.
THEOREM NoOrphanedEntry == Spec => []RegisteredIsHandled
<1>1. IndInv => RegisteredIsHandled
  BY DEF IndInv
<1>2. QED
  BY <1>1, Inductive, PTL

\* No interleaving of handshakes lets a group exceed MAX_CONNECTIONS.
THEOREM ConnectionLimit == Spec => []WithinConnectionLimit
<1>1. IndInv => WithinConnectionLimit
  BY DEF IndInv
<1>2. QED
  BY <1>1, Inductive, PTL

\* Two peers of a group whose handlers have sent their Hello list each
\* other.
THEOREM Discovery == Spec => []MutualDiscovery
<1>1. IndInv => MutualDiscovery
  BY DEF IndInv, DiscoveryInv, MutualDiscovery, RxOpen, WillJoin, WillGreet
<1>2. QED
  BY <1>1, Inductive, PTL

\* Peers of different groups never see each other, in a list or in an SDP
\* message.
THEOREM Isolation == Spec => []GroupsAreIsolated
<1>1. IndInv => GroupsAreIsolated
  BY DEF IndInv
<1>2. QED
  BY <1>1, Inductive, PTL

\* A device disappears from a client's list only after the server has
\* unregistered it.
THEOREM NeverDropped == Spec => NeverDroppedWhileRegistered
<1> DEFINE Dropped == \A p \in Peers : RxOpen(p) /\ RxOpen(p)' =>
                         \A q \in Listed(p) \ Listed(p)' : q \notin txMap
<1>1. ASSUME IndInv, [Next]_vars,
             NEW p \in Peers, RxOpen(p), RxOpen(p)',
             NEW q \in Listed(p), q \notin Listed(p)'
      PROVE  q \notin txMap
  <2>t. /\ TypeOK /\ RegisteredIsHandled /\ JobInv
        /\ handler \in [Peers -> {"new", "refused", "joining", "running",
                                  "closing", "leaving", "gone"}]
        /\ todo \in [Peers -> Seq(Peers)]
        /\ snapshot \in [Peers -> SUBSET Described]
        /\ job \in [Peers -> [msg : Message, to : Seq(Peers)]]
        /\ roster \in [Peers -> SUBSET Described]
    BY <1>1 DEF IndInv, TypeOK
  <2>1. CASE \E r \in Peers : SendJoin(r)
    <3>1. PICK r \in Peers : SendJoin(r)
      BY <2>1
    <3>2. /\ Head(todo[r]) \in Peers
          /\ [type |-> "Join", peer |-> <<r, 0>>] \in Message
      BY <2>t, <3>1 DEF SendJoin, Message, Described
    <3>3. QED
      BY <1>1, <2>t, <3>1, <3>2, SendGrows DEF SendJoin
  <2>2. CASE \E r \in Peers : SendHello(r)
    <3>1. PICK r \in Peers : SendHello(r)
      BY <2>2
    <3>2. [type |-> "Hello", peers |-> snapshot[r]] \in Message
      BY <2>t DEF Message
    <3>3. QED
      BY <1>1, <2>t, <3>1, <3>2, SendGrows DEF SendHello
  <2>3. CASE \E r \in Peers : RecvForward(r)
    <3>1. PICK r \in Peers : RecvForward(r)
      BY <2>3
    <3>2. /\ Head(job[r].to) \in Peers
          /\ job[r].msg \in Message
      BY <2>t, <3>1 DEF RecvForward
    <3>3. job[r].msg.type # "Left"
      BY <2>t DEF JobInv
    <3>4. QED
      BY <1>1, <2>t, <3>1, <3>2, <3>3, SendGrows DEF RecvForward
  <2>4. CASE \E r \in Peers : SendLeft(r)
    <3>1. PICK r \in Peers : SendLeft(r)
      BY <2>4
    <3> DEFINE t == Head(todo[r])
               m == [type |-> "Left", peer |-> r]
    <3>2. t \in Peers /\ m \in Message /\ Send(t, m)
      BY <2>t, <3>1 DEF SendLeft, Message
    <3>3. Ids(Apply(roster[t], m)) = Ids(roster[t]) \ {r}
      BY <2>t, <3>2, ApplyIds, ZenonT(60)
    <3>4. Listed(p)' = IF p = t /\ RxOpen(t) THEN Ids(Apply(roster[t], m))
                       ELSE Listed(p)
      BY <2>t, <3>2, SendListed
    <3>5. q = r
      BY <1>1, <3>3, <3>4 DEF Listed
    <3>6. QED
      BY <2>t, <3>1, <3>5 DEF SendLeft, RegisteredIsHandled
  <2>5. CASE \E r \in Peers : SendTaskFails(r) \/ RecvTaskDone(r)
    <3>1. PICK r \in Peers : SendTaskFails(r) \/ RecvTaskDone(r)
      BY <2>5
    <3>2. /\ handler' = [handler EXCEPT ![r] = "closing"]
          /\ roster' = [roster EXCEPT ![r] = {}]
      BY <3>1 DEF SendTaskFails, RecvTaskDone, DropChannel
    <3>3. p # r
      BY <1>1, <2>t, <3>2 DEF RxOpen
    <3>4. QED
      BY <1>1, <2>t, <3>2, <3>3 DEF Listed
  <2>6. CASE UNCHANGED roster
    BY <1>1, <2>6 DEF Listed
  <2>7. ASSUME NEW r \in Peers,
               \/ Connect(r) \/ Unregister(r) \/ Finish(r) \/ Deliver(r)
               \/ RecvReturns(r) \/ RecvAborted(r) \/ RecvOverLimit(r)
               \/ RecvUpdate(r) \/ RecvSdp(r) \/ ClientQuits(r)
        PROVE  UNCHANGED roster
    BY <2>7 DEF Connect, Refuse, Register, Enter, Unregister, Leave, Finish, Deliver,
       RecvReturns, RecvAborted, RecvOverLimit, RecvUpdate, RecvSdp, ForwardSdp,
       ClientQuits, queueVars
  <2>8. ASSUME ClearRequestCounts \/ UNCHANGED vars PROVE UNCHANGED roster
    BY <2>8 DEF ClearRequestCounts, vars, queueVars
  <2>9. QED
    BY <1>1, <2>1, <2>2, <2>3, <2>4, <2>5, <2>6, <2>7, <2>8
       DEF Next, HandlerStep, RecvStep
<1>2. IndInv /\ [Next]_vars => [Dropped]_vars
  BY <1>1
<1>3. QED
  BY <1>2, Inductive, PTL DEF Spec, NeverDroppedWhileRegistered

-----------------------------------------------------------------------------
(* CloudGroups: counting devices.                                          *)

\* A count that covers a set of devices covers what is left of it, covers one
\* more when it is incremented and one less when it is decremented.
LEMMA Counting ==
    ASSUME NEW S \in SUBSET Devices, NEW n \in Nat, Cardinality(S) <= n
    PROVE  /\ \A T \in SUBSET S : Cardinality(T) <= n
           /\ \A d : Cardinality(S \cup {d}) <= n + 1
           /\ \A d \in S : Cardinality(S \ {d}) <= n - 1
<1>1. IsFiniteSet(S)
  BY DevicesAssumption, FS_Subset
<1>2. Cardinality(S) \in Nat
  BY <1>1, FS_CardinalityType
<1>3. ASSUME NEW T \in SUBSET S PROVE Cardinality(T) <= n
  <2>1. IsFiniteSet(T) /\ Cardinality(T) <= Cardinality(S)
    BY <1>1, FS_Subset
  <2>2. Cardinality(T) \in Nat
    BY <2>1, FS_CardinalityType
  <2>3. QED
    BY <1>2, <2>1, <2>2
<1>4. ASSUME NEW d PROVE Cardinality(S \cup {d}) <= n + 1
  <2>1. Cardinality(S \cup {d}) \in {Cardinality(S), Cardinality(S) + 1}
    BY <1>1, FS_AddElement, Zenon
  <2>2. QED
    BY <1>2, <2>1
<1>5. ASSUME NEW d \in S PROVE Cardinality(S \ {d}) <= n - 1
  <2>1. Cardinality(S \ {d}) = Cardinality(S) - 1
    BY <1>1, FS_RemoveElement, Zenon
  <2>2. QED
    BY <1>2, <2>1
<1>6. QED
  BY <1>3, <1>4, <1>5

\* Replacing a recursive delete by a later stage of it keeps the set of them
\* well-formed.
LEMMA ReplaceType ==
    ASSUME sweeps \subseteq Sweeps, NEW s, NEW r \in Sweeps, Replace(s, r)
    PROVE  sweeps' \subseteq Sweeps
BY DEF Replace

\* A recursive delete begins well-formed.
LEMMA SweepType ==
    ASSUME NEW u \in Uids, NEW kind \in {"call", "weekly"}
    PROVE  Sweep(u, kind) \in Sweeps
BY DEF Sweep, Sweeps

\* A device that departs leaves recursive deletes and accounts well-formed.
LEMMA DepartsType ==
    ASSUME GroupsTypeOK, NEW u \in Uids, NEW d \in Devices, Departs(u, d)
    PROVE  /\ accounts' \subseteq Uids
           /\ sweeps' \subseteq Sweeps
           /\ deviceSweeps' \subseteq Uids \X Devices
           /\ collecting' \subseteq Uids
BY SweepType DEF GroupsTypeOK, Departs

-----------------------------------------------------------------------------
(* CloudGroups: type correctness.                                          *)

LEMMA GroupsTypeInit == GroupsInit => GroupsTypeOK
BY DEF GroupsInit, GroupsTypeOK, Users

LEMMA GroupsTypeNext == GroupsTypeOK /\ [GroupsNext]_groupsVars => GroupsTypeOK'
<1> SUFFICES ASSUME GroupsTypeOK, [GroupsNext]_groupsVars PROVE GroupsTypeOK'
  OBVIOUS
<1> USE DEF GroupsTypeOK, Users, docVars, tokenVars, sweepVars, clientVars
<1>1. ASSUME NEW d \in Devices, Client(d) PROVE GroupsTypeOK'
  <2>1. CASE SignIn(d)
    BY <2>1 DEF SignIn
  <2>2. CASE SignOut(d)
    BY <2>2 DEF SignOut
  <2>3. CASE SignInWithCustomToken(d)
    BY <2>3 DEF SignInWithCustomToken
  <2>4. CASE PairingFails(d)
    BY <2>4 DEF PairingFails
  <2>5. QED
    BY <1>1, <2>1, <2>2, <2>3, <2>4 DEF Client
<1>2. ASSUME NEW u \in Uids, NEW d \in Devices, Call(u, d) PROVE GroupsTypeOK'
  <2>1. CASE CreateAccount(u)
    BY <2>1 DEF CreateAccount
  <2>2. CASE RegisterDevice(u, d)
    BY <2>2 DEF RegisterDevice
  <2>3. CASE CheckIn(u)
    BY <2>3 DEF CheckIn
  <2>4. CASE DeleteAccount(u)
    BY <2>4, SweepType DEF DeleteAccount
  <2>5. ASSUME NEW e \in Devices, RemoveDevice(u, e) PROVE GroupsTypeOK'
    <3>1. Uncounted(u) \in Nat
      BY DEF Uncounted
    <3>2. QED
      BY <2>5, <3>1, DepartsType DEF RemoveDevice
  <2>6. ASSUME NEW t \in Tokens, CheckIssuer(u, d, t) PROVE GroupsTypeOK'
    BY <2>6 DEF CheckIssuer
  <2>7. ASSUME NEW t \in Tokens, JoinNetwork(u, d, t) PROVE GroupsTypeOK'
    <3>1. Uncounted(u) \in Nat
      BY DEF Uncounted
    <3>2. /\ accounts' \subseteq Uids
          /\ sweeps' \subseteq Sweeps
          /\ deviceSweeps' \subseteq Uids \X Devices
          /\ collecting' \subseteq Uids
      BY <2>7, DepartsType DEF JoinNetwork
    <3>3. deviceCount' \in [Uids -> Nat] /\ devices' \in [Uids -> SUBSET Devices]
      BY <2>7, <3>1 DEF JoinNetwork
    <3>4. tokenAccount[t] \in Users
      OBVIOUS
    <3>5. QED
      BY <2>7, <3>2, <3>3, <3>4 DEF JoinNetwork
  <2>8. QED
    BY <1>2, <2>1, <2>2, <2>3, <2>4, <2>5, <2>6, <2>7 DEF Call
<1>3. CASE Sweeping
  <2>1. ASSUME NEW s \in sweeps, SweepList(s) PROVE GroupsTypeOK'
    <3>1. [s EXCEPT !.listed = TRUE, !.left = devices[s.uid]] \in Sweeps
      BY DEF Sweeps
    <3>2. QED
      BY <2>1, <3>1, ReplaceType DEF SweepList
  <2>2. ASSUME NEW s \in sweeps, SweepAccount(s) PROVE GroupsTypeOK'
    <3>1. [s EXCEPT !.account = FALSE] \in Sweeps
      BY DEF Sweeps
    <3>2. QED
      BY <2>2, <3>1, ReplaceType DEF SweepAccount
  <2>3. ASSUME NEW s \in sweeps, SweepCrashes(s) PROVE GroupsTypeOK'
    BY <2>3 DEF SweepCrashes
  <2>4. ASSUME NEW s \in sweeps, NEW d \in s.left, SweepDelete(s, d) PROVE GroupsTypeOK'
    <3>1. [s EXCEPT !.left = @ \ {d}] \in Sweeps
      BY DEF Sweeps
    <3>2. QED
      BY <2>4, <3>1, ReplaceType DEF SweepDelete
  <2>5. ASSUME NEW u \in Uids, NEW d \in Devices, SweepDevice(u, d) PROVE GroupsTypeOK'
    BY <2>5 DEF SweepDevice
  <2>6. ASSUME NEW u \in Uids, NEW d \in Devices, DeviceSweepCrashes(u, d)
        PROVE  GroupsTypeOK'
    BY <2>6 DEF DeviceSweepCrashes
  <2>7. QED
    BY <1>3, <2>1, <2>2, <2>3, <2>4, <2>5, <2>6 DEF Sweeping
<1>4. CASE Background
  <2>1. ASSUME NEW t \in Tokens, WriteToken(t) PROVE GroupsTypeOK'
    BY <2>1 DEF WriteToken
  <2>2. ASSUME NEW t \in Tokens, ExpireToken(t) PROVE GroupsTypeOK'
    BY <2>2 DEF ExpireToken
  <2>3. ASSUME NEW u \in Uids, GoIdle(u) PROVE GroupsTypeOK'
    BY <2>3 DEF GoIdle
  <2>4. ASSUME NEW u \in Uids, CollectAccount(u) PROVE GroupsTypeOK'
    BY <2>4, SweepType DEF CollectAccount
  <2>5. CASE CleanupExpiredJoinTokens
    BY <2>5 DEF CleanupExpiredJoinTokens
  <2>6. CASE CleanupInactiveAccounts
    BY <2>6 DEF CleanupInactiveAccounts
  <2>7. QED
    BY <1>4, <2>1, <2>2, <2>3, <2>4, <2>5, <2>6 DEF Background
<1>5. CASE UNCHANGED groupsVars
  BY <1>5 DEF groupsVars
<1>6. QED
  BY <1>1, <1>2, <1>3, <1>4, <1>5 DEF GroupsNext

\* The type invariant: every document, count, token, recursive delete and
\* session the callables of firebase/functions leave behind is well-formed.
THEOREM GroupsTypeCorrect == GroupsSpec => []GroupsTypeOK
BY GroupsTypeInit, GroupsTypeNext, PTL DEF GroupsSpec

-----------------------------------------------------------------------------
(* CloudGroups: the cached count.                                          *)

\* Every step, from accounts that are not undercounted.
LEMMA CountNext ==
    ASSUME GroupsTypeOK, NeverUndercounts, [GroupsNext]_groupsVars
    PROVE  NeverUndercounts'
<1> SUFFICES ASSUME NEW v \in accounts', v \notin inherited'
             PROVE  Cardinality(devices'[v]) <= deviceCount'[v]
  BY DEF NeverUndercounts
<1> USE DEF docVars, tokenVars, sweepVars, clientVars
<1>0. v \in Uids
  BY GroupsTypeNext DEF GroupsTypeOK
<1>t. devices[v] \in SUBSET Devices /\ deviceCount[v] \in Nat
  BY <1>0 DEF GroupsTypeOK
\* What a step that neither adds a device nor changes the count leaves true.
<1>s. ASSUME v \in accounts, v \notin inherited,
             devices'[v] \in SUBSET devices[v], deviceCount'[v] = deviceCount[v]
      PROVE  Cardinality(devices'[v]) <= deviceCount'[v]
  BY <1>s, <1>t, Counting DEF NeverUndercounts
\* One device more, and one less, with the count.
<1>a. ASSUME v \in accounts, v \notin inherited, NEW d,
             devices'[v] = devices[v] \cup {d}, deviceCount'[v] = deviceCount[v] + 1
      PROVE  Cardinality(devices'[v]) <= deviceCount'[v]
  <2>1. Cardinality(devices[v] \cup {d}) <= deviceCount[v] + 1
    BY <1>a, <1>t, Counting DEF NeverUndercounts
  <2>2. QED
    BY <1>a, <2>1
<1>r. ASSUME v \in accounts, v \notin inherited, NEW d \in devices[v],
             devices'[v] = devices[v] \ {d}, deviceCount'[v] = deviceCount[v] - 1
      PROVE  Cardinality(devices'[v]) <= deviceCount'[v]
  <2>1. Cardinality(devices[v] \ {d}) <= deviceCount[v] - 1
    BY <1>r, <1>t, Counting DEF NeverUndercounts
  <2>2. QED
    BY <1>r, <2>1
<1>1. ASSUME NEW d \in Devices, Client(d)
      PROVE  Cardinality(devices'[v]) <= deviceCount'[v]
  BY <1>1, <1>s DEF Client, SignIn, SignOut, SignInWithCustomToken, PairingFails
<1>2. ASSUME NEW u \in Uids, NEW d \in Devices, Call(u, d)
      PROVE  Cardinality(devices'[v]) <= deviceCount'[v]
  <2>1. CASE CreateAccount(u)
    <3>1. CASE v = u
      <4>1. devices'[v] = {} /\ deviceCount'[v] = 0
        BY <1>0, <2>1, <3>1 DEF CreateAccount, GroupsTypeOK
      <4>2. QED
        BY <4>1, FS_EmptySet
    <3>2. CASE v # u
      BY <1>0, <1>s, <2>1, <3>2 DEF CreateAccount, GroupsTypeOK
    <3>3. QED
      BY <3>1, <3>2
  <2>2. CASE RegisterDevice(u, d)
    <3>1. CASE v = u /\ d \notin devices[u]
      <4>1. devices'[v] = devices[v] \cup {d} /\ deviceCount'[v] = deviceCount[v] + 1
        BY <1>0, <2>2, <3>1 DEF RegisterDevice, GroupsTypeOK
      <4>2. v \in accounts /\ v \notin inherited
        BY <2>2 DEF RegisterDevice
      <4>3. QED
        BY <1>a, <4>1, <4>2
    <3>2. CASE v # u \/ d \in devices[u]
      BY <1>0, <1>s, <2>2, <3>2 DEF RegisterDevice, GroupsTypeOK
    <3>3. QED
      BY <3>1, <3>2
  <2>3. CASE CheckIn(u) \/ DeleteAccount(u)
    BY <1>s, <2>3 DEF CheckIn, DeleteAccount
  <2>4. ASSUME NEW e \in Devices, RemoveDevice(u, e)
        PROVE  Cardinality(devices'[v]) <= deviceCount'[v]
    <3>1. v \in accounts /\ v \notin inherited
      BY <2>4 DEF RemoveDevice, Departs
    <3>2. CASE v = u
      <4>1. /\ e \in devices[v]
            /\ devices'[v] = devices[v] \ {e}
            /\ deviceCount'[v] = deviceCount[v] - 1
        BY <1>0, <1>t, <2>4, <3>2 DEF RemoveDevice, Departs, Uncounted, GroupsTypeOK
      <4>2. QED
        BY <1>r, <3>1, <4>1
    <3>3. CASE v # u
      BY <1>0, <1>s, <2>4, <3>1, <3>3 DEF RemoveDevice, GroupsTypeOK
    <3>4. QED
      BY <3>2, <3>3
  <2>5. ASSUME NEW t \in Tokens, CheckIssuer(u, d, t)
        PROVE  Cardinality(devices'[v]) <= deviceCount'[v]
    BY <1>s, <2>5 DEF CheckIssuer
  <2>6. ASSUME NEW t \in Tokens, JoinNetwork(u, d, t)
        PROVE  Cardinality(devices'[v]) <= deviceCount'[v]
    <3>1. v \in accounts /\ v \notin inherited
      BY <2>6 DEF JoinNetwork, Departs
    <3>2. CASE v = tokenAccount[t]
      <4>1. devices'[v] = devices[v] \cup {d} /\ deviceCount'[v] = deviceCount[v] + 1
        BY <1>0, <2>6, <3>2 DEF JoinNetwork
      <4>2. QED
        BY <1>a, <3>1, <4>1
    <3>3. CASE v = u /\ v # tokenAccount[t]
      <4>1. /\ d \in devices[v]
            /\ devices'[v] = devices[v] \ {d}
            /\ deviceCount'[v] = deviceCount[v] - 1
        BY <1>0, <1>t, <2>6, <3>1, <3>3 DEF JoinNetwork, Departs, Uncounted
      <4>2. QED
        BY <1>r, <3>1, <4>1
    <3>4. CASE v # u /\ v # tokenAccount[t]
      BY <1>0, <1>s, <2>6, <3>1, <3>4 DEF JoinNetwork
    <3>5. QED
      BY <3>2, <3>3, <3>4
  <2>7. QED
    BY <1>2, <2>1, <2>2, <2>3, <2>4, <2>5, <2>6 DEF Call
<1>3. CASE Sweeping
  <2>1. /\ accounts' \subseteq accounts
        /\ inherited' = inherited
        /\ deviceCount' = deviceCount
    BY <1>3 DEF Sweeping, SweepList, SweepAccount, SweepCrashes, SweepDelete, SweepDevice,
       DeviceSweepCrashes
  <2>2. \/ devices' = devices
        \/ \E u, d : devices' = [devices EXCEPT ![u] = @ \ {d}]
    BY <1>3 DEF Sweeping, SweepList, SweepAccount, SweepCrashes, SweepDelete, SweepDevice,
       DeviceSweepCrashes
  <2>3. devices'[v] \in SUBSET devices[v]
    BY <1>0, <2>2 DEF GroupsTypeOK
  <2>4. QED
    BY <1>s, <2>1, <2>3
<1>4. CASE Background
  BY <1>4, <1>s DEF Background, WriteToken, ExpireToken, GoIdle, CollectAccount,
     CleanupExpiredJoinTokens, CleanupInactiveAccounts
<1>5. CASE UNCHANGED groupsVars
  BY <1>5, <1>s DEF groupsVars
<1>6. QED
  BY <1>1, <1>2, <1>3, <1>4, <1>5 DEF GroupsNext

\* The cached count of an account (AccountDoc::deviceCount) never falls below
\* the devices listed in it: with the types it is inductive as it stands.
THEOREM Undercount == GroupsSpec => []NeverUndercounts
<1>1. GroupsInit => NeverUndercounts
  BY DEF GroupsInit, NeverUndercounts
<1>2. GroupsTypeOK /\ NeverUndercounts /\ [GroupsNext]_groupsVars => NeverUndercounts'
  BY CountNext
<1>3. QED
  BY <1>1, <1>2, GroupsTypeCorrect, PTL DEF GroupsSpec

-----------------------------------------------------------------------------
(* CloudGroups: accounts under their other devices.                        *)

\* Neither removeDevice nor joinNetwork takes an account that lists a second
\* device: its count is at least two.
LEMMA DepartsSpares ==
    ASSUME GroupsTypeOK, NeverUndercounts, NEW u \in Uids, NEW d \in Devices, Departs(u, d),
           NEW v \in accounts, v \notin inherited, v \notin accounts'
    PROVE  ~(Cardinality(devices[v]) > 1)
<1>1. v = u /\ deviceCount[u] <= 1
  BY DEF Departs
<1>2. deviceCount[u] \in Nat /\ devices[u] \in SUBSET Devices
  BY DEF GroupsTypeOK
<1>3. Cardinality(devices[u]) \in Nat
  BY <1>2, DevicesAssumption, FS_Subset, FS_CardinalityType
<1>4. QED
  BY <1>1, <1>2, <1>3 DEF NeverUndercounts

Spares ==
    \A u \in accounts \ inherited :
        Cardinality(devices[u]) > 1 /\ u \notin accounts' =>
            \E s \in sweeps : s.uid = u /\ s.listed

\* An account that lists two devices goes only by a recursive delete that was
\* asked for, whatever joins, removals and sweeps interleave.
THEOREM OthersSpared == GroupsSpec => SparesOtherDevices
<1>1. ASSUME GroupsTypeOK, NeverUndercounts, GroupsNext PROVE Spares
  <2> SUFFICES ASSUME NEW v \in accounts, v \notin inherited, v \notin accounts',
                      Cardinality(devices[v]) > 1
               PROVE  \E s \in sweeps : s.uid = v /\ s.listed
    BY DEF Spares
  <2> USE DEF docVars, tokenVars, sweepVars, clientVars
  <2>1. ASSUME NEW d \in Devices, Client(d) PROVE FALSE
    BY <2>1 DEF Client, SignIn, SignOut, SignInWithCustomToken, PairingFails
  <2>2. ASSUME NEW u \in Uids, NEW d \in Devices, Call(u, d) PROVE FALSE
    <3>1. CASE \E e \in Devices : RemoveDevice(u, e)
      BY <1>1, <3>1, DepartsSpares DEF RemoveDevice
    <3>2. CASE \E t \in Tokens : JoinNetwork(u, d, t)
      BY <1>1, <3>2, DepartsSpares DEF JoinNetwork
    <3>3. CASE \/ CreateAccount(u) \/ RegisterDevice(u, d) \/ CheckIn(u) \/ DeleteAccount(u)
               \/ \E t \in Tokens : CheckIssuer(u, d, t)
      BY <3>3 DEF CreateAccount, RegisterDevice, CheckIn, DeleteAccount, CheckIssuer
    <3>4. QED
      BY <2>2, <3>1, <3>2, <3>3 DEF Call
  <2>3. CASE Sweeping
    <3>1. \E s \in sweeps : SweepAccount(s)
      BY <2>3 DEF Sweeping, SweepList, SweepCrashes, SweepDelete, SweepDevice,
         DeviceSweepCrashes
    <3>2. QED
      BY <3>1 DEF SweepAccount
  <2>4. ASSUME Background PROVE FALSE
    BY <2>4 DEF Background, WriteToken, ExpireToken, GoIdle, CollectAccount,
       CleanupExpiredJoinTokens, CleanupInactiveAccounts
  <2>5. QED
    BY <1>1, <2>1, <2>2, <2>3, <2>4 DEF GroupsNext
<1>2. GroupsTypeOK /\ NeverUndercounts /\ [GroupsNext]_groupsVars => [Spares]_groupsVars
  BY <1>1
<1>3. QED
  BY <1>2, GroupsTypeCorrect, Undercount, PTL DEF GroupsSpec, SparesOtherDevices, Spares
=============================================================================
