---------------------------- MODULE SignalingServer ----------------------------
(***************************************************************************)
(* The WebRTC signaling server (src/server): one handler task per          *)
(* websocket, a shared map of the peers of every IP group, and a bounded   *)
(* channel per peer.  A handler                                            *)
(*                                                                         *)
(*   - takes the map's lock once, checks both limits, copies the senders   *)
(*     and the descriptions of the other peers and inserts its own;        *)
(*   - sends Join to every copied sender and then Hello to itself, before  *)
(*     anything drains its own channel;                                    *)
(*   - spawns the send task (channel -> socket) and the receive task       *)
(*     (socket -> Update, Offer, Answer);                                  *)
(*   - when either task ends, aborts the other, takes the lock to remove   *)
(*     itself and sends Left to every remaining peer.                      *)
(*                                                                         *)
(* A lock section is one action; every send to a channel is an action of   *)
(* its own, enabled while the channel has room or its receiver is dropped. *)
(*                                                                         *)
(* A peer is one connection: its UUID is drawn by the server and never     *)
(* used again.  Its description (alias, device model, token) is its        *)
(* version: 0 as sent on connecting, one more with every Update.           *)
(***************************************************************************)
EXTENDS Integers, Sequences, FiniteSets

CONSTANTS
    Peers,            \* connections
    Groups,           \* IP groups: an IPv4 address or an IPv6 /64 prefix
    GroupOf,          \* the IP group a connection comes from
    ChannelCap,       \* capacity of a peer's channel, 4 in the code
    MaxConnections,   \* MAX_CONNECTIONS_PER_IP
    MaxRequests,      \* MAX_REQUESTS_PER_IP_PER_HOUR
    Quitters,         \* connections whose client may go away
    MaxMessages,      \* bound: messages clients send, all together
    MaxClears         \* bound: hours that pass

ASSUME PeersAssumption == IsFiniteSet(Peers) /\ GroupOf \in [Peers -> Groups]
ASSUME LimitsAssumption ==
    /\ ChannelCap \in Nat \ {0}
    /\ MaxConnections \in Nat
    /\ MaxRequests \in Nat
ASSUME BoundsAssumption ==
    /\ Quitters \subseteq Peers
    /\ MaxMessages \in Nat
    /\ MaxClears \in Nat

VARIABLES
    handler,       \* where the handler of a connection stands
    clientOpen,    \* the client's end of the websocket is open
    txMap,         \* the peers in tx_map, all groups together
    groupMaps,     \* the groups that have a map of peers, possibly empty
    info,          \* ClientState::client of a peer in txMap
    requestCount,  \* request_count_map
    snapshot,      \* the `peers` a handler copied for its Hello
    todo,          \* the senders a handler has still to send Join or Left to
    recvTask,      \* the receive task
    job,           \* the message the receive task is sending, and to whom
    channel,       \* mpsc::channel of a peer
    roster,        \* what the peer's client lists once it drains its channel
    messages,      \* messages clients have sent
    clears         \* hours passed

mapVars     == <<txMap, groupMaps, info>>
handlerVars == <<handler, snapshot, todo>>
recvVars    == <<recvTask, job, messages>>
queueVars   == <<channel, roster>>
vars == <<mapVars, handlerVars, recvVars, queueVars, clientOpen, requestCount,
          clears>>

-----------------------------------------------------------------------------
(* Messages.                                                               *)

Described == Peers \X Nat          \* a ClientInfo: an id and its description

Message ==
    [type : {"Hello"}, peers : SUBSET Described]
        \cup [type : {"Join", "Update"}, peer : Described]
        \cup [type : {"Left"}, peer : Peers]
        \cup [type : {"Offer", "Answer"}, peer : Described]
        \cup [type : {"Error"}]

Ids(list) == {d[1] : d \in list}

\* Mutant: Hello starts the list afresh.
ApplyHelloResets(list, m) ==
    CASE m.type = "Hello" -> m.peers
      [] m.type \in {"Join", "Update"} ->
            {d \in list : d[1] # m.peer[1]} \cup {m.peer}
      [] m.type = "Left" -> {d \in list : d[1] # m.peer}
      [] OTHER -> list

\* The devices a client lists after a message: Hello, Join and Update
\* register every peer they name, replacing its description, Left removes
\* one, and nothing else touches the list.
Apply(list, m) ==
    LET Without(ids) == {d \in list : d[1] \notin ids}
    IN  CASE m.type = "Hello" -> Without(Ids(m.peers)) \cup m.peers
          [] m.type \in {"Join", "Update"} -> Without({m.peer[1]}) \cup {m.peer}
          [] m.type = "Left" -> Without({m.peer})
          [] OTHER -> list

-----------------------------------------------------------------------------
(* The shared map and the channels.                                        *)

Members(g) == {q \in txMap : GroupOf[q] = g}
Others(p) == Members(GroupOf[p]) \ {p}

\* The orders in which the iteration of a HashMap may list a set.
Orders(S) ==
    {s \in [1..Cardinality(S) -> S] : \A x \in S : \E i \in DOMAIN s : s[i] = x}

\* `rx` is owned by the handler until it moves to the send task, and is
\* dropped when that task ends or is aborted.
RxOpen(q) == handler[q] \in {"joining", "running"}

\* Mutant: a dropped receiver is waited for.
CanSendWaits(q) == RxOpen(q) /\ Len(channel[q]) < ChannelCap

\* `tx.send(..).await` completes: there is room, or the receiver is dropped
\* and the error is ignored.
CanSend(q) == RxOpen(q) => Len(channel[q]) < ChannelCap

\* Mutant: try_send, which drops the message when the channel is full.
SendOrDrop(q, m) ==
    IF RxOpen(q) /\ Len(channel[q]) < ChannelCap
    THEN /\ channel' = [channel EXCEPT ![q] = Append(@, m)]
         /\ roster' = [roster EXCEPT ![q] = Apply(@, m)]
    ELSE UNCHANGED queueVars

Send(q, m) ==
    /\ CanSend(q)
    /\ IF RxOpen(q)
       THEN /\ channel' = [channel EXCEPT ![q] = Append(@, m)]
            /\ roster' = [roster EXCEPT ![q] = Apply(@, m)]
       ELSE UNCHANGED queueVars

\* protect_ddos_request_count
WithinRequestLimit(g) == requestCount[g] < MaxRequests
CountRequest(g) == requestCount' = [requestCount EXCEPT ![g] = @ + 1]

-----------------------------------------------------------------------------
NoJob == [msg |-> [type |-> "Error"], to |-> <<>>]

Init ==
    /\ handler = [p \in Peers |-> "new"]
    /\ clientOpen = [p \in Peers |-> FALSE]
    /\ txMap = {}
    /\ groupMaps = {}
    /\ info = [p \in Peers |-> 0]
    /\ requestCount = [g \in Groups |-> 0]
    /\ snapshot = [p \in Peers |-> {}]
    /\ todo = [p \in Peers |-> <<>>]
    /\ recvTask = [p \in Peers |-> "off"]
    /\ job = [p \in Peers |-> NoJob]
    /\ channel = [p \in Peers |-> <<>>]
    /\ roster = [p \in Peers |-> {}]
    /\ messages = 0
    /\ clears = 0

-----------------------------------------------------------------------------
(* Connecting.                                                             *)

\* Either limit answers "Limit reached".  The group's map was created
\* before the limits were looked at, and stays.
Refuse(p) ==
    /\ handler[p] = "new"
    /\ \/ Cardinality(Members(GroupOf[p])) >= MaxConnections
       \/ ~WithinRequestLimit(GroupOf[p])
    /\ groupMaps' = groupMaps \cup {GroupOf[p]}
    /\ handler' = [handler EXCEPT ![p] = "refused"]
    /\ UNCHANGED <<txMap, info, snapshot, todo, recvVars, queueVars,
                   clientOpen, requestCount, clears>>

\* The peer is entered, with the senders it will tell and the descriptions
\* it will be told.
Enter(p, told) ==
    /\ CountRequest(GroupOf[p])
    /\ groupMaps' = groupMaps \cup {GroupOf[p]}
    /\ \E order \in Orders(told) : todo' = [todo EXCEPT ![p] = order]
    /\ snapshot' = [snapshot EXCEPT ![p] = {<<q, info[q]>> : q \in Others(p)}]
    /\ txMap' = txMap \cup {p}
    /\ info' = [info EXCEPT ![p] = 0]
    /\ handler' = [handler EXCEPT ![p] = "joining"]
    /\ clientOpen' = [clientOpen EXCEPT ![p] = TRUE]
    /\ UNCHANGED <<recvVars, queueVars, clears>>

\* Mutant: only peers past their own Hello are told.
RegisterJoinsRunning(p) ==
    /\ handler[p] = "new"
    /\ Cardinality(Members(GroupOf[p])) < MaxConnections
    /\ WithinRequestLimit(GroupOf[p])
    /\ Enter(p, {q \in Others(p) : handler[q] = "running"})

\* The lock section of a connection within both limits.
Register(p) ==
    /\ handler[p] = "new"
    /\ Cardinality(Members(GroupOf[p])) < MaxConnections
    /\ WithinRequestLimit(GroupOf[p])
    /\ Enter(p, Others(p))

\* The loop over peers_tx: one send at a time, each waiting for its channel.
SendJoin(p) ==
    /\ handler[p] = "joining"
    /\ todo[p] # <<>>
    /\ Send(Head(todo[p]), [type |-> "Join", peer |-> <<p, 0>>])
    /\ todo' = [todo EXCEPT ![p] = Tail(@)]
    /\ UNCHANGED <<mapVars, handler, snapshot, recvVars, clientOpen,
                   requestCount, clears>>

\* Hello goes through the handler's own channel, which nothing drains yet;
\* then both tasks are spawned.
SendHello(p) ==
    /\ handler[p] = "joining"
    /\ todo[p] = <<>>
    /\ Send(p, [type |-> "Hello", peers |-> snapshot[p]])
    /\ handler' = [handler EXCEPT ![p] = "running"]
    /\ recvTask' = [recvTask EXCEPT ![p] = "alive"]
    /\ UNCHANGED <<mapVars, snapshot, todo, job, messages, clientOpen,
                   requestCount, clears>>

-----------------------------------------------------------------------------
(* The send task and the receive task.                                     *)

\* The send task takes the next message and the socket accepts it.
Deliver(p) ==
    /\ handler[p] = "running"
    /\ channel[p] # <<>>
    /\ channel' = [channel EXCEPT ![p] = Tail(@)]
    /\ UNCHANGED <<mapVars, handlerVars, recvVars, roster, clientOpen,
                   requestCount, clears>>

\* Waiting for the client's next message; one sent before the client went
\* away may still be read.  An aborted task may be in the middle of a poll,
\* and reads on until it has to wait.
Reading(p) == recvTask[p] \in {"alive", "aborted"} /\ job[p].to = <<>>

ClientSends(p) ==
    /\ Reading(p)
    /\ messages < MaxMessages
    /\ messages' = messages + 1

\* A client message over the request limit: an Error to the client, and the
\* task returns.
RecvOverLimit(p) ==
    /\ ClientSends(p)
    /\ ~WithinRequestLimit(GroupOf[p])
    /\ job' = [job EXCEPT ![p] = [msg |-> [type |-> "Error"], to |-> <<p>>]]
    /\ recvTask' = [recvTask EXCEPT
                       ![p] = IF @ = "alive" THEN "failing" ELSE @]
    /\ UNCHANGED <<mapVars, handlerVars, queueVars, clientOpen, requestCount,
                   clears>>

\* The lock section of send_update_to_other_peers_with_lock.
RecvUpdate(p) ==
    /\ ClientSends(p)
    /\ WithinRequestLimit(GroupOf[p])
    /\ CountRequest(GroupOf[p])
    /\ IF p \in txMap
       THEN /\ info' = [info EXCEPT ![p] = @ + 1]
            /\ \E order \in Orders(Others(p)) :
                  job' = [job EXCEPT ![p] =
                             [msg |-> [type |-> "Update",
                                       peer |-> <<p, info[p] + 1>>],
                              to |-> order]]
       ELSE UNCHANGED <<info, job>>
    /\ UNCHANGED <<txMap, groupMaps, handlerVars, recvTask, queueVars,
                   clientOpen, clears>>

\* The message carries the description the handler captured on connecting,
\* whatever Update said since.
ForwardSdp(p, reachable) ==
    /\ ClientSends(p)
    /\ WithinRequestLimit(GroupOf[p])
    /\ CountRequest(GroupOf[p])
    /\ \E target \in Peers, kind \in {"Offer", "Answer"} :
          job' = [job EXCEPT ![p] =
                     IF target \in reachable
                     THEN [msg |-> [type |-> kind, peer |-> <<p, 0>>],
                           to |-> <<target>>]
                     ELSE NoJob]
    /\ UNCHANGED <<mapVars, handlerVars, recvTask, queueVars, clientOpen,
                   clears>>

\* The lock section of send_to_peer_with_lock: the target is looked up in
\* the group of the sender only.
RecvSdp(p) == ForwardSdp(p, Members(GroupOf[p]))

\* One send of the receive task.
Advance(j) == IF Len(j.to) = 1 THEN NoJob
              ELSE [msg |-> j.msg, to |-> Tail(j.to)]

RecvForward(p) ==
    /\ recvTask[p] # "off"
    /\ job[p].to # <<>>
    /\ Send(Head(job[p].to), job[p].msg)
    /\ job' = [job EXCEPT ![p] = Advance(job[p])]
    /\ UNCHANGED <<mapVars, handlerVars, recvTask, messages, clientOpen,
                   requestCount, clears>>

\* The receive task returns: the socket is closed, or after an Error.
RecvReturns(p) ==
    /\ job[p].to = <<>>
    /\ \/ recvTask[p] = "alive" /\ ~clientOpen[p]
       \/ recvTask[p] = "failing"
    /\ recvTask' = [recvTask EXCEPT ![p] = "off"]
    /\ UNCHANGED <<mapVars, handlerVars, job, messages, queueVars, clientOpen,
                   requestCount, clears>>

\* The abort takes effect: what the task had still to send is dropped.
RecvAborted(p) ==
    /\ recvTask[p] = "aborted"
    /\ recvTask' = [recvTask EXCEPT ![p] = "off"]
    /\ job' = [job EXCEPT ![p] = NoJob]
    /\ UNCHANGED <<mapVars, handlerVars, messages, queueVars, clientOpen,
                   requestCount, clears>>

-----------------------------------------------------------------------------
(* Disconnecting.                                                          *)

ClientQuits(p) ==
    /\ p \in Quitters
    /\ clientOpen[p]
    /\ clientOpen' = [clientOpen EXCEPT ![p] = FALSE]
    /\ UNCHANGED <<mapVars, handlerVars, recvVars, queueVars, requestCount,
                   clears>>

\* The receiver is dropped, and with it what was queued.
DropChannel(p) ==
    /\ channel' = [channel EXCEPT ![p] = <<>>]
    /\ roster' = [roster EXCEPT ![p] = {}]

\* select!: the send task fails on the closed socket; recv_task.abort().
SendTaskFails(p) ==
    /\ handler[p] = "running"
    /\ ~clientOpen[p]
    /\ channel[p] # <<>>
    /\ handler' = [handler EXCEPT ![p] = "closing"]
    /\ recvTask' = [recvTask EXCEPT ![p] = IF @ = "off" THEN @ ELSE "aborted"]
    /\ DropChannel(p)
    /\ UNCHANGED <<mapVars, snapshot, todo, job, messages, clientOpen,
                   requestCount, clears>>

\* select!: the receive task has returned; send_task.abort().
RecvTaskDone(p) ==
    /\ handler[p] = "running"
    /\ recvTask[p] = "off"
    /\ handler' = [handler EXCEPT ![p] = "closing"]
    /\ clientOpen' = [clientOpen EXCEPT ![p] = FALSE]
    /\ DropChannel(p)
    /\ UNCHANGED <<mapVars, snapshot, todo, recvVars, requestCount, clears>>

Leave(p, removed) ==
    /\ handler[p] = "closing"
    /\ txMap' = txMap \ removed
    /\ groupMaps' = IF Others(p) = {} THEN groupMaps \ {GroupOf[p]}
                    ELSE groupMaps
    /\ \E order \in Orders(Others(p)) : todo' = [todo EXCEPT ![p] = order]
    /\ handler' = [handler EXCEPT ![p] = "leaving"]
    /\ snapshot' = [snapshot EXCEPT ![p] = {}]
    /\ UNCHANGED <<info, recvVars, queueVars, clientOpen, requestCount, clears>>

\* The lock section of the disconnect: the last peer of a group takes the
\* group's map with it.
Unregister(p) == Leave(p, {p})

SendLeft(p) ==
    /\ handler[p] = "leaving"
    /\ todo[p] # <<>>
    /\ Send(Head(todo[p]), [type |-> "Left", peer |-> p])
    /\ todo' = [todo EXCEPT ![p] = Tail(@)]
    /\ UNCHANGED <<mapVars, handler, snapshot, recvVars, clientOpen,
                   requestCount, clears>>

Finish(p) ==
    /\ handler[p] = "leaving"
    /\ todo[p] = <<>>
    /\ handler' = [handler EXCEPT ![p] = "gone"]
    /\ UNCHANGED <<mapVars, snapshot, todo, recvVars, queueVars, clientOpen,
                   requestCount, clears>>

\* The hourly job of the scheduler.
ClearRequestCounts ==
    /\ clears < MaxClears
    /\ clears' = clears + 1
    /\ requestCount' = [g \in Groups |-> 0]
    /\ UNCHANGED <<mapVars, handlerVars, recvVars, queueVars, clientOpen>>

-----------------------------------------------------------------------------
Connect(p) == Refuse(p) \/ Register(p)

\* The steps the server takes on its own.
HandlerStep(p) ==
    \/ SendJoin(p) \/ SendHello(p)
    \/ SendTaskFails(p) \/ RecvTaskDone(p)
    \/ Unregister(p) \/ SendLeft(p) \/ Finish(p)
RecvStep(p) == RecvForward(p) \/ RecvReturns(p) \/ RecvAborted(p)

Next ==
    \/ \E p \in Peers :
          \/ Connect(p) \/ HandlerStep(p) \/ Deliver(p) \/ RecvStep(p)
          \/ RecvOverLimit(p) \/ RecvUpdate(p) \/ RecvSdp(p)
          \/ ClientQuits(p)
    \/ ClearRequestCounts

Spec == Init /\ [][Next]_vars

\* The runtime keeps polling every task that can make progress, and sockets
\* accept what is sent.  Clients connect, send and quit as they like.
Fairness ==
    \A p \in Peers : WF_vars(HandlerStep(p)) /\ WF_vars(Deliver(p))
                     /\ WF_vars(RecvStep(p))
FairSpec == Spec /\ Fairness

-----------------------------------------------------------------------------
TypeOK ==
    /\ handler \in [Peers -> {"new", "refused", "joining", "running",
                              "closing", "leaving", "gone"}]
    /\ clientOpen \in [Peers -> BOOLEAN]
    /\ txMap \subseteq Peers
    /\ groupMaps \subseteq Groups
    /\ info \in [Peers -> Nat]
    /\ requestCount \in [Groups -> Nat]
    /\ snapshot \in [Peers -> SUBSET Described]
    /\ todo \in [Peers -> Seq(Peers)]
    /\ recvTask \in [Peers -> {"off", "alive", "failing", "aborted"}]
    /\ job \in [Peers -> [msg : Message, to : Seq(Peers)]]
    /\ channel \in [Peers -> Seq(Message)]
    /\ roster \in [Peers -> SUBSET Described]
    /\ messages \in Nat
    /\ clears \in Nat
-----------------------------------------------------------------------------
(* Properties.                                                             *)

Listed(p) == Ids(roster[p])

\* An entry of tx_map belongs to a handler that has yet to remove it: no
\* path through handle_socket returns with its peer still registered.
RegisteredIsHandled ==
    txMap = {p \in Peers : handler[p] \in {"joining", "running", "closing"}}

\* The connection limit is looked at and the peer inserted under one lock,
\* so that no interleaving of handshakes exceeds MAX_CONNECTIONS.
WithinConnectionLimit ==
    \A g \in Groups : Cardinality(Members(g)) <= MaxConnections

\* Two peers of a group whose handlers both run list each other: the
\* snapshot and the insertion are one lock section, so of two peers the
\* later one finds the earlier one in its Hello and announces itself to it.
MutualDiscovery ==
    \A p, q \in Peers :
        /\ p # q
        /\ GroupOf[p] = GroupOf[q]
        /\ handler[p] = "running"
        /\ handler[q] = "running"
        => q \in Listed(p)

\* Nothing crosses groups: neither a listed device nor a queued message
\* names a peer of another group than the receiver's.
GroupsAreIsolated ==
    \A p \in Peers :
        /\ \A q \in Listed(p) : GroupOf[q] = GroupOf[p]
        /\ \A i \in DOMAIN channel[p] :
              channel[p][i].type \in {"Offer", "Answer"}
                  => GroupOf[channel[p][i].peer[1]] = GroupOf[p]

\* A device disappears from a list only after it was unregistered: Left is
\* sent by a handler that has removed itself, and no message overtakes it.
NeverDroppedWhileRegistered ==
    [][\A p \in Peers : RxOpen(p) /\ RxOpen(p)' =>
          \A q \in Listed(p) \ Listed(p)' : q \notin txMap]_vars

\* A connection whose channel other peers filled before its own Hello.
Wedged(q) == handler[q] = "joining" /\ Len(channel[q]) = ChannelCap

\* A connection that was registered reaches its message loop, and one whose
\* client went away is noticed and taken down to the last Left, whichever
\* of its tasks was waiting for what: the one thing that can stop a handler
\* is a connection whose channel is full before anything drains it.
HandlersProgress ==
    \A p \in Peers :
        /\ handler[p] = "joining"
               ~> handler[p] # "joining" \/ \E q \in Peers : Wedged(q)
        /\ RxOpen(p) /\ ~clientOpen[p]
               ~> handler[p] = "gone" \/ \E q \in Peers : Wedged(q)

-----------------------------------------------------------------------------
(* The inductive strengthening of the invariants.                          *)

\* What the receive task sends is never a Left, and is the sender's own.
JobInv ==
    \A p \in Peers :
        \/ job[p].msg.type = "Error"
        \/ /\ job[p].msg.type \in {"Update", "Offer", "Answer"}
           /\ job[p].msg.peer[1] = p

\* Of two peers with open channels, each is listed by the other, is about
\* to announce itself to it, or is in the snapshot of its coming Hello.
WillJoin(q, p) ==
    handler[q] = "joining" /\ \E i \in DOMAIN todo[q] : todo[q][i] = p
WillGreet(p, q) ==
    handler[p] = "joining" /\ q \in Ids(snapshot[p])
DiscoveryInv ==
    \A p, q \in Peers :
        p # q /\ GroupOf[p] = GroupOf[q] /\ RxOpen(p) /\ RxOpen(q)
            => q \in Listed(p) \/ WillJoin(q, p) \/ WillGreet(p, q)

\* Whatever is still to be sent stays in the sender's group.
GroupInv ==
    \A p \in Peers :
        /\ \A i \in DOMAIN todo[p] : GroupOf[todo[p][i]] = GroupOf[p]
        /\ \A i \in DOMAIN job[p].to : GroupOf[job[p].to[i]] = GroupOf[p]
        /\ \A d \in snapshot[p] : GroupOf[d[1]] = GroupOf[p]

IndInv ==
    /\ TypeOK
    /\ RegisteredIsHandled
    /\ WithinConnectionLimit
    /\ JobInv
    /\ DiscoveryInv
    /\ GroupInv
    /\ GroupsAreIsolated
=============================================================================
