------------------------------ MODULE RtcSignaling ------------------------------
(***************************************************************************)
(* The client of the signaling server (core/src/webrtc/signaling.rs) and   *)
(* how send_offer and accept_offer exchange their descriptions over it.    *)
(*                                                                         *)
(* A connection is a chain of tasks and bounded queues: the socket, the    *)
(* reading task, a queue of capacity 1, the listener of start_listener, a  *)
(* queue of capacity 16, the app; outwards a queue of capacity 1 and the   *)
(* writing task.  The server is what its clients may assume of it: one     *)
(* queue per client, a Hello in it, and relayed offers and answers.        *)
(***************************************************************************)
EXTENDS Integers, SequencesExt

CONSTANTS
    Clients,
    Sessions,       \* the offers a client may make
    Offerer,        \* who makes it
    Target,         \* and to whom
    AppCapacity,    \* mpsc::channel(16)
    MaxEarly,       \* bound: messages the server queues before the Hello
    MaxNews         \* bound: Join, Update, Left and Error messages per client

ASSUME SessionsAssumption ==
    /\ Offerer \in [Sessions -> Clients]
    /\ Target \in [Sessions -> Clients]
    /\ \A s \in Sessions : Offerer[s] # Target[s]
ASSUME BoundsAssumption == AppCapacity \in Nat \ {0} /\ MaxEarly \in Nat
                          /\ MaxNews \in [Clients -> Nat]

VARIABLES
    live,       \* the socket of a client
    sent,       \* what the server has put into it
    down,       \* what of that the client has not read
    up,         \* what the client has put into it
    conn,       \* connect(): "idle", "waiting" for the Hello, "open", "panicked"
    hello,      \* client_tx .. client_rx, capacity 1
    held,       \* the message the reading task holds, at most one
    rx,         \* receive_tx .. receive_rx, capacity 1
    passing,    \* the message the listener holds, at most one
    app,        \* the queue to the app
    ready,      \* on_connection has returned, the app's loop runs
    seen,       \* what the app has been given
    sendq,      \* the queue to the writing task, capacity 1
    writer,     \* the writing task runs
    callbacks,  \* on_answer: sessions a callback is registered for
    offer,      \* where send_offer is
    accepted,   \* where accept_offer is
    remote      \* the remote description a session's side was given

socketVars == <<live, sent, down, up>>
inVars == <<conn, hello, held, rx, passing, app, ready, seen>>
outVars == <<sendq, writer>>
sessionVars == <<callbacks, offer, accepted, remote>>
vars == <<socketVars, inVars, outVars, sessionVars>>

\* Compressed, then in base64; and back.
encode_sdp(description) == <<"base64", "zlib", description>>
decode_sdp(sdp) == sdp[3]

Description(c, s) == <<c, s>>
Hello == [type |-> "HELLO"]
News == [type |-> "NEWS"]
Update == [type |-> "UPDATE"]
Offer(s) == [type |-> "OFFER", session |-> s, sdp |-> encode_sdp(Description(Offerer[s], s))]

\* Mutant: the answer is the offer's description.
AnswerWithOffer(s) == [type |-> "ANSWER", session |-> s, sdp |-> Offer(s).sdp]
Answer(s) == [type |-> "ANSWER", session |-> s, sdp |-> encode_sdp(Description(Target[s], s))]

Init ==
    /\ live = [c \in Clients |-> FALSE]
    /\ sent = [c \in Clients |-> <<>>] /\ down = sent /\ up = sent
    /\ conn = [c \in Clients |-> "idle"]
    /\ hello = live /\ ready = live /\ writer = live
    /\ held = sent /\ rx = sent /\ passing = sent /\ app = sent /\ seen = sent
    /\ sendq = sent
    /\ callbacks = [c \in Clients |-> {}]
    /\ offer = [s \in Sessions |-> "idle"]
    /\ accepted = [s \in Sessions |-> "idle"]
    /\ remote = [c \in Clients |-> [s \in Sessions |-> <<>>]]

Put(q, c, m) == [q EXCEPT ![c] = Append(@, m)]
Drop(q, c) == [q EXCEPT ![c] = Tail(@)]

-----------------------------------------------------------------------------
(* The server, as its clients see it.                                      *)

Count(c, type) == Len(SelectSeq(sent[c], LAMBDA m : m.type = type))

Queue(c, m) == sent' = Put(sent, c, m) /\ down' = Put(down, c, m)

SendHello(c) ==
    /\ live[c] /\ Count(c, "HELLO") = 0
    /\ Queue(c, Hello)
    /\ UNCHANGED <<live, up, inVars, outVars, sessionVars>>

\* A peer joins, changes or leaves: the client may not even have its Hello.
SendNews(c) ==
    /\ live[c] /\ Count(c, "NEWS") < MaxNews[c]
    /\ Count(c, "HELLO") = 0 => Len(sent[c]) < MaxEarly
    /\ Queue(c, News)
    /\ UNCHANGED <<live, up, inVars, outVars, sessionVars>>

\* An offer or an answer goes to a connected target or nowhere.
Relay(c) ==
    /\ up[c] # <<>>
    /\ up' = Drop(up, c)
    /\ LET m == Head(up[c])
           to == IF m.type = "OFFER" THEN Target[m.session] ELSE Offerer[m.session]
       IN  IF m.type # "UPDATE" /\ live[to] /\ Count(to, "HELLO") > 0
           THEN Queue(to, m) ELSE UNCHANGED <<sent, down>>
    /\ UNCHANGED <<live, inVars, outVars, sessionVars>>

\* The connection breaks, or the server goes away.
Break(c) ==
    /\ live[c]
    /\ live' = [live EXCEPT ![c] = FALSE]
    /\ down' = [down EXCEPT ![c] = <<>>]
    /\ up' = [up EXCEPT ![c] = <<>>]
    /\ UNCHANGED <<sent, inVars, outVars, sessionVars>>

-----------------------------------------------------------------------------
(* connect(): its two tasks, and the Hello it waits for.                   *)

Connect(c) ==
    /\ conn[c] = "idle"
    /\ conn' = [conn EXCEPT ![c] = "waiting"]
    /\ live' = [live EXCEPT ![c] = TRUE]
    /\ writer' = [writer EXCEPT ![c] = TRUE]
    /\ UNCHANGED <<sent, down, up, hello, held, rx, passing, app, ready, seen, sendq,
                   sessionVars>>

\* Mutant: the Hello goes on to the listener before connect() gets to see it.
AnnouncesLast(c, m) == m = Hello /\ rx[c] = <<>>
Announces(c, m) == m = Hello

\* Mutant: the Hello is connect()'s alone.
ForwardsRest(m) == m # Hello
Forwards(m) == TRUE

\* The reading task: the next message, from which a Hello tells connect() who
\* the client is, and then the queue, when it has room.
Read(c) ==
    /\ held[c] = <<>> /\ down[c] # <<>>
    /\ held' = IF Forwards(Head(down[c])) THEN Put(held, c, Head(down[c])) ELSE held
    /\ down' = Drop(down, c)
    /\ hello' = [hello EXCEPT ![c] = @ \/ Announces(c, Head(down[c]))]
    /\ UNCHANGED <<live, sent, up, conn, rx, passing, app, ready, seen, outVars, sessionVars>>

Forward(c) ==
    /\ held[c] # <<>> /\ Len(rx[c]) < 1
    /\ rx' = Put(rx, c, Head(held[c]))
    /\ held' = Drop(held, c)
    /\ UNCHANGED <<socketVars, conn, hello, passing, app, ready, seen, outVars, sessionVars>>

\* connect() returns and start_listener empties the queue from here on.
Open(c) ==
    /\ conn[c] = "waiting" /\ hello[c]
    /\ conn' = [conn EXCEPT ![c] = "open"]
    /\ UNCHANGED <<socketVars, hello, held, rx, passing, app, ready, seen, outVars, sessionVars>>

\* client_rx.recv().await.unwrap(): the reading task has ended without a Hello.
Panic(c) ==
    /\ conn[c] = "waiting" /\ ~hello[c]
    /\ ~live[c] /\ down[c] = <<>> /\ held[c] = <<>>
    /\ conn' = [conn EXCEPT ![c] = "panicked"]
    /\ UNCHANGED <<socketVars, hello, held, rx, passing, app, ready, seen, outVars, sessionVars>>

\* The writing task: a message, or after 120 seconds a ping.
Write(c) ==
    /\ writer[c] /\ live[c] /\ sendq[c] # <<>>
    /\ up' = Put(up, c, Head(sendq[c]))
    /\ sendq' = Drop(sendq, c)
    /\ UNCHANGED <<live, sent, down, inVars, writer, sessionVars>>

StopWriting(c) ==
    /\ writer[c] /\ ~live[c]
    /\ writer' = [writer EXCEPT ![c] = FALSE]
    /\ sendq' = [sendq EXCEPT ![c] = <<>>]
    /\ UNCHANGED <<socketVars, inVars, sessionVars>>

-----------------------------------------------------------------------------
(* start_listener and the app's loop.                                      *)

\* Mutant: a callback is lost when the app is behind.
CalledInTime(c, m) == m.type = "ANSWER" /\ m.session \in callbacks[c] /\ app[c] = <<>>
Called(c, m) == m.type = "ANSWER" /\ m.session \in callbacks[c]

\* An answer's callback is taken out and called before the answer goes on.
Listen(c) ==
    LET m == Head(rx[c])
        called == Called(c, m)
    IN  /\ conn[c] = "open" /\ rx[c] # <<>> /\ passing[c] = <<>>
        /\ rx' = Drop(rx, c)
        /\ passing' = Put(passing, c, m)
        /\ callbacks' = IF called THEN [callbacks EXCEPT ![c] = @ \ {m.session}]
                        ELSE callbacks
        /\ offer' = IF called THEN [offer EXCEPT ![m.session] = "answered"] ELSE offer
        /\ remote' = IF called THEN [remote EXCEPT ![c][m.session] = decode_sdp(m.sdp)]
                     ELSE remote
        /\ UNCHANGED <<socketVars, conn, hello, held, app, ready, seen, outVars, accepted>>

Pass(c) ==
    /\ passing[c] # <<>> /\ Len(app[c]) < AppCapacity
    /\ app' = Put(app, c, Head(passing[c]))
    /\ passing' = Drop(passing, c)
    /\ UNCHANGED <<socketVars, conn, hello, held, rx, ready, seen, outVars, sessionVars>>

\* The app's on_connection callback, which its loop waits for.
OnConnection(c) ==
    /\ conn[c] = "open" /\ ~ready[c]
    /\ ready' = [ready EXCEPT ![c] = TRUE]
    /\ UNCHANGED <<socketVars, conn, hello, held, rx, passing, app, seen, outVars, sessionVars>>

See(c) ==
    /\ ready[c] /\ app[c] # <<>>
    /\ seen' = Put(seen, c, Head(app[c]))
    /\ app' = Drop(app, c)
    /\ UNCHANGED <<socketVars, conn, hello, held, rx, passing, ready, outVars, sessionVars>>

-----------------------------------------------------------------------------
(* send_update, send_offer and accept_offer.                               *)

\* tx.send(..).await waits for room, and fails when the writing task has ended.
SendUpdate(c) ==
    /\ ready[c] /\ writer[c] /\ sendq[c] = <<>>
    /\ Len(up[c]) < MaxNews[c]               \* bound
    /\ sendq' = Put(sendq, c, Update)
    /\ UNCHANGED <<socketVars, inVars, writer, sessionVars>>

\* The offer goes out first, the callback for its answer is registered next.
SendOffer(s) ==
    LET c == Offerer[s]
    IN  /\ ready[c] /\ offer[s] = "idle"
        /\ \/ /\ writer[c] /\ sendq[c] = <<>>
              /\ sendq' = Put(sendq, c, Offer(s))
              /\ offer' = [offer EXCEPT ![s] = "sent"]
           \/ /\ ~writer[c]
              /\ offer' = [offer EXCEPT ![s] = "failed"]
              /\ UNCHANGED sendq
        /\ UNCHANGED <<socketVars, inVars, writer, callbacks, accepted, remote>>

OnAnswer(s) ==
    LET c == Offerer[s]
    IN  /\ offer[s] = "sent"
        /\ offer' = [offer EXCEPT ![s] = "waiting"]
        /\ callbacks' = [callbacks EXCEPT ![c] = @ \cup {s}]
        /\ UNCHANGED <<socketVars, inVars, outVars, accepted, remote>>

\* rx_answer resolves: SdpExchanged, and the peer connection has both ends.
Exchange(s) ==
    /\ offer[s] = "answered"
    /\ offer' = [offer EXCEPT ![s] = "exchanged"]
    /\ UNCHANGED <<socketVars, inVars, outVars, callbacks, accepted, remote>>

AcceptOffer(s) ==
    LET c == Target[s]
    IN  /\ accepted[s] = "idle" /\ Offer(s) \in Range(seen[c])
        /\ remote' = [remote EXCEPT ![c][s] = decode_sdp(Offer(s).sdp)]
        /\ \/ /\ writer[c] /\ sendq[c] = <<>>
              /\ sendq' = Put(sendq, c, Answer(s))
              /\ accepted' = [accepted EXCEPT ![s] = "exchanged"]
           \/ /\ ~writer[c]
              /\ accepted' = [accepted EXCEPT ![s] = "failed"]
              /\ UNCHANGED sendq
        /\ UNCHANGED <<socketVars, inVars, writer, callbacks, offer>>

-----------------------------------------------------------------------------

Tasks(c) == Read(c) \/ Forward(c) \/ Open(c) \/ Panic(c) \/ Write(c) \/ StopWriting(c)
            \/ Listen(c) \/ Pass(c) \/ OnConnection(c) \/ See(c)
Server(c) == SendHello(c) \/ SendNews(c) \/ Relay(c) \/ Break(c)
Apps == \/ \E c \in Clients : Connect(c) \/ SendUpdate(c)
        \/ \E s \in Sessions : SendOffer(s) \/ AcceptOffer(s)
Calls(s) == OnAnswer(s) \/ Exchange(s)

Next == \/ \E c \in Clients : Tasks(c) \/ Server(c)
        \/ \E s \in Sessions : Calls(s)
        \/ Apps

Spec == Init /\ [][Next]_vars

\* The tasks of a client run; on_connection returns and the app's loop reads.
FairSpec ==
    /\ Spec
    /\ \A c \in Clients :
          /\ WF_vars(Read(c)) /\ WF_vars(Forward(c)) /\ WF_vars(Open(c))
          /\ WF_vars(Panic(c)) /\ WF_vars(Write(c)) /\ WF_vars(StopWriting(c))
          /\ WF_vars(Listen(c)) /\ WF_vars(Pass(c)) /\ WF_vars(OnConnection(c))
          /\ WF_vars(See(c))
    /\ \A s \in Sessions : WF_vars(Calls(s))

-----------------------------------------------------------------------------
(* Correctness.                                                            *)

\* The chain of tasks hands the app what the server sent, in its order: six
\* places hold messages, and none is lost, doubled or overtaken in them.
Past(c) == seen[c] \o app[c] \o passing[c] \o rx[c] \o held[c]
InOrder ==
    \A c \in Clients : IF live[c] THEN Past(c) \o down[c] = sent[c]
                       ELSE IsPrefix(Past(c), sent[c])

\* An offer is answered only once its target has accepted it, and then the two
\* sides have each other's descriptions: what connects them is neither's own.
DescriptionsMatch ==
    \A s \in Sessions :
        offer[s] \in {"answered", "exchanged"} =>
            /\ accepted[s] = "exchanged"
            /\ remote[Offerer[s]][s] = Description(Target[s], s)
            /\ remote[Target[s]][s] = Description(Offerer[s], s)

-----------------------------------------------------------------------------
(* Why they hold.                                                          *)

\* What clients send, and what reaches them.
Outgoing == {Update} \cup {Offer(s) : s \in Sessions} \cup {Answer(s) : s \in Sessions}
Incoming == {Hello, News} \cup Outgoing
Descriptions == {Description(c, s) : c \in Clients, s \in Sessions}

\* The type invariant.
TypeOK ==
    /\ live \in [Clients -> BOOLEAN] /\ hello \in [Clients -> BOOLEAN]
    /\ ready \in [Clients -> BOOLEAN] /\ writer \in [Clients -> BOOLEAN]
    /\ sent \in [Clients -> Seq(Incoming)] /\ down \in [Clients -> Seq(Incoming)]
    /\ held \in [Clients -> Seq(Incoming)] /\ rx \in [Clients -> Seq(Incoming)]
    /\ passing \in [Clients -> Seq(Incoming)] /\ app \in [Clients -> Seq(Incoming)]
    /\ seen \in [Clients -> Seq(Incoming)]
    /\ sendq \in [Clients -> Seq(Outgoing)] /\ up \in [Clients -> Seq(Outgoing)]
    /\ conn \in [Clients -> {"idle", "waiting", "open", "panicked"}]
    /\ callbacks \in [Clients -> SUBSET Sessions]
    /\ offer \in [Sessions -> {"idle", "sent", "failed", "waiting", "answered", "exchanged"}]
    /\ accepted \in [Sessions -> {"idle", "exchanged", "failed"}]
    /\ remote \in [Clients -> [Sessions -> {<<>>} \cup Descriptions]]

\* Nothing is left in a socket that is gone, and nothing was sent before it.
QuietInv ==
    \A c \in Clients : /\ ~live[c] => down[c] = <<>>
                       /\ conn[c] = "idle" => ~live[c] /\ sent[c] = <<>>

\* Every answer under way, from accept_offer to the callback, is that of a target
\* which has the offer's description.
Carried(c) ==
    Range(sendq[c]) \cup Range(up[c]) \cup Range(down[c]) \cup Range(held[c]) \cup Range(rx[c])
AnswerInv ==
    \A c \in Clients : \A m \in Carried(c) :
        m.type = "ANSWER" => accepted[m.session] = "exchanged"

\* A callback is the offerer's own, and accepting is what the target remembers.
SidesInv ==
    /\ \A c \in Clients : \A s \in callbacks[c] : Offerer[s] = c
    /\ \A s \in Sessions :
          accepted[s] = "exchanged" => remote[Target[s]][s] = Description(Offerer[s], s)

\* The inductive invariant.
IndInv ==
    /\ TypeOK
    /\ QuietInv
    /\ InOrder
    /\ AnswerInv
    /\ SidesInv
    /\ DescriptionsMatch

-----------------------------------------------------------------------------

\* connect() comes to an end once the server has sent the Hello or the
\* connection has broken, with at most one message before the Hello.
ConnectEnds ==
    \A c \in Clients :
        (conn[c] = "waiting" /\ (Hello \in Range(sent[c]) \/ ~live[c]))
            ~> conn[c] \in {"open", "panicked"}

\* An answer on its way to a registered callback resolves the offer, however
\* full the queues are and however late the app reads.
AnswerResolves ==
    \A s \in Sessions :
        (s \in callbacks[Offerer[s]] /\ Answer(s) \in Range(held[Offerer[s]] \o rx[Offerer[s]]))
            ~> offer[s] = "exchanged"
=============================================================================
