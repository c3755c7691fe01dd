-------------------------- MODULE RtcSignaling_proofs --------------------------
(***************************************************************************)
(* Proofs about RtcSignaling: what the app is given is what the server     *)
(* sent, in its order, and an answered offer has left each side with the   *)
(* other's description, for any clients, offers and capacities.            *)
(***************************************************************************)
EXTENDS RtcSignaling, SequenceTheorems, TLAPS

-----------------------------------------------------------------------------
(* Queues.                                                                 *)

LEMMA HeadTail ==
    ASSUME NEW S, NEW q \in Seq(S), q # <<>>
    PROVE  /\ Head(q) \in S /\ Tail(q) \in Seq(S)
           /\ q = <<Head(q)>> \o Tail(q)
           /\ Head(q) \in Range(q)
           /\ Range(Tail(q)) \subseteq Range(q)
<1>1. /\ Head(q) \in S /\ Tail(q) \in Seq(S)
      /\ Len(q) \in Nat /\ Len(q) > 0 /\ Len(Tail(q)) = Len(q) - 1
      /\ Head(q) = q[1]
      /\ \A n \in 1..Len(Tail(q)) : Tail(q)[n] = q[n + 1]
  OBVIOUS
<1>2. q = <<Head(q)>> \o Tail(q)
  BY <1>1
<1>3. Head(q) \in Range(q)
  BY <1>1 DEF Range
<1>4. Range(Tail(q)) \subseteq Range(q)
  <2> SUFFICES ASSUME NEW n \in DOMAIN Tail(q)
               PROVE  Tail(q)[n] \in Range(q)
    BY DEF Range
  <2>1. n \in 1..Len(Tail(q))
    BY <1>1
  <2>2. n + 1 \in DOMAIN q /\ Tail(q)[n] = q[n + 1]
    BY <2>1, <1>1
  <2> QED
    BY <2>2 DEF Range
<1> QED
  BY <1>1, <1>2, <1>3, <1>4

LEMMA AppendRange ==
    ASSUME NEW S, NEW q \in Seq(S), NEW m \in S
    PROVE  /\ Append(q, m) \in Seq(S)
           /\ Append(q, m) = q \o <<m>>
           /\ Range(Append(q, m)) \subseteq Range(q) \cup {m}
<1>1. /\ Append(q, m) \in Seq(S) /\ Append(q, m) = q \o <<m>>
      /\ Len(Append(q, m)) = Len(q) + 1 /\ Len(q) \in Nat
      /\ Append(q, m)[Len(q) + 1] = m
      /\ \A n \in 1..Len(q) : Append(q, m)[n] = q[n]
  OBVIOUS
<1>2. \A n \in DOMAIN Append(q, m) : n = Len(q) + 1 \/ n \in DOMAIN q
  BY <1>1
<1>3. Range(Append(q, m)) \subseteq Range(q) \cup {m}
  BY <1>1, <1>2 DEF Range
<1> QED
  BY <1>1, <1>3

LEMMA AppendLast ==
    ASSUME NEW S, NEW a \in Seq(S), NEW b \in Seq(S), NEW m \in S
    PROVE  a \o Append(b, m) = Append(a \o b, m)
OBVIOUS

\* A message that moves from the head of a queue to the end of the one before it
\* leaves the two, one after the other, as they were.
LEMMA Moves ==
    ASSUME NEW S, NEW q \in Seq(S), NEW r \in Seq(S), r # <<>>
    PROVE  Append(q, Head(r)) \o Tail(r) = q \o r
<1> DEFINE h == Head(r)
           t == Tail(r)
<1>1. h \in S /\ t \in Seq(S) /\ r = <<h>> \o t /\ <<h>> \in Seq(S)
  BY HeadTail
<1>2. Append(q, h) = q \o <<h>>
  BY <1>1, AppendRange
<1> HIDE DEF h, t
<1>3. (q \o <<h>>) \o t = q \o (<<h>> \o t)
  BY <1>1, ConcatAssociative
<1>4. Append(q, h) \o t = q \o r
  BY <1>1, <1>2, <1>3
<1> QED
  BY <1>4 DEF h, t

LEMMA PrefixOfConcat ==
    ASSUME NEW S, NEW a \in Seq(S), NEW b \in Seq(S)
    PROVE  IsPrefix(a, a \o b)
<1>1. /\ Len(a) \in Nat /\ Len(b) \in Nat
      /\ a \o b \in Seq(S) /\ Len(a \o b) = Len(a) + Len(b)
      /\ \A n \in 1..Len(a) : (a \o b)[n] = a[n]
  OBVIOUS
<1>2. SubSeq(a, 1, Len(a)) = SubSeq(a \o b, 1, Len(a))
  BY <1>1
<1> QED
  BY <1>1, <1>2 DEF IsPrefix

LEMMA PrefixOfEmpty ==
    ASSUME NEW S, NEW a \in Seq(S), IsPrefix(a, <<>>)
    PROVE  a = <<>>
BY DEF IsPrefix

-----------------------------------------------------------------------------
(* Messages.                                                               *)

LEMMA MessageIs ==
    /\ Hello \in Incoming /\ Hello.type = "HELLO"
    /\ News \in Incoming /\ News.type = "NEWS"
    /\ Update \in Outgoing /\ Update.type = "UPDATE"
    /\ \A s \in Sessions :
          /\ Offer(s) \in Outgoing /\ Offer(s).type = "OFFER" /\ Offer(s).session = s
          /\ decode_sdp(Offer(s).sdp) = Description(Offerer[s], s)
          /\ Answer(s) \in Outgoing /\ Answer(s).type = "ANSWER" /\ Answer(s).session = s
          /\ decode_sdp(Answer(s).sdp) = Description(Target[s], s)
<1>1. \A s \in Sessions :
         /\ Offer(s) \in Outgoing /\ Offer(s).type = "OFFER" /\ Offer(s).session = s
         /\ Offer(s).sdp = encode_sdp(Description(Offerer[s], s))
         /\ Answer(s) \in Outgoing /\ Answer(s).type = "ANSWER" /\ Answer(s).session = s
         /\ Answer(s).sdp = encode_sdp(Description(Target[s], s))
  BY DEF Outgoing, Offer, Answer
<1>2. \A d : decode_sdp(encode_sdp(d)) = d
  BY DEF decode_sdp, encode_sdp
<1>3. /\ Hello \in Incoming /\ Hello.type = "HELLO"
      /\ News \in Incoming /\ News.type = "NEWS"
      /\ Update \in Outgoing /\ Update.type = "UPDATE"
  BY DEF Incoming, Outgoing, Hello, News, Update
<1> QED
  BY <1>1, <1>2, <1>3

LEMMA TypedMessage ==
    ASSUME NEW m \in Incoming
    PROVE  /\ m.type \in {"OFFER", "ANSWER"} => m \in Outgoing /\ m.session \in Sessions
           /\ m.type = "OFFER" => m = Offer(m.session)
           /\ m.type = "ANSWER" => m = Answer(m.session)
<1>1. CASE m \in {Hello, News, Update}
  BY <1>1, MessageIs
<1>2. ASSUME NEW s \in Sessions, m = Offer(s)
      PROVE  m \in Outgoing /\ m.type = "OFFER" /\ m.session = s
  BY <1>2, MessageIs
<1>3. ASSUME NEW s \in Sessions, m = Answer(s)
      PROVE  m \in Outgoing /\ m.type = "ANSWER" /\ m.session = s
  BY <1>3, MessageIs
<1>4. \/ m \in {Hello, News, Update}
      \/ \E s \in Sessions : m = Offer(s)
      \/ \E s \in Sessions : m = Answer(s)
  BY DEF Incoming, Outgoing
<1> QED
  BY <1>1, <1>2, <1>3, <1>4

LEMMA OutgoingIsIncoming == Outgoing \subseteq Incoming
BY DEF Incoming

\* The updates of the queues.
LEMMA PutIs ==
    ASSUME NEW S, NEW q \in [Clients -> Seq(S)], NEW c \in Clients, NEW m \in S
    PROVE  /\ Put(q, c, m) \in [Clients -> Seq(S)]
           /\ Put(q, c, m)[c] = Append(q[c], m)
           /\ Range(Put(q, c, m)[c]) \subseteq Range(q[c]) \cup {m}
           /\ \A d \in Clients \ {c} : Put(q, c, m)[d] = q[d]
<1>1. q[c] \in Seq(S)
  OBVIOUS
<1>2. Append(q[c], m) \in Seq(S) /\ Range(Append(q[c], m)) \subseteq Range(q[c]) \cup {m}
  BY <1>1, AppendRange
<1> QED
  BY <1>2 DEF Put

LEMMA DropIs ==
    ASSUME NEW S, NEW q \in [Clients -> Seq(S)], NEW c \in Clients, q[c] # <<>>
    PROVE  /\ Head(q[c]) \in S /\ Head(q[c]) \in Range(q[c])
           /\ Drop(q, c) \in [Clients -> Seq(S)]
           /\ Drop(q, c)[c] = Tail(q[c])
           /\ Range(Drop(q, c)[c]) \subseteq Range(q[c])
           /\ \A d \in Clients \ {c} : Drop(q, c)[d] = q[d]
<1>1. q[c] \in Seq(S)
  OBVIOUS
<1>2. /\ Head(q[c]) \in S /\ Head(q[c]) \in Range(q[c])
      /\ Tail(q[c]) \in Seq(S) /\ Range(Tail(q[c])) \subseteq Range(q[c])
  BY <1>1, HeadTail
<1> QED
  BY <1>2 DEF Drop

-----------------------------------------------------------------------------
(* What is left as it was.                                                 *)

\* The chain of a client: its socket's way in, connect() and its queues.
Chain(c) ==
    <<live[c], sent[c], down[c], conn[c], seen[c], app[c], passing[c], rx[c], held[c]>>

\* A step that changes the chain of one client at most keeps the order if it does so
\* in that client's.
LEMMA ChainStep ==
    ASSUME QuietInv, InOrder, NEW c \in Clients,
           \A d \in Clients \ {c} : Chain(d)' = Chain(d),
           IF live'[c] THEN Past(c)' \o down'[c] = sent'[c] ELSE IsPrefix(Past(c)', sent'[c]),
           ~live'[c] => down'[c] = <<>>,
           conn'[c] = "idle" => ~live'[c] /\ sent'[c] = <<>>
    PROVE  QuietInv' /\ InOrder'
<1>1. \A d \in Clients \ {c} :
         /\ live'[d] = live[d] /\ sent'[d] = sent[d] /\ down'[d] = down[d]
         /\ conn'[d] = conn[d] /\ Past(d)' = Past(d)
  BY DEF Chain, Past
<1>2. QuietInv'
  BY <1>1 DEF QuietInv
<1>3. \A d \in Clients : IF live'[d] THEN Past(d)' \o down'[d] = sent'[d]
                         ELSE IsPrefix(Past(d)', sent'[d])
  BY <1>1 DEF InOrder
<1>4. InOrder'
  BY <1>3 DEF InOrder
<1> QED
  BY <1>2, <1>4

\* The chains are as they were.
LEMMA ChainsKeep ==
    ASSUME QuietInv, InOrder,
           UNCHANGED <<live, sent, down, conn, seen, app, passing, rx, held>>
    PROVE  QuietInv' /\ InOrder'
BY DEF QuietInv, InOrder, Past

\* No answer is under way that was not.
LEMMA AnswersKeep ==
    ASSUME AnswerInv, UNCHANGED accepted,
           \A d \in Clients : \A m \in Carried(d)' :
              m.type # "ANSWER" \/ \E e \in Clients : m \in Carried(e)
    PROVE  AnswerInv'
BY DEF AnswerInv

LEMMA SidesKeep ==
    ASSUME SidesInv, DescriptionsMatch, UNCHANGED sessionVars
    PROVE  SidesInv' /\ DescriptionsMatch'
BY DEF SidesInv, DescriptionsMatch, sessionVars

-----------------------------------------------------------------------------
(* The server's steps.                                                     *)

LEMMA PastType ==
    ASSUME TypeOK, NEW c \in Clients
    PROVE  /\ seen[c] \in Seq(Incoming) /\ app[c] \in Seq(Incoming)
           /\ passing[c] \in Seq(Incoming) /\ rx[c] \in Seq(Incoming)
           /\ held[c] \in Seq(Incoming) /\ down[c] \in Seq(Incoming)
           /\ sent[c] \in Seq(Incoming)
           /\ seen[c] \o app[c] \in Seq(Incoming)
           /\ (seen[c] \o app[c]) \o passing[c] \in Seq(Incoming)
           /\ ((seen[c] \o app[c]) \o passing[c]) \o rx[c] \in Seq(Incoming)
           /\ Past(c) \in Seq(Incoming)
           /\ Past(c) = (((seen[c] \o app[c]) \o passing[c]) \o rx[c]) \o held[c]
<1>1. /\ seen[c] \in Seq(Incoming) /\ app[c] \in Seq(Incoming)
      /\ passing[c] \in Seq(Incoming) /\ rx[c] \in Seq(Incoming)
      /\ held[c] \in Seq(Incoming) /\ down[c] \in Seq(Incoming)
      /\ sent[c] \in Seq(Incoming)
  BY DEF TypeOK
<1>2. seen[c] \o app[c] \in Seq(Incoming)
  BY <1>1
<1>3. (seen[c] \o app[c]) \o passing[c] \in Seq(Incoming)
  BY <1>1, <1>2
<1>4. ((seen[c] \o app[c]) \o passing[c]) \o rx[c] \in Seq(Incoming)
  BY <1>1, <1>3
<1>5. (((seen[c] \o app[c]) \o passing[c]) \o rx[c]) \o held[c] \in Seq(Incoming)
  BY <1>1, <1>4
<1> QED
  BY <1>1, <1>2, <1>3, <1>4, <1>5 DEF Past

\* A message the server puts into a client's socket.
LEMMA QueueIs ==
    ASSUME TypeOK, QuietInv, InOrder, NEW c \in Clients, NEW m \in Incoming, live[c],
           Queue(c, m), UNCHANGED <<live, inVars>>
    PROVE  /\ sent' \in [Clients -> Seq(Incoming)] /\ down' \in [Clients -> Seq(Incoming)]
           /\ QuietInv' /\ InOrder'
           /\ Range(down'[c]) \subseteq Range(down[c]) \cup {m}
           /\ \A d \in Clients \ {c} : down'[d] = down[d]
<1>1. sent \in [Clients -> Seq(Incoming)] /\ down \in [Clients -> Seq(Incoming)]
  BY DEF TypeOK
<1>2. sent' = Put(sent, c, m) /\ down' = Put(down, c, m)
  BY DEF Queue
<1>3. /\ Put(sent, c, m) \in [Clients -> Seq(Incoming)]
      /\ Put(down, c, m) \in [Clients -> Seq(Incoming)]
  BY <1>1, PutIs
<1>4. /\ Put(sent, c, m)[c] = Append(sent[c], m)
      /\ \A d \in Clients \ {c} : Put(sent, c, m)[d] = sent[d]
  BY <1>1 DEF Put
<1>5. /\ Put(down, c, m)[c] = Append(down[c], m)
      /\ \A d \in Clients \ {c} : Put(down, c, m)[d] = down[d]
  BY <1>1 DEF Put
<1>6. Range(Put(down, c, m)[c]) \subseteq Range(down[c]) \cup {m}
  BY <1>1, PutIs
<1>7. /\ sent' \in [Clients -> Seq(Incoming)] /\ down' \in [Clients -> Seq(Incoming)]
      /\ sent'[c] = Append(sent[c], m) /\ down'[c] = Append(down[c], m)
      /\ Range(down'[c]) \subseteq Range(down[c]) \cup {m}
      /\ \A d \in Clients \ {c} : sent'[d] = sent[d] /\ down'[d] = down[d]
  BY <1>2, <1>3, <1>4, <1>5, <1>6
<1>8. Past(c)' = Past(c) /\ \A d \in Clients \ {c} : Chain(d)' = Chain(d)
  BY <1>7 DEF Past, Chain, inVars
<1>9. Past(c) \o down'[c] = sent'[c]
  <2>1. Past(c) \o down[c] = sent[c]
    BY DEF InOrder
  <2>2. Past(c) \in Seq(Incoming) /\ down[c] \in Seq(Incoming) /\ sent[c] \in Seq(Incoming)
    BY PastType
  <2>3. Past(c) \o Append(down[c], m) = Append(Past(c) \o down[c], m)
    BY <2>2, AppendLast
  <2> QED
    BY <1>7, <2>1, <2>3
<1>10. live'[c] /\ (conn'[c] = "idle" => FALSE)
  BY DEF QuietInv, inVars
<1>11. QuietInv' /\ InOrder'
  BY <1>8, <1>9, <1>10, ChainStep
<1> QED
  BY <1>7, <1>11

\* A message of the server's own is none of the sessions'.
LEMMA QueueStep ==
    ASSUME IndInv, NEW c \in Clients, NEW m \in {Hello, News}, live[c],
           Queue(c, m), UNCHANGED <<live, up, inVars, outVars, sessionVars>>
    PROVE  IndInv'
<1>1. m \in Incoming /\ m.type # "ANSWER"
  BY MessageIs
<1>2. /\ sent' \in [Clients -> Seq(Incoming)] /\ down' \in [Clients -> Seq(Incoming)]
      /\ QuietInv' /\ InOrder'
      /\ Range(down'[c]) \subseteq Range(down[c]) \cup {m}
      /\ \A d \in Clients \ {c} : down'[d] = down[d]
  BY <1>1, QueueIs DEF IndInv
<1>3. TypeOK'
  BY <1>2 DEF IndInv, TypeOK, inVars, outVars, sessionVars
<1>4. AnswerInv'
  <2>1. \A d \in Clients : \A n \in Carried(d)' : n \in Carried(d) \/ n = m
    BY <1>2 DEF Carried, inVars, outVars
  <2>2. UNCHANGED accepted
    BY DEF sessionVars
  <2> QED
    BY <1>1, <2>1, <2>2, AnswersKeep DEF IndInv
<1>5. SidesInv' /\ DescriptionsMatch'
  BY SidesKeep DEF IndInv
<1> QED
  BY <1>2, <1>3, <1>4, <1>5 DEF IndInv

\* The server relays an offer or an answer, or drops it.
LEMMA RelayStep ==
    ASSUME IndInv, NEW c \in Clients, Relay(c)
    PROVE  IndInv'
<1> DEFINE m == Head(up[c])
           to == IF m.type = "OFFER" THEN Target[m.session] ELSE Offerer[m.session]
<1>1. /\ up[c] # <<>> /\ up' = Drop(up, c)
      /\ \/ m.type # "UPDATE" /\ live[to] /\ Queue(to, m)
         \/ UNCHANGED <<sent, down>>
      /\ UNCHANGED <<live, inVars, outVars, sessionVars>>
  BY DEF Relay
<1>2. up \in [Clients -> Seq(Outgoing)]
  BY DEF IndInv, TypeOK
<1>3. /\ m \in Outgoing /\ m \in Range(up[c])
      /\ up' \in [Clients -> Seq(Outgoing)]
      /\ Range(up'[c]) \subseteq Range(up[c])
      /\ \A d \in Clients \ {c} : up'[d] = up[d]
  BY <1>1, <1>2, DropIs
<1> HIDE DEF m
<1>4. \A d \in Clients : Range(up'[d]) \subseteq Range(up[d])
  BY <1>3
<1>5. UNCHANGED accepted
  BY <1>1 DEF sessionVars
<1>6. SidesInv' /\ DescriptionsMatch'
  BY <1>1, SidesKeep DEF IndInv
<1>7. CASE m.type # "UPDATE" /\ live[to] /\ Queue(to, m)
  <2>1. m \in Incoming
    BY <1>3, OutgoingIsIncoming
  <2>2. m.type \in {"OFFER", "ANSWER"}
    BY <1>3, <1>7, MessageIs DEF Outgoing
  <2>3. m.session \in Sessions
    BY <2>1, <2>2, TypedMessage
  <2>4. to \in Clients
    BY <2>3, SessionsAssumption
  <2> HIDE DEF to
  <2>5. /\ sent' \in [Clients -> Seq(Incoming)] /\ down' \in [Clients -> Seq(Incoming)]
        /\ QuietInv' /\ InOrder'
        /\ Range(down'[to]) \subseteq Range(down[to]) \cup {m}
        /\ \A d \in Clients \ {to} : down'[d] = down[d]
    BY <2>1, <2>4, <1>1, <1>7, QueueIs DEF IndInv
  <2>6. TypeOK'
    BY <1>1, <1>3, <2>5 DEF IndInv, TypeOK, inVars, outVars, sessionVars
  <2>7. m \in Carried(c)
    BY <1>3 DEF Carried
  <2>8. \A d \in Clients : \A n \in Carried(d)' : n \in Carried(d) \/ n = m
    BY <1>1, <1>4, <2>5 DEF Carried, inVars, outVars
  <2>9. AnswerInv'
    BY <1>5, <2>7, <2>8, AnswersKeep DEF IndInv
  <2> QED
    BY <1>6, <2>5, <2>6, <2>9 DEF IndInv
<1>8. CASE UNCHANGED <<sent, down>>
  <2>1. TypeOK'
    BY <1>1, <1>3, <1>8 DEF IndInv, TypeOK, inVars, outVars, sessionVars
  <2>2. QuietInv' /\ InOrder'
    BY <1>1, <1>8, ChainsKeep DEF IndInv, inVars
  <2>3. \A d \in Clients : \A n \in Carried(d)' : n \in Carried(d)
    BY <1>1, <1>4, <1>8 DEF Carried, inVars, outVars
  <2>4. AnswerInv'
    BY <1>5, <2>3, AnswersKeep DEF IndInv
  <2> QED
    BY <1>6, <2>1, <2>2, <2>4 DEF IndInv
<1> QED
  BY <1>1, <1>7, <1>8

\* A connection breaks.
LEMMA BreakStep ==
    ASSUME IndInv, NEW c \in Clients, Break(c)
    PROVE  IndInv'
<1>1. /\ live[c]
      /\ live' = [live EXCEPT ![c] = FALSE]
      /\ down' = [down EXCEPT ![c] = <<>>]
      /\ up' = [up EXCEPT ![c] = <<>>]
      /\ UNCHANGED <<sent, inVars, outVars, sessionVars>>
  BY DEF Break
<1>2. TypeOK'
  BY <1>1 DEF IndInv, TypeOK, inVars, outVars, sessionVars
<1>3. /\ ~live'[c] /\ down'[c] = <<>> /\ up'[c] = <<>>
      /\ \A d \in Clients \ {c} : live'[d] = live[d] /\ down'[d] = down[d] /\ up'[d] = up[d]
  BY <1>1 DEF IndInv, TypeOK
<1>4. Past(c)' = Past(c) /\ \A d \in Clients \ {c} : Chain(d)' = Chain(d)
  BY <1>1, <1>3 DEF Past, Chain, inVars
<1>5. IsPrefix(Past(c), sent[c])
  <2>1. Past(c) \o down[c] = sent[c]
    BY <1>1 DEF IndInv, InOrder
  <2>2. Past(c) \in Seq(Incoming) /\ down[c] \in Seq(Incoming)
    BY PastType DEF IndInv
  <2>3. IsPrefix(Past(c), Past(c) \o down[c])
    BY <2>2, PrefixOfConcat
  <2> QED
    BY <2>1, <2>3
<1>6. sent'[c] = sent[c] /\ conn'[c] # "idle"
  BY <1>1 DEF inVars, IndInv, QuietInv
<1>7. QuietInv' /\ InOrder'
  BY <1>3, <1>4, <1>5, <1>6, ChainStep DEF IndInv
<1>8. AnswerInv'
  <2>1. Range(<<>>) = {}
    BY DEF Range
  <2>2. \A d \in Clients : \A n \in Carried(d)' : n \in Carried(d)
    BY <1>1, <1>3, <2>1 DEF Carried, inVars, outVars
  <2>3. UNCHANGED accepted
    BY <1>1 DEF sessionVars
  <2> QED
    BY <2>2, <2>3, AnswersKeep DEF IndInv
<1>9. SidesInv' /\ DescriptionsMatch'
  BY <1>1, SidesKeep DEF IndInv
<1> QED
  BY <1>2, <1>7, <1>8, <1>9 DEF IndInv

-----------------------------------------------------------------------------
(* A client's tasks.                                                       *)

\* A step that moves a message along the places of one client.
LEMMA MoveStep ==
    ASSUME QuietInv, InOrder, NEW c \in Clients,
           UNCHANGED <<live, sent, down, conn>>,
           Past(c)' = Past(c),
           \A d \in Clients \ {c} :
              /\ seen'[d] = seen[d] /\ app'[d] = app[d] /\ passing'[d] = passing[d]
              /\ rx'[d] = rx[d] /\ held'[d] = held[d]
    PROVE  QuietInv' /\ InOrder'
<1>1. \A d \in Clients \ {c} : Chain(d)' = Chain(d)
  BY DEF Chain
<1>2. IF live'[c] THEN Past(c)' \o down'[c] = sent'[c] ELSE IsPrefix(Past(c)', sent'[c])
  BY DEF InOrder
<1>3. /\ ~live'[c] => down'[c] = <<>>
      /\ conn'[c] = "idle" => ~live'[c] /\ sent'[c] = <<>>
  BY DEF QuietInv
<1> QED
  BY <1>1, <1>2, <1>3, ChainStep

\* What is handed from one place to the next: the queues r and, before it, q become
\* r1 and q1.
HandedOver(q, r, q1, r1, c) ==
    /\ q1 \in [Clients -> Seq(Incoming)] /\ r1 \in [Clients -> Seq(Incoming)]
    /\ Head(r[c]) \in Incoming /\ Head(r[c]) \in Range(r[c])
    /\ Range(q1[c]) \subseteq Range(q[c]) \cup Range(r[c])
    /\ Range(r1[c]) \subseteq Range(r[c])
    /\ \A d \in Clients \ {c} : q1[d] = q[d] /\ r1[d] = r[d]
    /\ q1[c] \o r1[c] = q[c] \o r[c]
    /\ \A a \in Seq(Incoming) : (a \o q1[c]) \o r1[c] = (a \o q[c]) \o r[c]

\* How a queue of queues is read does not matter.
LEMMA Regroup ==
    ASSUME NEW a \in Seq(Incoming), NEW b \in Seq(Incoming), NEW c \in Seq(Incoming)
    PROVE  (a \o b) \o c = a \o (b \o c)
BY ConcatAssociative

LEMMA HandOver ==
    ASSUME NEW q \in [Clients -> Seq(Incoming)], NEW r \in [Clients -> Seq(Incoming)],
           NEW c \in Clients, r[c] # <<>>
    PROVE  HandedOver(q, r, Put(q, c, Head(r[c])), Drop(r, c), c)
<1> DEFINE h == Head(r[c])
           t == Tail(r[c])
<1>1. q[c] \in Seq(Incoming) /\ r[c] \in Seq(Incoming)
  OBVIOUS
<1>2. h \in Incoming /\ h \in Range(r[c]) /\ t \in Seq(Incoming) /\ Range(t) \subseteq Range(r[c])
  BY <1>1, HeadTail
<1>3. /\ Append(q[c], h) \in Seq(Incoming)
      /\ Range(Append(q[c], h)) \subseteq Range(q[c]) \cup {h}
  BY <1>1, <1>2, AppendRange
<1>4. Append(q[c], h) \o t = q[c] \o r[c]
  BY <1>1, Moves
<1>5. ASSUME NEW a \in Seq(Incoming)
      PROVE  (a \o Append(q[c], h)) \o t = (a \o q[c]) \o r[c]
  <2> DEFINE q1 == Append(q[c], h)
  <2>1. q1 \o t = q[c] \o r[c]
    BY <1>4
  <2>2. q1 \in Seq(Incoming)
    BY <1>3
  <2>3. t \in Seq(Incoming)
    BY <1>2
  <2> HIDE DEF h, t, q1
  <2>4. (a \o q1) \o t = a \o (q1 \o t)
    BY <2>2, <2>3, Regroup, Zenon
  <2>5. (a \o q[c]) \o r[c] = a \o (q[c] \o r[c])
    BY <1>1, Regroup, Zenon
  <2>6. (a \o q1) \o t = (a \o q[c]) \o r[c]
    BY <2>1, <2>4, <2>5
  <2> QED
    BY <2>6 DEF q1
<1> HIDE DEF h, t
<1>6. /\ Put(q, c, h) \in [Clients -> Seq(Incoming)]
      /\ Put(q, c, h)[c] = Append(q[c], h)
      /\ \A d \in Clients \ {c} : Put(q, c, h)[d] = q[d]
  BY <1>3 DEF Put
<1>7. /\ Drop(r, c) \in [Clients -> Seq(Incoming)]
      /\ Drop(r, c)[c] = t
      /\ \A d \in Clients \ {c} : Drop(r, c)[d] = r[d]
  BY <1>2 DEF Drop, t
<1>8. HandedOver(q, r, Put(q, c, h), Drop(r, c), c)
  BY <1>2, <1>3, <1>4, <1>5, <1>6, <1>7 DEF HandedOver, h
<1> QED
  BY <1>8 DEF h

LEMMA ReadStep ==
    ASSUME IndInv, NEW c \in Clients, Read(c)
    PROVE  IndInv'
<1> DEFINE h == Head(down[c])
           a == ((seen[c] \o app[c]) \o passing[c]) \o rx[c]
<1>1. /\ held[c] = <<>> /\ down[c] # <<>>
      /\ held' = Put(held, c, h) /\ down' = Drop(down, c)
      /\ hello' = [hello EXCEPT ![c] = @ \/ Announces(c, h)]
      /\ UNCHANGED <<live, sent, up, conn, rx, passing, app, ready, seen, outVars, sessionVars>>
  BY DEF Read, Forwards
<1>2. held \in [Clients -> Seq(Incoming)] /\ down \in [Clients -> Seq(Incoming)]
  BY DEF IndInv, TypeOK
<1>3. HandedOver(held, down, Put(held, c, Head(down[c])), Drop(down, c), c)
  BY <1>1, <1>2, HandOver
<1>4. /\ held' \in [Clients -> Seq(Incoming)] /\ down' \in [Clients -> Seq(Incoming)]
      /\ Range(held'[c]) \subseteq Range(held[c]) \cup Range(down[c])
      /\ Range(down'[c]) \subseteq Range(down[c])
      /\ \A d \in Clients \ {c} : held'[d] = held[d] /\ down'[d] = down[d]
      /\ \A b \in Seq(Incoming) : (b \o held'[c]) \o down'[c] = (b \o held[c]) \o down[c]
  BY <1>1, <1>3 DEF HandedOver
<1>5. TypeOK'
  <2>1. hello' \in [Clients -> BOOLEAN]
    BY <1>1 DEF IndInv, TypeOK, Announces
  <2> QED
    BY <1>1, <1>4, <2>1 DEF IndInv, TypeOK, outVars, sessionVars
<1>6. a \in Seq(Incoming) /\ Past(c) = a \o held[c]
  BY PastType DEF IndInv
<1>7. Past(c)' = a \o held'[c]
  BY <1>1 DEF Past
<1> HIDE DEF a, h
<1>8. Past(c)' \o down'[c] = Past(c) \o down[c]
  BY <1>4, <1>6, <1>7
<1>9. live[c] /\ conn[c] # "idle"
  BY <1>1 DEF IndInv, QuietInv
<1>10. Past(c)' \o down'[c] = sent'[c]
  BY <1>1, <1>8, <1>9 DEF IndInv, InOrder
<1>11. \A d \in Clients \ {c} : Chain(d)' = Chain(d)
  BY <1>1, <1>4 DEF Chain
<1>12. QuietInv' /\ InOrder'
  BY <1>1, <1>9, <1>10, <1>11, ChainStep DEF IndInv
<1>13. AnswerInv'
  <2>1. \A d \in Clients : \A m \in Carried(d)' : m \in Carried(d)
    BY <1>1, <1>4 DEF Carried, outVars
  <2> QED
    BY <1>1, <2>1, AnswersKeep DEF IndInv, sessionVars
<1>14. SidesInv' /\ DescriptionsMatch'
  BY <1>1, SidesKeep DEF IndInv
<1> QED
  BY <1>5, <1>12, <1>13, <1>14 DEF IndInv

LEMMA ForwardStep ==
    ASSUME IndInv, NEW c \in Clients, Forward(c)
    PROVE  IndInv'
<1> DEFINE a == (seen[c] \o app[c]) \o passing[c]
<1>1. /\ held[c] # <<>>
      /\ rx' = Put(rx, c, Head(held[c])) /\ held' = Drop(held, c)
      /\ UNCHANGED <<socketVars, conn, hello, passing, app, ready, seen, outVars, sessionVars>>
  BY DEF Forward
<1>2. rx \in [Clients -> Seq(Incoming)] /\ held \in [Clients -> Seq(Incoming)]
  BY DEF IndInv, TypeOK
<1>3. HandedOver(rx, held, Put(rx, c, Head(held[c])), Drop(held, c), c)
  BY <1>1, <1>2, HandOver
<1>4. /\ rx' \in [Clients -> Seq(Incoming)] /\ held' \in [Clients -> Seq(Incoming)]
      /\ Range(rx'[c]) \subseteq Range(rx[c]) \cup Range(held[c])
      /\ Range(held'[c]) \subseteq Range(held[c])
      /\ \A d \in Clients \ {c} : rx'[d] = rx[d] /\ held'[d] = held[d]
      /\ \A b \in Seq(Incoming) : (b \o rx'[c]) \o held'[c] = (b \o rx[c]) \o held[c]
  BY <1>1, <1>3 DEF HandedOver
<1>5. TypeOK'
  BY <1>1, <1>4 DEF IndInv, TypeOK, socketVars, outVars, sessionVars
<1>6. a \in Seq(Incoming) /\ Past(c) = (a \o rx[c]) \o held[c]
  BY PastType DEF IndInv
<1>7. Past(c)' = (a \o rx'[c]) \o held'[c]
  BY <1>1 DEF Past
<1> HIDE DEF a
<1>8. Past(c)' = Past(c)
  BY <1>4, <1>6, <1>7
<1>9. QuietInv' /\ InOrder'
  BY <1>1, <1>4, <1>8, MoveStep DEF IndInv, socketVars
<1>10. AnswerInv'
  <2>1. \A d \in Clients : \A m \in Carried(d)' : m \in Carried(d)
    BY <1>1, <1>4 DEF Carried, outVars, socketVars
  <2> QED
    BY <1>1, <2>1, AnswersKeep DEF IndInv, sessionVars
<1>11. SidesInv' /\ DescriptionsMatch'
  BY <1>1, SidesKeep DEF IndInv
<1> QED
  BY <1>5, <1>9, <1>10, <1>11 DEF IndInv

LEMMA PassStep ==
    ASSUME IndInv, NEW c \in Clients, Pass(c)
    PROVE  IndInv'
<1>1. /\ passing[c] # <<>>
      /\ app' = Put(app, c, Head(passing[c])) /\ passing' = Drop(passing, c)
      /\ UNCHANGED <<socketVars, conn, hello, held, rx, ready, seen, outVars, sessionVars>>
  BY DEF Pass
<1>2. app \in [Clients -> Seq(Incoming)] /\ passing \in [Clients -> Seq(Incoming)]
  BY DEF IndInv, TypeOK
<1>3. HandedOver(app, passing, Put(app, c, Head(passing[c])), Drop(passing, c), c)
  BY <1>1, <1>2, HandOver
<1>4. /\ app' \in [Clients -> Seq(Incoming)] /\ passing' \in [Clients -> Seq(Incoming)]
      /\ \A d \in Clients \ {c} : app'[d] = app[d] /\ passing'[d] = passing[d]
      /\ \A b \in Seq(Incoming) :
            (b \o app'[c]) \o passing'[c] = (b \o app[c]) \o passing[c]
  BY <1>1, <1>3 DEF HandedOver
<1>5. TypeOK'
  BY <1>1, <1>4 DEF IndInv, TypeOK, socketVars, outVars, sessionVars
<1>6. seen[c] \in Seq(Incoming)
  BY PastType DEF IndInv
<1>7. (seen[c] \o app'[c]) \o passing'[c] = (seen[c] \o app[c]) \o passing[c]
  BY <1>4, <1>6
<1>8. Past(c)' = Past(c)
  BY <1>1, <1>7 DEF Past
<1>9. QuietInv' /\ InOrder'
  BY <1>1, <1>4, <1>8, MoveStep DEF IndInv, socketVars
<1>10. AnswerInv'
  BY <1>1 DEF IndInv, AnswerInv, Carried, socketVars, outVars, sessionVars
<1>11. SidesInv' /\ DescriptionsMatch'
  BY <1>1, SidesKeep DEF IndInv
<1> QED
  BY <1>5, <1>9, <1>10, <1>11 DEF IndInv

LEMMA SeeStep ==
    ASSUME IndInv, NEW c \in Clients, See(c)
    PROVE  IndInv'
<1>1. /\ app[c] # <<>>
      /\ seen' = Put(seen, c, Head(app[c])) /\ app' = Drop(app, c)
      /\ UNCHANGED <<socketVars, conn, hello, held, rx, passing, ready, outVars, sessionVars>>
  BY DEF See
<1>2. seen \in [Clients -> Seq(Incoming)] /\ app \in [Clients -> Seq(Incoming)]
  BY DEF IndInv, TypeOK
<1>3. HandedOver(seen, app, Put(seen, c, Head(app[c])), Drop(app, c), c)
  BY <1>1, <1>2, HandOver
<1>4. /\ seen' \in [Clients -> Seq(Incoming)] /\ app' \in [Clients -> Seq(Incoming)]
      /\ \A d \in Clients \ {c} : seen'[d] = seen[d] /\ app'[d] = app[d]
      /\ seen'[c] \o app'[c] = seen[c] \o app[c]
  BY <1>1, <1>3 DEF HandedOver
<1>5. TypeOK'
  BY <1>1, <1>4 DEF IndInv, TypeOK, socketVars, outVars, sessionVars
<1>6. Past(c)' = Past(c)
  BY <1>1, <1>4 DEF Past
<1>7. QuietInv' /\ InOrder'
  BY <1>1, <1>4, <1>6, MoveStep DEF IndInv, socketVars
<1>8. AnswerInv'
  BY <1>1 DEF IndInv, AnswerInv, Carried, socketVars, outVars, sessionVars
<1>9. SidesInv' /\ DescriptionsMatch'
  BY <1>1, SidesKeep DEF IndInv
<1> QED
  BY <1>5, <1>7, <1>8, <1>9 DEF IndInv

\* The listener takes a message; the answer to an offer of this client's goes to the
\* callback first, which sets the description of the target, who has the offerer's.
LEMMA ListenStep ==
    ASSUME IndInv, NEW c \in Clients, Listen(c)
    PROVE  IndInv'
<1> DEFINE m == Head(rx[c])
           s == m.session
           a == seen[c] \o app[c]
<1>1. /\ rx[c] # <<>>
      /\ rx' = Drop(rx, c) /\ passing' = Put(passing, c, m)
      /\ UNCHANGED <<socketVars, conn, hello, held, app, ready, seen, outVars, accepted>>
  BY DEF Listen
<1>2. \/ /\ m.type = "ANSWER" /\ s \in callbacks[c]
         /\ callbacks' = [callbacks EXCEPT ![c] = @ \ {s}]
         /\ offer' = [offer EXCEPT ![s] = "answered"]
         /\ remote' = [remote EXCEPT ![c][s] = decode_sdp(m.sdp)]
      \/ UNCHANGED <<callbacks, offer, remote>>
  BY DEF Listen, Called
<1>3. passing \in [Clients -> Seq(Incoming)] /\ rx \in [Clients -> Seq(Incoming)]
  BY DEF IndInv, TypeOK
<1>4. HandedOver(passing, rx, Put(passing, c, Head(rx[c])), Drop(rx, c), c)
  BY <1>1, <1>3, HandOver
<1>5. /\ passing' \in [Clients -> Seq(Incoming)] /\ rx' \in [Clients -> Seq(Incoming)]
      /\ m \in Incoming /\ m \in Range(rx[c])
      /\ Range(rx'[c]) \subseteq Range(rx[c])
      /\ \A d \in Clients \ {c} : passing'[d] = passing[d] /\ rx'[d] = rx[d]
      /\ \A b \in Seq(Incoming) : (b \o passing'[c]) \o rx'[c] = (b \o passing[c]) \o rx[c]
  BY <1>1, <1>4 DEF HandedOver
<1>6. a \in Seq(Incoming)
  BY PastType DEF IndInv
<1>7. /\ Past(c) = ((a \o passing[c]) \o rx[c]) \o held[c]
      /\ Past(c)' = ((a \o passing'[c]) \o rx'[c]) \o held[c]
  BY <1>1 DEF Past
<1> HIDE DEF m, a
<1>8. Past(c)' = Past(c)
  BY <1>5, <1>6, <1>7
<1>9. QuietInv' /\ InOrder'
  BY <1>1, <1>5, <1>8, MoveStep DEF IndInv, socketVars
<1>10. AnswerInv'
  <2>1. \A d \in Clients : \A n \in Carried(d)' : n \in Carried(d)
    BY <1>1, <1>5 DEF Carried, outVars, socketVars
  <2> QED
    BY <1>1, <2>1, AnswersKeep DEF IndInv
<1>11. CASE UNCHANGED <<callbacks, offer, remote>>
  <2>1. TypeOK'
    BY <1>1, <1>5, <1>11 DEF IndInv, TypeOK, socketVars, outVars
  <2>2. SidesInv' /\ DescriptionsMatch'
    BY <1>1, <1>11, SidesKeep DEF IndInv, sessionVars
  <2> QED
    BY <1>9, <1>10, <2>1, <2>2 DEF IndInv
<1>12. CASE /\ m.type = "ANSWER" /\ s \in callbacks[c]
            /\ callbacks' = [callbacks EXCEPT ![c] = @ \ {s}]
            /\ offer' = [offer EXCEPT ![s] = "answered"]
            /\ remote' = [remote EXCEPT ![c][s] = decode_sdp(m.sdp)]
  <2>1. s \in Sessions /\ m = Answer(s)
    BY <1>5, <1>12, TypedMessage
  <2>2. decode_sdp(m.sdp) = Description(Target[s], s)
    BY <2>1, MessageIs
  <2>3. accepted[s] = "exchanged"
    BY <1>5, <1>12 DEF IndInv, AnswerInv, Carried
  <2>4. Offerer[s] = c /\ Target[s] # c /\ Target[s] \in Clients
    BY <1>12, <2>1, SessionsAssumption DEF IndInv, SidesInv
  <2>5. remote' = [remote EXCEPT ![c][s] = Description(Target[s], s)]
    BY <1>12, <2>2
  <2> HIDE DEF s
  <2>6. TypeOK'
    <3>1. Description(Target[s], s) \in Descriptions
      BY <2>1, <2>4 DEF Descriptions
    <3>2. remote' \in [Clients -> [Sessions -> {<<>>} \cup Descriptions]]
      <4> HIDE <1>12
      <4> QED
        BY <2>5, <3>1 DEF IndInv, TypeOK
    <3>3. callbacks' \in [Clients -> SUBSET Sessions]
      BY <1>12 DEF IndInv, TypeOK
    <3>4. offer' \in [Sessions -> {"idle", "sent", "failed", "waiting", "answered",
                                  "exchanged"}]
      BY <1>12 DEF IndInv, TypeOK
    <3> QED
      BY <1>1, <1>5, <3>2, <3>3, <3>4 DEF IndInv, TypeOK, socketVars, outVars
  <2>7. /\ remote'[c][s] = Description(Target[s], s)
        /\ \A d \in Clients, t \in Sessions :
              d # c \/ t # s => remote'[d][t] = remote[d][t]
    BY <2>1, <2>5 DEF IndInv, TypeOK
  <2>8. /\ \A d \in Clients : callbacks'[d] \subseteq callbacks[d]
        /\ \A t \in Sessions \ {s} : offer'[t] = offer[t]
    BY <1>12 DEF IndInv, TypeOK
  <2>9. \A t \in Sessions : Offerer[t] \in Clients /\ Target[t] \in Clients
    BY SessionsAssumption
  <2>10. SidesInv'
    <3>1. \A d \in Clients : \A t \in callbacks'[d] : Offerer[t] = d
      BY <2>8 DEF IndInv, SidesInv
    <3>2. \A t \in Sessions :
             accepted[t] = "exchanged" => remote'[Target[t]][t] = Description(Offerer[t], t)
      BY <2>4, <2>7, <2>9 DEF IndInv, SidesInv
    <3> QED
      BY <1>1, <3>1, <3>2 DEF SidesInv, Description
  <2>11. DescriptionsMatch'
    <3> SUFFICES ASSUME NEW t \in Sessions, offer'[t] \in {"answered", "exchanged"}
                 PROVE  /\ accepted[t] = "exchanged"
                        /\ remote'[Offerer[t]][t] = Description(Target[t], t)
                        /\ remote'[Target[t]][t] = Description(Offerer[t], t)
      BY <1>1 DEF DescriptionsMatch, Description
    <3>1. CASE t = s
      <4>1. remote'[Target[s]][s] = Description(Offerer[s], s)
        BY <2>1, <2>3, <2>4, <2>7 DEF IndInv, SidesInv
      <4> QED
        BY <3>1, <4>1, <2>3, <2>4, <2>7
    <3>2. CASE t # s
      BY <3>2, <2>7, <2>8, <2>9 DEF IndInv, DescriptionsMatch
    <3> QED
      BY <3>1, <3>2
  <2> QED
    BY <1>9, <1>10, <2>6, <2>10, <2>11 DEF IndInv
<1> QED
  BY <1>2, <1>11, <1>12

\* The steps of connect() and of the writing task, and an update of the app.
LEMMA ConnectStep ==
    ASSUME IndInv, NEW c \in Clients, Connect(c)
    PROVE  IndInv'
<1>1. /\ conn[c] = "idle"
      /\ conn' = [conn EXCEPT ![c] = "waiting"]
      /\ live' = [live EXCEPT ![c] = TRUE]
      /\ writer' = [writer EXCEPT ![c] = TRUE]
      /\ UNCHANGED <<sent, down, up, hello, held, rx, passing, app, ready, seen, sendq,
                     sessionVars>>
  BY DEF Connect
<1>2. TypeOK'
  BY <1>1 DEF IndInv, TypeOK, sessionVars
<1>3. /\ live'[c] /\ conn'[c] = "waiting"
      /\ \A d \in Clients \ {c} : live'[d] = live[d] /\ conn'[d] = conn[d]
  BY <1>1 DEF IndInv, TypeOK
<1>4. Past(c)' = Past(c) /\ \A d \in Clients \ {c} : Chain(d)' = Chain(d)
  BY <1>1, <1>3 DEF Past, Chain
<1>5. ~live[c] /\ sent[c] = <<>> /\ down[c] = <<>>
  BY <1>1 DEF IndInv, QuietInv
<1>6. Past(c) \in Seq(Incoming) /\ IsPrefix(Past(c), <<>>)
  BY <1>5, PastType DEF IndInv, InOrder
<1>7. Past(c) = <<>>
  BY <1>6, PrefixOfEmpty
<1>8. Past(c)' \o down'[c] = sent'[c]
  BY <1>1, <1>4, <1>5, <1>7
<1>9. QuietInv' /\ InOrder'
  BY <1>3, <1>4, <1>8, ChainStep DEF IndInv
<1>10. AnswerInv'
  BY <1>1 DEF IndInv, AnswerInv, Carried, sessionVars
<1>11. SidesInv' /\ DescriptionsMatch'
  BY <1>1, SidesKeep DEF IndInv
<1> QED
  BY <1>2, <1>9, <1>10, <1>11 DEF IndInv

LEMMA OpenStep ==
    ASSUME IndInv, NEW c \in Clients, Open(c) \/ Panic(c) \/ OnConnection(c)
    PROVE  IndInv'
<1>1. /\ conn[c] # "idle"
      /\ \/ /\ conn' = [conn EXCEPT ![c] = "open"] \/ conn' = [conn EXCEPT ![c] = "panicked"]
            /\ UNCHANGED ready
         \/ ready' = [ready EXCEPT ![c] = TRUE] /\ UNCHANGED conn
      /\ UNCHANGED <<socketVars, hello, held, rx, passing, app, seen, outVars, sessionVars>>
  BY DEF Open, Panic, OnConnection
<1>2. TypeOK'
  BY <1>1 DEF IndInv, TypeOK, socketVars, outVars, sessionVars
<1>3. /\ conn'[c] # "idle"
      /\ \A d \in Clients \ {c} : conn'[d] = conn[d]
  BY <1>1 DEF IndInv, TypeOK
<1>4. Past(c)' = Past(c) /\ \A d \in Clients \ {c} : Chain(d)' = Chain(d)
  BY <1>1, <1>3 DEF Past, Chain, socketVars
<1>5. QuietInv' /\ InOrder'
  <2>1. /\ live'[c] = live[c] /\ down'[c] = down[c] /\ sent'[c] = sent[c]
        /\ ~live[c] => down[c] = <<>>
    BY <1>1 DEF socketVars, IndInv, QuietInv
  <2>2. IF live'[c] THEN Past(c)' \o down'[c] = sent'[c] ELSE IsPrefix(Past(c)', sent'[c])
    BY <1>4, <2>1 DEF IndInv, InOrder
  <2> QED
    BY <1>3, <1>4, <2>1, <2>2, ChainStep DEF IndInv
<1>6. AnswerInv'
  BY <1>1 DEF IndInv, AnswerInv, Carried, socketVars, outVars, sessionVars
<1>7. SidesInv' /\ DescriptionsMatch'
  BY <1>1, SidesKeep DEF IndInv
<1> QED
  BY <1>2, <1>5, <1>6, <1>7 DEF IndInv

LEMMA WriteStep ==
    ASSUME IndInv, NEW c \in Clients, Write(c)
    PROVE  IndInv'
<1> DEFINE m == Head(sendq[c])
<1>1. /\ sendq[c] # <<>>
      /\ up' = Put(up, c, m) /\ sendq' = Drop(sendq, c)
      /\ UNCHANGED <<live, sent, down, inVars, writer, sessionVars>>
  BY DEF Write
<1>2. sendq \in [Clients -> Seq(Outgoing)] /\ up \in [Clients -> Seq(Outgoing)]
  BY DEF IndInv, TypeOK
<1>3. /\ m \in Outgoing /\ m \in Range(sendq[c])
      /\ sendq' \in [Clients -> Seq(Outgoing)]
      /\ Range(sendq'[c]) \subseteq Range(sendq[c])
      /\ \A d \in Clients \ {c} : sendq'[d] = sendq[d]
  BY <1>1, <1>2, DropIs
<1> HIDE DEF m
<1>4. /\ up' \in [Clients -> Seq(Outgoing)]
      /\ up'[c] = Append(up[c], m)
      /\ \A d \in Clients \ {c} : up'[d] = up[d]
  BY <1>1, <1>2, <1>3 DEF Put
<1>5. Range(up'[c]) \subseteq Range(up[c]) \cup {m}
  <2>1. up[c] \in Seq(Outgoing)
    BY <1>2
  <2> QED
    BY <1>3, <1>4, <2>1, AppendRange
<1>6. TypeOK'
  BY <1>1, <1>3, <1>4 DEF IndInv, TypeOK, inVars, sessionVars
<1>7. QuietInv' /\ InOrder'
  BY <1>1, ChainsKeep DEF IndInv, inVars
<1>8. AnswerInv'
  <2>1. \A d \in Clients : \A n \in Carried(d)' : n \in Carried(d)
    BY <1>1, <1>3, <1>4, <1>5 DEF Carried, inVars
  <2> QED
    BY <1>1, <2>1, AnswersKeep DEF IndInv, sessionVars
<1>9. SidesInv' /\ DescriptionsMatch'
  BY <1>1, SidesKeep DEF IndInv
<1> QED
  BY <1>6, <1>7, <1>8, <1>9 DEF IndInv

LEMMA StopWritingStep ==
    ASSUME IndInv, NEW c \in Clients, StopWriting(c)
    PROVE  IndInv'
<1>1. /\ writer' = [writer EXCEPT ![c] = FALSE]
      /\ sendq' = [sendq EXCEPT ![c] = <<>>]
      /\ UNCHANGED <<socketVars, inVars, sessionVars>>
  BY DEF StopWriting
<1>2. TypeOK'
  BY <1>1 DEF IndInv, TypeOK, socketVars, inVars, sessionVars
<1>3. QuietInv' /\ InOrder'
  BY <1>1, ChainsKeep DEF IndInv, inVars, socketVars
<1>4. AnswerInv'
  <2>1. Range(<<>>) = {}
    BY DEF Range
  <2>2. \A d \in Clients : sendq'[d] = <<>> \/ sendq'[d] = sendq[d]
    BY <1>1 DEF IndInv, TypeOK
  <2>3. \A d \in Clients : \A n \in Carried(d)' : n \in Carried(d)
    BY <1>1, <2>1, <2>2 DEF Carried, inVars, socketVars
  <2> QED
    BY <1>1, <2>3, AnswersKeep DEF IndInv, sessionVars
<1>5. SidesInv' /\ DescriptionsMatch'
  BY <1>1, SidesKeep DEF IndInv
<1> QED
  BY <1>2, <1>3, <1>4, <1>5 DEF IndInv

-----------------------------------------------------------------------------
(* send_update, send_offer and accept_offer.                               *)

\* A message given to the writing task.
LEMMA GivenIs ==
    ASSUME TypeOK, NEW c \in Clients, NEW m \in Outgoing, sendq' = Put(sendq, c, m),
           UNCHANGED <<socketVars, inVars>>
    PROVE  /\ sendq' \in [Clients -> Seq(Outgoing)]
           /\ \A d \in Clients : \A n \in Carried(d)' : n = m \/ n \in Carried(d)
<1>1. sendq \in [Clients -> Seq(Outgoing)] /\ sendq[c] \in Seq(Outgoing)
  BY DEF TypeOK
<1>2. /\ sendq' \in [Clients -> Seq(Outgoing)]
      /\ sendq'[c] = Append(sendq[c], m)
      /\ \A d \in Clients \ {c} : sendq'[d] = sendq[d]
  BY <1>1 DEF Put
<1>3. Range(sendq'[c]) \subseteq Range(sendq[c]) \cup {m}
  BY <1>1, <1>2, AppendRange
<1>4. \A d \in Clients : Range(sendq'[d]) \subseteq Range(sendq[d]) \cup {m}
  BY <1>2, <1>3
<1>5. \A d \in Clients : \A n \in Carried(d)' : n = m \/ n \in Carried(d)
  BY <1>4 DEF Carried, socketVars, inVars
<1> QED
  BY <1>2, <1>5

\* Everything under way is a message that can be.
LEMMA CarriedIs ==
    ASSUME TypeOK, NEW c \in Clients
    PROVE  Carried(c) \subseteq Incoming
<1>1. /\ sendq[c] \in Seq(Outgoing) /\ up[c] \in Seq(Outgoing)
      /\ down[c] \in Seq(Incoming) /\ held[c] \in Seq(Incoming) /\ rx[c] \in Seq(Incoming)
  BY DEF TypeOK
<1>2. /\ Range(sendq[c]) \subseteq Outgoing /\ Range(up[c]) \subseteq Outgoing
      /\ Range(down[c]) \subseteq Incoming /\ Range(held[c]) \subseteq Incoming
      /\ Range(rx[c]) \subseteq Incoming
  BY <1>1 DEF Range
<1> QED
  BY <1>2, OutgoingIsIncoming DEF Carried

LEMMA SendUpdateStep ==
    ASSUME IndInv, NEW c \in Clients, SendUpdate(c)
    PROVE  IndInv'
<1>1. /\ sendq' = Put(sendq, c, Update)
      /\ UNCHANGED <<socketVars, inVars, writer, sessionVars>>
  BY DEF SendUpdate
<1>2. Update \in Outgoing /\ Update.type = "UPDATE"
  BY MessageIs
<1>3. /\ sendq' \in [Clients -> Seq(Outgoing)]
      /\ \A d \in Clients : \A n \in Carried(d)' : n = Update \/ n \in Carried(d)
  BY <1>1, <1>2, GivenIs DEF IndInv
<1>4. TypeOK'
  BY <1>1, <1>3 DEF IndInv, TypeOK, socketVars, inVars, sessionVars
<1>5. QuietInv' /\ InOrder'
  BY <1>1, ChainsKeep DEF IndInv, inVars, socketVars
<1>6. AnswerInv'
  BY <1>1, <1>2, <1>3, AnswersKeep DEF IndInv, sessionVars
<1>7. SidesInv' /\ DescriptionsMatch'
  BY <1>1, SidesKeep DEF IndInv
<1> QED
  BY <1>4, <1>5, <1>6, <1>7 DEF IndInv

LEMMA SendOfferStep ==
    ASSUME IndInv, NEW s \in Sessions, SendOffer(s)
    PROVE  IndInv'
<1> DEFINE c == Offerer[s]
<1>1. /\ \/ sendq' = Put(sendq, c, Offer(s))
         \/ UNCHANGED sendq
      /\ \/ offer' = [offer EXCEPT ![s] = "sent"]
         \/ offer' = [offer EXCEPT ![s] = "failed"]
      /\ UNCHANGED <<socketVars, inVars, writer, callbacks, accepted, remote>>
  BY DEF SendOffer
<1>2. c \in Clients /\ Offer(s) \in Outgoing /\ Offer(s).type = "OFFER"
  BY SessionsAssumption, MessageIs
<1> HIDE DEF c
<1>3. /\ sendq' \in [Clients -> Seq(Outgoing)]
      /\ \A d \in Clients : \A n \in Carried(d)' : n = Offer(s) \/ n \in Carried(d)
  <2>1. CASE sendq' = Put(sendq, c, Offer(s))
    BY <1>1, <1>2, <2>1, GivenIs DEF IndInv
  <2>2. CASE UNCHANGED sendq
    BY <1>1, <2>2 DEF IndInv, TypeOK, Carried, socketVars, inVars
  <2> QED
    BY <1>1, <2>1, <2>2
<1>4. /\ offer' \in [Sessions -> {"idle", "sent", "failed", "waiting", "answered",
                                  "exchanged"}]
      /\ offer'[s] \in {"sent", "failed"}
      /\ \A t \in Sessions \ {s} : offer'[t] = offer[t]
  BY <1>1 DEF IndInv, TypeOK
<1>5. TypeOK'
  BY <1>1, <1>3, <1>4 DEF IndInv, TypeOK, socketVars, inVars
<1>6. QuietInv' /\ InOrder'
  BY <1>1, ChainsKeep DEF IndInv, inVars, socketVars
<1>7. AnswerInv'
  BY <1>1, <1>2, <1>3, AnswersKeep DEF IndInv
<1>8. SidesInv' /\ DescriptionsMatch'
  BY <1>1, <1>4 DEF IndInv, SidesInv, DescriptionsMatch
<1> QED
  BY <1>5, <1>6, <1>7, <1>8 DEF IndInv

\* on_answer registers the callback with the offerer's own connection.
LEMMA OnAnswerStep ==
    ASSUME IndInv, NEW s \in Sessions, OnAnswer(s)
    PROVE  IndInv'
<1> DEFINE c == Offerer[s]
<1>1. /\ offer' = [offer EXCEPT ![s] = "waiting"]
      /\ callbacks' = [callbacks EXCEPT ![c] = @ \cup {s}]
      /\ UNCHANGED <<socketVars, inVars, outVars, accepted, remote>>
  BY DEF OnAnswer
<1>2. c \in Clients
  BY SessionsAssumption
<1>3. /\ offer' \in [Sessions -> {"idle", "sent", "failed", "waiting", "answered",
                                  "exchanged"}]
      /\ offer'[s] = "waiting"
      /\ \A t \in Sessions \ {s} : offer'[t] = offer[t]
  BY <1>1 DEF IndInv, TypeOK
<1>4. /\ callbacks' \in [Clients -> SUBSET Sessions]
      /\ callbacks'[c] = callbacks[c] \cup {s}
      /\ \A d \in Clients \ {c} : callbacks'[d] = callbacks[d]
  BY <1>1, <1>2 DEF IndInv, TypeOK
<1>5. TypeOK'
  BY <1>1, <1>3, <1>4 DEF IndInv, TypeOK, socketVars, inVars, outVars
<1>6. QuietInv' /\ InOrder'
  BY <1>1, ChainsKeep DEF IndInv, inVars, socketVars
<1>7. AnswerInv'
  BY <1>1 DEF IndInv, AnswerInv, Carried, socketVars, inVars, outVars
<1>8. SidesInv' /\ DescriptionsMatch'
  BY <1>1, <1>3, <1>4 DEF IndInv, SidesInv, DescriptionsMatch
<1> QED
  BY <1>5, <1>6, <1>7, <1>8 DEF IndInv

LEMMA ExchangeStep ==
    ASSUME IndInv, NEW s \in Sessions, Exchange(s)
    PROVE  IndInv'
<1>1. /\ offer[s] = "answered"
      /\ offer' = [offer EXCEPT ![s] = "exchanged"]
      /\ UNCHANGED <<socketVars, inVars, outVars, callbacks, accepted, remote>>
  BY DEF Exchange
<1>2. /\ offer' \in [Sessions -> {"idle", "sent", "failed", "waiting", "answered",
                                  "exchanged"}]
      /\ \A t \in Sessions \ {s} : offer'[t] = offer[t]
  BY <1>1 DEF IndInv, TypeOK
<1>3. TypeOK'
  BY <1>1, <1>2 DEF IndInv, TypeOK, socketVars, inVars, outVars
<1>4. QuietInv' /\ InOrder'
  BY <1>1, ChainsKeep DEF IndInv, inVars, socketVars
<1>5. AnswerInv'
  BY <1>1 DEF IndInv, AnswerInv, Carried, socketVars, inVars, outVars
<1>6. SidesInv' /\ DescriptionsMatch'
  BY <1>1, <1>2 DEF IndInv, SidesInv, DescriptionsMatch
<1> QED
  BY <1>3, <1>4, <1>5, <1>6 DEF IndInv

\* The target has the offerer's description before its answer is under way, and no
\* answer was under way before, or the offer would be accepted already.
LEMMA AcceptOfferStep ==
    ASSUME IndInv, NEW s \in Sessions, AcceptOffer(s)
    PROVE  IndInv'
<1> DEFINE c == Target[s]
<1>1. /\ accepted[s] = "idle"
      /\ remote' = [remote EXCEPT ![c][s] = decode_sdp(Offer(s).sdp)]
      /\ \/ /\ sendq' = Put(sendq, c, Answer(s))
            /\ accepted' = [accepted EXCEPT ![s] = "exchanged"]
         \/ /\ accepted' = [accepted EXCEPT ![s] = "failed"]
            /\ UNCHANGED sendq
      /\ UNCHANGED <<socketVars, inVars, writer, callbacks, offer>>
  BY DEF AcceptOffer
<1>2. /\ c \in Clients /\ Answer(s) \in Outgoing
      /\ Answer(s).type = "ANSWER" /\ Answer(s).session = s
      /\ decode_sdp(Offer(s).sdp) = Description(Offerer[s], s)
  BY SessionsAssumption, MessageIs
<1>3. \A t \in Sessions : /\ Offerer[t] \in Clients /\ Target[t] \in Clients
                          /\ Offerer[t] # Target[t]
  BY SessionsAssumption
<1> HIDE DEF c
<1>4. /\ remote' \in [Clients -> [Sessions -> {<<>>} \cup Descriptions]]
      /\ remote'[c][s] = Description(Offerer[s], s)
      /\ \A d \in Clients, t \in Sessions : d # c \/ t # s => remote'[d][t] = remote[d][t]
  <2>1. remote' = [remote EXCEPT ![c][s] = Description(Offerer[s], s)]
    BY <1>1, <1>2
  <2>2. Description(Offerer[s], s) \in Descriptions
    BY <1>3 DEF Descriptions
  <2> HIDE <1>1
  <2> QED
    BY <1>2, <2>1, <2>2 DEF IndInv, TypeOK
<1>5. /\ accepted' \in [Sessions -> {"idle", "exchanged", "failed"}]
      /\ \A t \in Sessions \ {s} : accepted'[t] = accepted[t]
  BY <1>1 DEF IndInv, TypeOK
<1>6. /\ sendq' \in [Clients -> Seq(Outgoing)]
      /\ \A d \in Clients : \A n \in Carried(d)' :
            n \in Carried(d) \/ (n = Answer(s) /\ accepted'[s] = "exchanged")
  <2>1. CASE /\ sendq' = Put(sendq, c, Answer(s))
             /\ accepted' = [accepted EXCEPT ![s] = "exchanged"]
    <3>1. accepted'[s] = "exchanged"
      BY <2>1 DEF IndInv, TypeOK
    <3> QED
      BY <1>1, <1>2, <2>1, <3>1, GivenIs DEF IndInv
  <2>2. CASE UNCHANGED sendq
    BY <1>1, <2>2 DEF IndInv, TypeOK, Carried, socketVars, inVars
  <2> QED
    BY <1>1, <2>1, <2>2
<1>7. TypeOK'
  BY <1>1, <1>4, <1>5, <1>6 DEF IndInv, TypeOK, socketVars, inVars
<1>8. QuietInv' /\ InOrder'
  BY <1>1, ChainsKeep DEF IndInv, inVars, socketVars
<1>9. AnswerInv'
  <2> SUFFICES ASSUME NEW d \in Clients, NEW n \in Carried(d)', n.type = "ANSWER"
               PROVE  accepted'[n.session] = "exchanged"
    BY DEF AnswerInv
  <2>1. CASE n = Answer(s) /\ accepted'[s] = "exchanged"
    BY <1>2, <2>1
  <2>2. CASE n \in Carried(d)
    <3>1. accepted[n.session] = "exchanged"
      BY <2>2 DEF IndInv, AnswerInv
    <3>2. n \in Incoming
      BY <2>2, CarriedIs DEF IndInv
    <3>3. n.session \in Sessions
      BY <3>2, TypedMessage
    <3> QED
      BY <1>1, <1>5, <3>1, <3>3
  <2> QED
    BY <1>6, <2>1, <2>2
<1>10. SidesInv'
  <2>1. \A d \in Clients : \A t \in callbacks'[d] : Offerer[t] = d
    BY <1>1 DEF IndInv, SidesInv
  <2>2. \A t \in Sessions : accepted'[t] = "exchanged" =>
           remote'[Target[t]][t] = Description(Offerer[t], t)
    BY <1>3, <1>4, <1>5 DEF IndInv, SidesInv, c
  <2> QED
    BY <2>1, <2>2 DEF SidesInv, Description
<1>11. DescriptionsMatch'
  <2> SUFFICES ASSUME NEW t \in Sessions, offer'[t] \in {"answered", "exchanged"}
               PROVE  /\ accepted'[t] = "exchanged"
                      /\ remote'[Offerer[t]][t] = Description(Target[t], t)
                      /\ remote'[Target[t]][t] = Description(Offerer[t], t)
    BY DEF DescriptionsMatch, Description
  <2>1. /\ accepted[t] = "exchanged"
        /\ remote[Offerer[t]][t] = Description(Target[t], t)
        /\ remote[Target[t]][t] = Description(Offerer[t], t)
    BY <1>1 DEF IndInv, DescriptionsMatch
  <2>2. t # s
    BY <1>1, <2>1
  <2> QED
    BY <1>3, <1>4, <1>5, <2>1, <2>2
<1> QED
  BY <1>7, <1>8, <1>9, <1>10, <1>11 DEF IndInv

-----------------------------------------------------------------------------
(* The theorems.                                                           *)

LEMMA InvInit == Init => IndInv
<1> SUFFICES ASSUME Init PROVE IndInv
  OBVIOUS
<1>1. /\ <<>> \in Seq(Incoming) /\ <<>> \in Seq(Outgoing)
      /\ Range(<<>>) = {}
      /\ <<>> \o <<>> = <<>>
  BY DEF Range
<1>2. TypeOK
  BY <1>1 DEF Init, TypeOK
<1>3. QuietInv
  BY DEF Init, QuietInv
<1>4. \A c \in Clients : /\ ~live[c] /\ sent[c] = <<>>
                         /\ seen[c] = <<>> /\ app[c] = <<>> /\ passing[c] = <<>>
                         /\ rx[c] = <<>> /\ held[c] = <<>> /\ down[c] = <<>>
                         /\ up[c] = <<>> /\ sendq[c] = <<>> /\ callbacks[c] = {}
  BY DEF Init
<1>5. IsPrefix(<<>>, <<>>)
  BY DEF IsPrefix
<1>6. InOrder
  BY <1>1, <1>4, <1>5 DEF InOrder, Past
<1>7. AnswerInv
  BY <1>1, <1>4 DEF AnswerInv, Carried
<1>8. SidesInv /\ DescriptionsMatch
  BY <1>4 DEF Init, SidesInv, DescriptionsMatch
<1> QED
  BY <1>2, <1>3, <1>6, <1>7, <1>8 DEF IndInv

LEMMA InvStep == IndInv /\ [Next]_vars => IndInv'
<1> SUFFICES ASSUME IndInv, [Next]_vars PROVE IndInv'
  OBVIOUS
<1>1. ASSUME NEW c \in Clients, Tasks(c) PROVE IndInv'
  BY <1>1, ReadStep, ForwardStep, OpenStep, WriteStep, StopWritingStep, ListenStep,
     PassStep, SeeStep DEF Tasks
<1>2. ASSUME NEW c \in Clients, Server(c) PROVE IndInv'
  <2>1. CASE SendHello(c)
    <3>1. live[c] /\ Queue(c, Hello) /\ UNCHANGED <<live, up, inVars, outVars, sessionVars>>
      BY <2>1 DEF SendHello
    <3> QED
      BY <3>1, QueueStep
  <2>2. CASE SendNews(c)
    <3>1. live[c] /\ Queue(c, News) /\ UNCHANGED <<live, up, inVars, outVars, sessionVars>>
      BY <2>2 DEF SendNews
    <3> QED
      BY <3>1, QueueStep
  <2> QED
    BY <1>2, <2>1, <2>2, RelayStep, BreakStep DEF Server
<1>3. ASSUME NEW s \in Sessions, Calls(s) PROVE IndInv'
  BY <1>3, OnAnswerStep, ExchangeStep DEF Calls
<1>4. ASSUME Apps PROVE IndInv'
  BY <1>4, ConnectStep, SendUpdateStep, SendOfferStep, AcceptOfferStep DEF Apps
<1>5. CASE UNCHANGED vars
  <2>1. UNCHANGED <<socketVars, inVars, outVars, sessionVars>>
    BY <1>5 DEF vars
  <2>2. TypeOK'
    BY <2>1 DEF IndInv, TypeOK, socketVars, inVars, outVars, sessionVars
  <2>3. QuietInv' /\ InOrder'
    BY <2>1, ChainsKeep DEF IndInv, inVars, socketVars
  <2>4. AnswerInv'
    BY <2>1 DEF IndInv, AnswerInv, Carried, socketVars, inVars, outVars, sessionVars
  <2>5. SidesInv' /\ DescriptionsMatch'
    BY <2>1, SidesKeep DEF IndInv
  <2> QED
    BY <2>2, <2>3, <2>4, <2>5 DEF IndInv
<1> QED
  BY <1>1, <1>2, <1>3, <1>4, <1>5 DEF Next

\* The inductive invariant: what the queues between a socket and the app hold, which
\* answers are under way, and what either side of a session has been given.
THEOREM Inductive == Spec => []IndInv
<1>1. Init => IndInv
  BY InvInit
<1>2. IndInv /\ [Next]_vars => IndInv'
  BY InvStep
<1> QED
  BY <1>1, <1>2, PTL DEF Spec

\* The reading task, the listener and the app's loop hand over every message of the
\* server in its order, whatever the capacities of the queues between them and at
\* whatever point the socket breaks.
THEOREM OrderKept == Spec => []InOrder
<1>1. IndInv => InOrder
  BY DEF IndInv
<1> QED
  BY <1>1, Inductive, PTL

\* An offer that is answered has been accepted by its target, and each side has been
\* given the other's description, for any number of clients and sessions.
THEOREM Matched == Spec => []DescriptionsMatch
<1>1. IndInv => DescriptionsMatch
  BY DEF IndInv
<1> QED
  BY <1>1, Inductive, PTL
=============================================================================
