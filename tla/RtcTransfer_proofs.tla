-------------------------- MODULE RtcTransfer_proofs --------------------------
(***************************************************************************)
(* Proofs about RtcTransfer, for every set of files, sizes, settings of    *)
(* the two users, PINs and bounds.                                         *)
(***************************************************************************)
EXTENDS RtcTransfer, SequenceTheorems, TLAPS

-----------------------------------------------------------------------------
(* Lemmas.                                                                 *)

\* The two sides.
LEMMA TwoSides == Sides = {"S", "R"} /\ \A s \in Sides : Other(s) \in Sides /\ Other(s) # s
BY DEF Sides, Other

\* A text of the program is a sequence of two messages.
LEMMA TextType ==
    ASSUME NEW r \in Results, NEW F \in SUBSET Files
    PROVE  /\ Text(r, F) \in Seq(Message)
           /\ Text(r, F) = <<Part(r, F, NoKey), Delimiter>>
           /\ Len(Text(r, F)) = 2
<1>1. Part(r, F, NoKey) \in Message /\ Delimiter \in Message
  BY DEF Part, Message
<1>2. QED
  BY <1>1 DEF Text

\* What each kind of message has.
LEMMA MessageParts ==
    ASSUME NEW m \in Message
    PROVE  /\ m.kind = "nonce" => m.nonce \in Nonces
           /\ m.kind = "token" => m.token \in Tokens
           /\ m.kind = "tokenStatus" => m.status \in Results /\ m.token \in Tokens \cup {<<>>}
           /\ m.kind = "pin" => m.pin \in Guesses
           /\ m.kind = "part" => m.status \in Results /\ m.files \in SUBSET Files
           /\ m.kind = "header" => m.file \in Files /\ m.of \in Nat \X {0}
           /\ m.kind = "chunk" => m.of \in Nat \X Nat
BY DEF Message, Delimiter

\* A sequence of one message.
LEMMA OneMessage == \A m \in Message : <<m>> \in Seq(Message) /\ Len(<<m>>) = 1 /\ <<m>>[1] = m
OBVIOUS

\* A side's token over any nonces it may have computed, and both nonces.
LEMMA TokenType ==
    ASSUME NEW s \in Sides
    PROVE  /\ \A n \in Salts : generate_token_nonce(KeyOf(s), n) \in Tokens
           /\ generate_nonce(s) \in Nonces
           /\ \A n \in Nonces : NonceFor(s, n) \in Salts
<1>1. generate_nonce("S") \in Nonces /\ generate_nonce("R") \in Nonces
  BY TwoSides DEF Nonces
<1>2. generate_nonce(s) \in Nonces
  BY DEF Nonces
<1>3. \A n \in Salts : generate_token_nonce(KeyOf(s), n) \in Tokens
  BY DEF Tokens
<1>4. ASSUME NEW n \in Nonces PROVE NonceFor(s, n) \in Salts
  BY <1>1 DEF NonceFor, Salts
<1>5. QED
  BY <1>2, <1>3, <1>4

\* What is sent keeps the types, and so does the place the task goes to.
LEMMA SendType ==
    ASSUME TypeOK, NEW s \in Sides, NEW ms \in Seq(Message), NEW a \in Places, NEW b \in Places,
           Send(s, ms, a, b)
    PROVE  net' \in [Sides -> Seq(Message)] /\ at' \in [Sides -> Places]
<1>1. Other(s) \in Sides
  BY TwoSides
<1>2. CASE link = "up"
  <2>0. net[Other(s)] \in Seq(Message)
    BY <1>1 DEF TypeOK
  <2>1. net[Other(s)] \o ms \in Seq(Message)
    BY <2>0, ConcatProperties, Zenon
  <2>2. net' = [net EXCEPT ![Other(s)] = @ \o ms] /\ at' = [at EXCEPT ![s] = a]
    BY <1>2 DEF Send, GoTo
  <2>3. net \in [Sides -> Seq(Message)] /\ at \in [Sides -> Places]
    BY DEF TypeOK
  <2>4. net' \in [Sides -> Seq(Message)]
    BY <1>1, <2>1, <2>2, <2>3
  <2>5. at' \in [Sides -> Places]
    BY <2>2, <2>3
  <2>6. QED
    BY <2>4, <2>5
<1>3. CASE link = "down"
  BY <1>3, ZenonT(60) DEF Send, GoTo, TypeOK
<1>4. QED
  BY <1>2, <1>3 DEF TypeOK

\* A message that is read keeps the types of the others.
LEMMA ReadType ==
    ASSUME TypeOK, NEW s \in Sides, inbox[s] # <<>>
    PROVE  /\ Head(inbox[s]) \in Message
           /\ Tail(inbox[s]) \in Seq(Message)
           /\ [inbox EXCEPT ![s] = Tail(@)] \in [Sides -> Seq(Message)]
<1>1. inbox \in [Sides -> Seq(Message)] /\ inbox[s] \in Seq(Message)
  BY DEF TypeOK
<1>2. Head(inbox[s]) \in Message /\ Tail(inbox[s]) \in Seq(Message)
  BY <1>1, HeadTailProperties, Zenon
<1>3. QED
  BY <1>1, <1>2

\* A text that is read is two messages.
LEMMA ReadTextType ==
    ASSUME TypeOK, NEW s \in Sides, Len(inbox[s]) >= 2
    PROVE  /\ inbox[s] # <<>> /\ Head(inbox[s]) = inbox[s][1] /\ inbox[s][1] \in Message
           /\ Tail(Tail(inbox[s])) \in Seq(Message)
           /\ [inbox EXCEPT ![s] = Tail(Tail(@))] \in [Sides -> Seq(Message)]
<1>1. inbox \in [Sides -> Seq(Message)] /\ inbox[s] \in Seq(Message)
  BY DEF TypeOK
<1>2. inbox[s] # <<>> /\ Head(inbox[s]) = inbox[s][1] /\ inbox[s][1] \in Message
  <2>1. inbox[s] # <<>>
    BY EmptySeq
  <2>2. Head(inbox[s]) = inbox[s][1]
    BY <1>1
  <2>3. Head(inbox[s]) \in Message
    BY <1>1, <2>1, HeadTailProperties, Zenon
  <2>4. QED
    BY <2>1, <2>2, <2>3
<1>3. Tail(inbox[s]) \in Seq(Message) /\ Len(Tail(inbox[s])) = Len(inbox[s]) - 1
  BY <1>1, <1>2, HeadTailProperties, Zenon
<1>4. Tail(inbox[s]) # <<>>
  <2>1. Len(Tail(inbox[s])) # 0
    BY <1>1, <1>3, LenProperties
  <2>2. QED
    BY <2>1, EmptySeq
<1>5. Tail(Tail(inbox[s])) \in Seq(Message)
  BY <1>3, <1>4, HeadTailProperties, Zenon
<1>6. QED
  BY <1>1, <1>2, <1>5

\* The places of both tasks.
LEMMA PlacesAre ==
    Places = {"opening", "nonce", "token", "pin", "reply", "verify", "list", "mistrusting",
              "locked", "select", "choose", "pairing", "files", "chunks", "draining",
              "header", "data", "result", "last", "done", "failed", "refusing", "flushing"}
BY TwoSides DEF Places, Early, Filing, Over

-----------------------------------------------------------------------------
(* Type correctness.                                                       *)

LEMMA TypeInit == Init => TypeOK
<1> SUFFICES ASSUME Init PROVE TypeOK
  OBVIOUS
<1>1. config \in Config
  BY ConfigsAssumption DEF Init
<1>2. \A S : <<>> \in Seq(S)
  OBVIOUS
<1>3. at \in [Sides -> Places]
  BY PlacesAre DEF Init
<1>4. net \in [Sides -> Seq(Message)] /\ inbox \in [Sides -> Seq(Message)]
  BY <1>2 DEF Init
<1>5. nonce \in [Sides -> Salts]
  BY DEF Init, Salts
<1>6. /\ link \in {"up", "down"}
      /\ remote \in Tokens \cup {<<>>}
      /\ guess \in [Sides -> Guesses \cup {""}] /\ tries \in [Sides -> Nat]
      /\ slot \in [Sides -> {"empty", "asked", "stored"}]
      /\ listed \in BOOLEAN /\ chosen \subseteq Files /\ granted \subseteq Files
      /\ calls \in Nat /\ confirmed \subseteq Files
  BY DEF Init
<1>7. handed \in Seq(Handed) /\ streams \in Seq(Stream) /\ results \in Seq({"success", "failure"})
  BY <1>2 DEF Init
<1>8. /\ status \in [Sides -> Statuses]
      /\ outcome \in [Sides -> {"none", "Finished", "Error"}]
  BY DEF Init, Statuses
<1>9. QED
  BY <1>1, <1>3, <1>4, <1>5, <1>6, <1>7, <1>8 DEF TypeOK

\* What the sender does once it trusts the receiver.
LEMMA ChallengeType ==
    ASSUME TypeOK, ChallengeOrList
    PROVE  /\ net' \in [Sides -> Seq(Message)] /\ at' \in [Sides -> Places]
           /\ status' \in [Sides -> Statuses]
<1>1. Text("PinRequired", {}) \in Seq(Message) /\ Text("Ok", Files) \in Seq(Message)
  BY TextType DEF Results
<1>2. \/ Send("S", Text("PinRequired", {}), "verify", "failed") /\ Tell("S", "PinRequired")
      \/ Send("S", Text("Ok", Files), "list", "failed") /\ Tell("S", "Connected")
  BY DEF ChallengeOrList
<1>3. net' \in [Sides -> Seq(Message)] /\ at' \in [Sides -> Places]
  BY <1>1, <1>2, SendType, PlacesAre, TwoSides
<1>4. QED
  BY <1>2, <1>3 DEF Tell, TypeOK, Statuses

\* The steps that send or read a nonce or a token.
LEMMA HandshakeType ==
    ASSUME TypeOK,
           \/ SendNonce \/ CheckSenderToken \/ CheckReceiverToken
           \/ \E s \in Sides : ReceiveNonce(s)
    PROVE  TypeOK'
<1> USE DEF vars, pinVars, fileVars, authVars
<1>1. CASE SendNonce
  <2>1. [kind |-> "nonce", nonce |-> generate_nonce("S")] \in Message
    BY TokenType, TwoSides DEF Message
  <2>2. net' \in [Sides -> Seq(Message)] /\ at' \in [Sides -> Places]
    BY <1>1, <2>1, OneMessage, SendType, PlacesAre, TwoSides DEF SendNonce
  <2>3. QED
    BY <1>1, <2>2 DEF SendNonce, TypeOK
<1>2. ASSUME NEW s \in Sides, ReceiveNonce(s) PROVE TypeOK'
  <2> DEFINE n == NonceFor(s, Head(inbox[s]).nonce)
             answer == IF s = "S"
                  THEN [kind |-> "token", token |-> generate_token_nonce(KeyOf("S"), n)]
                  ELSE [kind |-> "nonce", nonce |-> generate_nonce("R")]
  <2>1. inbox[s] # <<>> /\ Head(inbox[s]).kind = "nonce" /\ inbox' = [inbox EXCEPT ![s] = Tail(@)]
    BY <1>2 DEF ReceiveNonce, Reads
  <2>2. Head(inbox[s]).nonce \in Nonces /\ inbox' \in [Sides -> Seq(Message)]
    BY <2>1, ReadType, MessageParts
  <2>3. n \in Salts
    BY <2>2, TokenType
  <2>4. answer \in Message
    <3>1. generate_token_nonce(KeyOf("S"), n) \in Tokens /\ generate_nonce("R") \in Nonces
      BY <2>3, TokenType, TwoSides
    <3> HIDE DEF n
    <3>2. [kind |-> "token", token |-> generate_token_nonce(KeyOf("S"), n)] \in Message
      BY <3>1 DEF Message
    <3>3. [kind |-> "nonce", nonce |-> generate_nonce("R")] \in Message
      BY <3>1 DEF Message
    <3>4. QED
      BY <3>2, <3>3
  <2>5. Send(s, <<answer>>, "token", "failed") /\ nonce' = [nonce EXCEPT ![s] = n]
    BY <1>2 DEF ReceiveNonce
  <2> HIDE DEF n, answer
  <2>6. net' \in [Sides -> Seq(Message)] /\ at' \in [Sides -> Places]
    BY <2>4, <2>5, OneMessage, SendType, PlacesAre
  <2>7. nonce' \in [Sides -> Salts]
    BY <2>3, <2>5 DEF TypeOK
  <2>8. UNCHANGED <<link, status, outcome, config, remote, pinVars, fileVars>>
    BY <1>2 DEF ReceiveNonce
  <2>9. QED
    BY <2>2, <2>6, <2>7, <2>8 DEF TypeOK
<1>3. CASE CheckSenderToken
  <2> DEFINE token == generate_token_nonce(KeyOf("R"), nonce["R"])
             Answer(result) == [kind |-> "tokenStatus", status |-> result, token |-> token]
             refusal == [kind |-> "tokenStatus", status |-> "InvalidSignature", token |-> <<>>]
  <2>1. inbox["R"] # <<>> /\ inbox' = [inbox EXCEPT !["R"] = Tail(@)]
    BY <1>3 DEF CheckSenderToken, Reads
  <2>2. inbox' \in [Sides -> Seq(Message)]
    BY <2>1, ReadType, TwoSides
  <2>3. token \in Tokens
    BY TokenType, TwoSides DEF TypeOK
  <2>4. /\ refusal \in Message /\ Answer("Ok") \in Message /\ Answer("PinRequired") \in Message
        /\ Status("pinStatus", "Ok") \in Message
    BY <2>3 DEF Message, Results, Status
  <2>5. <<Answer("PinRequired"), Status("pinStatus", "Ok")>> \in Seq(Message)
    BY <2>4
  <2>6. \/ Send("R", <<refusal>>, "refusing", "failed")
        \/ Send("R", <<Answer("Ok")>>, "list", "failed")
        \/ Send("R", <<Answer("PinRequired")>>, "verify", "failed")
        \/ Send("R", <<Answer("PinRequired"), Status("pinStatus", "Ok")>>, "list", "failed")
    BY <1>3 DEF CheckSenderToken
  <2> HIDE DEF Answer, refusal
  <2>7. net' \in [Sides -> Seq(Message)] /\ at' \in [Sides -> Places]
    BY <2>4, <2>5, <2>6, OneMessage, SendType, PlacesAre, TwoSides
  <2>8. /\ UNCHANGED <<link, outcome, authVars, pinVars, fileVars>>
        /\ UNCHANGED status \/ Tell("R", "PinRequired")
    BY <1>3 DEF CheckSenderToken
  <2>9. QED
    BY <2>2, <2>7, <2>8 DEF TypeOK, Tell, Statuses
<1>4. CASE CheckReceiverToken
  <2>1. inbox["S"] # <<>> /\ inbox' = [inbox EXCEPT !["S"] = Tail(@)]
        /\ Head(inbox["S"]).kind = "tokenStatus"
    BY <1>4 DEF CheckReceiverToken, Reads
  <2>2. inbox' \in [Sides -> Seq(Message)] /\ Head(inbox["S"]).token \in Tokens \cup {<<>>}
    BY <2>1, ReadType, TwoSides, MessageParts
  <2>3. \/ GoTo("S", "failed") /\ UNCHANGED <<net, status, slot>>
        \/ AskForPin("S") /\ UNCHANGED net
        \/ ChallengeOrList /\ UNCHANGED slot
    BY <1>4 DEF CheckReceiverToken
  <2>4. /\ net' \in [Sides -> Seq(Message)] /\ at' \in [Sides -> Places]
        /\ slot' \in [Sides -> {"empty", "asked", "stored"}]
        /\ status' \in [Sides -> Statuses]
    <3>1. CASE GoTo("S", "failed") /\ UNCHANGED <<net, status, slot>>
      BY <3>1, PlacesAre DEF GoTo, TypeOK
    <3>2. CASE AskForPin("S") /\ UNCHANGED net
      BY <3>2, PlacesAre DEF AskForPin, GoTo, Tell, TypeOK, Statuses
    <3>3. CASE ChallengeOrList /\ UNCHANGED slot
      <4>1. slot' \in [Sides -> {"empty", "asked", "stored"}]
        BY <3>3 DEF TypeOK
      <4>2. QED
        BY <3>3, <4>1, ChallengeType
    <3>4. QED
      BY <2>3, <3>1, <3>2, <3>3
  <2>5. /\ remote' = Head(inbox["S"]).token
        /\ UNCHANGED <<link, outcome, config, nonce, guess, tries, fileVars>>
    BY <1>4 DEF CheckReceiverToken
  <2>6. QED
    BY <2>2, <2>4, <2>5 DEF TypeOK
<1>5. QED
  BY <1>1, <1>2, <1>3, <1>4

\* The steps about PINs.
LEMMA PinType ==
    ASSUME TypeOK,
           \/ ReadPinStatus \/ ReadList
           \/ \E s \in Sides : StoreSlot(s) \/ SendPin(s) \/ CheckPin(s)
    PROVE  TypeOK'
<1> USE DEF pinVars, fileVars, authVars
<1>1. ASSUME NEW s \in Sides, StoreSlot(s) PROVE TypeOK'
  BY <1>1 DEF StoreSlot, TypeOK
<1>2. ASSUME NEW s \in Sides, SendPin(s) PROVE TypeOK'
  <2>1. PICK pin \in Guesses : Send(s, <<[kind |-> "pin", pin |-> pin]>>, "reply", "failed")
    BY <1>2 DEF SendPin
  <2>2. [kind |-> "pin", pin |-> pin] \in Message
    BY DEF Message
  <2>3. net' \in [Sides -> Seq(Message)] /\ at' \in [Sides -> Places]
    BY <2>1, <2>2, OneMessage, SendType, PlacesAre
  <2>4. QED
    BY <1>2, <2>3 DEF SendPin, TypeOK
<1>3. ASSUME NEW s \in Sides, CheckPin(s) PROVE TypeOK'
  <2>1. inbox[s] # <<>> /\ Head(inbox[s]).kind = "pin" /\ inbox' = [inbox EXCEPT ![s] = Tail(@)]
    BY <1>3 DEF CheckPin, Reads
  <2>2. Head(inbox[s]).pin \in Guesses /\ inbox' \in [Sides -> Seq(Message)]
    BY <2>1, ReadType, MessageParts
  <2>3. /\ guess' = [guess EXCEPT ![s] = Head(inbox[s]).pin]
        /\ tries' = [tries EXCEPT ![s] = tries[s] + 1]
        /\ UNCHANGED <<link, outcome, authVars, slot, fileVars>>
    BY <1>3 DEF CheckPin
  <2>4. \A r \in Results : PinAnswer(s, r) \in Seq(Message)
    <3>1. \A r \in Results : <<Status("pinStatus", r)>> \in Seq(Message)
      BY OneMessage DEF Status, Message
    <3>2. \A r \in Results : Text(r, {}) \in Seq(Message)
      BY TextType
    <3>3. QED
      BY <3>1, <3>2 DEF PinAnswer
  <2>5. \/ Send(s, PinAnswer(s, "Ok"), "list", "failed")
        \/ Send(s, Text("Ok", Files), "list", "failed")
        \/ Send(s, PinAnswer(s, "PinRequired"), "verify", "failed")
        \/ Send(s, PinAnswer(s, "TooManyAttempts"), "locked", "locked")
    BY <1>3 DEF CheckPin
  <2>6. net' \in [Sides -> Seq(Message)] /\ at' \in [Sides -> Places]
    <3>1. \A r \in {"Ok", "PinRequired", "TooManyAttempts"} : r \in Results
      BY DEF Results
    <3>2. Text("Ok", Files) \in Seq(Message)
      BY <3>1, TextType
    <3>3. QED
      BY <2>4, <2>5, <3>1, <3>2, SendType, PlacesAre
  <2>7. UNCHANGED status \/ Tell(s, "Connected")
    BY <1>3 DEF CheckPin
  <2>8. status' \in [Sides -> Statuses]
    BY <2>7 DEF Tell, TypeOK, Statuses
  <2>9. guess' \in [Sides -> Guesses \cup {""}] /\ tries' \in [Sides -> Nat]
    <3>1. guess \in [Sides -> Guesses \cup {""}] /\ tries \in [Sides -> Nat]
      BY DEF TypeOK
    <3>2. guess' \in [Sides -> Guesses \cup {""}]
      BY <2>2, <2>3, <3>1
    <3>3. tries' \in [Sides -> Nat]
      <4>1. tries' = [tries EXCEPT ![s] = tries[s] + 1]
        BY <2>3
      <4>2. tries[s] + 1 \in Nat
        <5>1. tries[s] \in Nat
          BY <3>1
        <5>2. QED
          BY <5>1
      <4>3. QED
        BY <3>1, <4>1, <4>2, Zenon
    <3>4. QED
      BY <3>2, <3>3
  <2>10. QED
    BY <2>2, <2>3, <2>6, <2>8, <2>9 DEF TypeOK
<1>4. CASE ReadPinStatus
  <2>1. inbox["S"] # <<>> /\ inbox' = [inbox EXCEPT !["S"] = Tail(@)]
    BY <1>4 DEF ReadPinStatus, Reads
  <2>2. inbox' \in [Sides -> Seq(Message)]
    BY <2>1, ReadType, TwoSides
  <2>3. /\ net' \in [Sides -> Seq(Message)] /\ at' \in [Sides -> Places]
        /\ status' \in [Sides -> Statuses] /\ slot' \in [Sides -> {"empty", "asked", "stored"}]
    <3>1. CASE ChallengeOrList /\ UNCHANGED slot
      <4>1. slot' \in [Sides -> {"empty", "asked", "stored"}]
        BY <3>1 DEF TypeOK
      <4>2. QED
        BY <3>1, <4>1, ChallengeType
    <3>2. CASE AskForPin("S") /\ UNCHANGED net
      BY <3>2, PlacesAre DEF AskForPin, GoTo, Tell, TypeOK, Statuses
    <3>3. CASE Tell("S", "TooManyAttempts") /\ GoTo("S", "failed") /\ UNCHANGED <<net, slot>>
      BY <3>3, PlacesAre DEF GoTo, Tell, TypeOK, Statuses
    <3>4. QED
      BY <1>4, <3>1, <3>2, <3>3 DEF ReadPinStatus
  <2>4. UNCHANGED <<link, outcome, authVars, guess, tries, fileVars>>
    BY <1>4 DEF ReadPinStatus
  <2>5. QED
    BY <2>2, <2>3, <2>4 DEF TypeOK
<1>5. CASE ReadList
  <2>1. Len(inbox["R"]) >= 2 /\ inbox' = [inbox EXCEPT !["R"] = Tail(Tail(@))]
    BY <1>5 DEF ReadList, ReadsText
  <2>2. inbox' \in [Sides -> Seq(Message)]
    BY <2>1, ReadTextType, TwoSides
  <2>3. \/ GoTo("R", "select") /\ Tell("R", "Connected") /\ listed' = TRUE /\ UNCHANGED slot
        \/ AskForPin("R") /\ UNCHANGED listed
        \/ Tell("R", "TooManyAttempts") /\ GoTo("R", "failed") /\ UNCHANGED <<slot, listed>>
    BY <1>5 DEF ReadList
  <2>4. /\ at' \in [Sides -> Places] /\ status' \in [Sides -> Statuses] /\ listed' \in BOOLEAN
        /\ slot' \in [Sides -> {"empty", "asked", "stored"}]
    BY <2>3, PlacesAre DEF AskForPin, GoTo, Tell, TypeOK, Statuses
  <2>5. UNCHANGED <<net, link, outcome, authVars, guess, tries, chosen, granted,
                   calls, handed, streams, results, confirmed>>
    BY <1>5 DEF ReadList
  <2>6. QED
    BY <2>2, <2>4, <2>5 DEF TypeOK
<1>6. QED
  BY <1>1, <1>2, <1>3, <1>4, <1>5

\* The steps about the selection.
LEMMA SelectionType ==
    ASSUME TypeOK,
           Select \/ Decline \/ Abandon \/ AskToPair \/ ReadPairStatus \/ ReadSelection
    PROVE  TypeOK'
<1> USE DEF pinVars, fileVars, authVars
<1>1. CASE Select
  <2>1. PICK files \in SUBSET Files : chosen' = files /\ Send("R", Text("Ok", files), "header", "failed")
    BY <1>1 DEF Select
  <2>2. net' \in [Sides -> Seq(Message)] /\ at' \in [Sides -> Places]
    <3>1. Text("Ok", files) \in Seq(Message)
      BY TextType DEF Results
    <3>2. QED
      BY <2>1, <3>1, SendType, PlacesAre, TwoSides
  <2>3. QED
    BY <1>1, <2>1, <2>2 DEF Select, TypeOK
<1>2. CASE Decline
  <2>1. Text("Declined", {}) \in Seq(Message)
    BY TextType DEF Results
  <2>2. net' \in [Sides -> Seq(Message)] /\ at' \in [Sides -> Places]
    BY <1>2, <2>1, SendType, PlacesAre, TwoSides DEF Decline
  <2>3. QED
    BY <1>2, <2>2 DEF Decline, TypeOK
<1>3. CASE Abandon
  BY <1>3, PlacesAre DEF Abandon, GoTo, TypeOK
<1>4. CASE AskToPair
  <2>1. PICK key \in {KeyOf("R"), generate_key("X")} :
           Send("R", <<Part("Pair", {}, key), Delimiter>>, "pairing", "failed")
    BY <1>4 DEF AskToPair
  <2>2. Part("Pair", {}, key) \in Message /\ Delimiter \in Message
    BY DEF Part, Message, Results
  <2>3. <<Part("Pair", {}, key), Delimiter>> \in Seq(Message)
    BY <2>2
  <2>4. net' \in [Sides -> Seq(Message)] /\ at' \in [Sides -> Places]
    BY <2>1, <2>3, SendType, PlacesAre, TwoSides
  <2>5. QED
    BY <1>4, <2>4 DEF AskToPair, TypeOK
<1>5. CASE ReadPairStatus
  <2>1. inbox' \in [Sides -> Seq(Message)] /\ at' \in [Sides -> Places]
    <3>1. inbox["R"] # <<>> /\ inbox' = [inbox EXCEPT !["R"] = Tail(@)]
      BY <1>5 DEF ReadPairStatus, Reads
    <3>2. at' \in [Sides -> Places]
      BY <1>5, PlacesAre DEF ReadPairStatus, GoTo, TypeOK
    <3>3. QED
      BY <3>1, <3>2, ReadType, TwoSides
  <2>2. QED
    BY <1>5, <2>1 DEF ReadPairStatus, TypeOK
<1>6. CASE ReadSelection
  <2>1. Len(inbox["S"]) >= 2 /\ inbox' = [inbox EXCEPT !["S"] = Tail(Tail(@))]
        /\ inbox["S"][1].kind = "part"
    BY <1>6 DEF ReadSelection, ReadsText
  <2>2. /\ inbox' \in [Sides -> Seq(Message)] /\ Head(inbox["S"]) \in Message
        /\ Head(inbox["S"]).kind = "part"
    BY <2>1, ReadTextType, TwoSides
  <2>3. Head(inbox["S"]).kind = "part" => Head(inbox["S"]).files \in SUBSET Files
    BY <2>2, MessageParts
  <2>4. Status("pairStatus", "PairDeclined") \in Message
    BY DEF Status, Message, Results
  <2>5. \/ GoTo("S", "files") /\ granted' = Head(inbox["S"]).files /\ UNCHANGED <<net, status>>
           /\ Head(inbox["S"]).status = "Ok"
        \/ Tell("S", "Declined") /\ GoTo("S", "done") /\ UNCHANGED <<net, granted>>
        \/ GoTo("S", "mistrusting") /\ UNCHANGED <<net, status, granted>>
        \/ /\ Send("S", <<Status("pairStatus", "PairDeclined")>>, "list", "failed")
           /\ UNCHANGED <<status, granted>>
    BY <1>6 DEF ReadSelection
  <2>6. /\ net' \in [Sides -> Seq(Message)] /\ at' \in [Sides -> Places]
        /\ status' \in [Sides -> Statuses] /\ granted' \in SUBSET Files
    <3>1. CASE /\ GoTo("S", "files") /\ granted' = Head(inbox["S"]).files /\ UNCHANGED <<net, status>>
               /\ Head(inbox["S"]).status = "Ok"
      BY <2>2, <2>3, <3>1, PlacesAre DEF GoTo, TypeOK
    <3>2. CASE Tell("S", "Declined") /\ GoTo("S", "done") /\ UNCHANGED <<net, granted>>
      BY <3>2, PlacesAre DEF GoTo, Tell, TypeOK, Statuses
    <3>3. CASE GoTo("S", "mistrusting") /\ UNCHANGED <<net, status, granted>>
      BY <3>3, PlacesAre DEF GoTo, TypeOK
    <3>4. CASE /\ Send("S", <<Status("pairStatus", "PairDeclined")>>, "list", "failed")
               /\ UNCHANGED <<status, granted>>
      <4>1. net' \in [Sides -> Seq(Message)] /\ at' \in [Sides -> Places]
        BY <2>4, <3>4, OneMessage, SendType, PlacesAre, TwoSides
      <4>2. QED
        BY <3>4, <4>1 DEF TypeOK
    <3>5. QED
      BY <2>5, <3>1, <3>2, <3>3, <3>4
  <2>7. UNCHANGED <<link, outcome, authVars, pinVars, listed, chosen, calls, handed,
                    streams, results, confirmed>>
    BY <1>6 DEF ReadSelection
  <2>8. QED
    BY <2>2, <2>6, <2>7 DEF TypeOK
<1>7. QED
  BY <1>1, <1>2, <1>3, <1>4, <1>5, <1>6
\* A sequence whose last element changes, or that gets another one.
LEMMA SequenceType ==
    ASSUME NEW T, NEW q \in Seq(T)
    PROVE  /\ Len(q) \in Nat
           /\ q # <<>> => Len(q) \in 1..Len(q)
           /\ \A e \in T : Append(q, e) \in Seq(T)
           /\ \A i \in 1..Len(q) : q[i] \in T /\ \A e \in T : [q EXCEPT ![i] = e] \in Seq(T)
<1>1. Len(q) \in Nat /\ (q # <<>> => Len(q) \in 1..Len(q))
  BY EmptySeq, LenProperties
<1>2. \A e \in T : Append(q, e) \in Seq(T)
  BY AppendProperties
<1>3. \A i \in 1..Len(q) : q[i] \in T /\ \A e \in T : [q EXCEPT ![i] = e] \in Seq(T)
  BY ElementOfSeq, ExceptSeq
<1>4. QED
  BY <1>1, <1>2, <1>3

\* The sender's steps about the files.
LEMMA HandingType ==
    ASSUME TypeOK, HandedInv, SendFile \/ SendChunk \/ EndFile \/ EndFiles \/ ReadLast
    PROVE  TypeOK'
<1> USE DEF pinVars, fileVars, authVars
<1>0. handed \in Seq(Handed) /\ calls \in Nat
  BY DEF TypeOK
<1>1. CASE SendFile
  <2>1. calls' = calls + 1
    BY <1>1 DEF SendFile
  <2>2. /\ net' \in [Sides -> Seq(Message)] /\ at' \in [Sides -> Places]
        /\ handed' \in Seq(Handed)
    <3>1. CASE UNCHANGED <<at, net, handed>>
      BY <3>1 DEF TypeOK
    <3>2. ASSUME NEW f \in Files,
                 Send("S", <<Header(Len(handed) + 1, f)>>, "chunks", "files"),
                 handed' = IF at'["S"] = "chunks"
                           THEN Append(handed, [file |-> f, chunks |-> 0, ended |-> FALSE])
                           ELSE handed
          PROVE  /\ net' \in [Sides -> Seq(Message)] /\ at' \in [Sides -> Places]
                 /\ handed' \in Seq(Handed)
      <4>1. Len(handed) + 1 \in Nat
        BY <1>0, LenProperties
      <4>2. Header(Len(handed) + 1, f) \in Message
        BY <4>1 DEF Header, Message
      <4>3. net' \in [Sides -> Seq(Message)] /\ at' \in [Sides -> Places]
        BY <3>2, <4>2, OneMessage, SendType, PlacesAre, TwoSides
      <4>4. [file |-> f, chunks |-> 0, ended |-> FALSE] \in Handed
        BY DEF Handed
      <4>5. handed' \in Seq(Handed)
        BY <1>0, <3>2, <4>4, SequenceType
      <4>6. QED
        BY <4>3, <4>5
    <3>3. QED
      BY <1>1, <3>1, <3>2 DEF SendFile
  <2>3. UNCHANGED <<inbox, link, status, outcome, authVars, pinVars, listed, chosen,
                    granted, streams, results, confirmed>>
    BY <1>1 DEF SendFile
  <2>4. calls' \in Nat
    BY <1>0, <2>1
  <2>5. QED
    BY <2>2, <2>3, <2>4 DEF TypeOK
<1>2. CASE SendChunk
  <2> DEFINE i == Len(handed)
             n == handed[i].chunks + 1
  <2>1. handed # <<>>
    BY <1>2 DEF SendChunk, HandedInv
  <2>2. i \in 1..Len(handed) /\ handed[i] \in Handed
    BY <1>0, <2>1, SequenceType
  <2>3. i \in Nat /\ n \in Nat
    BY <2>2 DEF Handed
  <2>4. Send("S", Chunk(i, n), "chunks", "files") /\ handed' = [handed EXCEPT ![i].chunks = n]
    BY <1>2 DEF SendChunk
  <2>5. UNCHANGED <<inbox, link, status, outcome, authVars, pinVars, listed, chosen,
                    granted, calls, streams, results, confirmed>>
    BY <1>2 DEF SendChunk
  <2> HIDE DEF i, n
  <2>6. [kind |-> "chunk", of |-> <<i, n>>] \in Message
    BY <2>3 DEF Message
  <2>7. net' \in [Sides -> Seq(Message)] /\ at' \in [Sides -> Places]
    BY <2>4, <2>6, OneMessage, SendType, PlacesAre, TwoSides DEF Chunk
  <2>8. [handed[i] EXCEPT !.chunks = n] \in Handed
    BY <2>2, <2>3 DEF Handed
  <2>9. handed' \in Seq(Handed)
    BY <1>0, <2>2, <2>4, <2>8, SequenceType
  <2>10. QED
    BY <2>5, <2>7, <2>9 DEF TypeOK
<1>3. CASE EndFile
  <2>1. handed # <<>>
    BY <1>3 DEF EndFile, HandedInv
  <2>2. Len(handed) \in 1..Len(handed) /\ handed[Len(handed)] \in Handed
    BY <1>0, <2>1, SequenceType
  <2>3. [handed[Len(handed)] EXCEPT !.ended = TRUE] \in Handed
    BY <2>2 DEF Handed
  <2>4. handed' \in Seq(Handed)
    BY <1>0, <1>3, <2>2, <2>3, SequenceType DEF EndFile
  <2>5. at' \in [Sides -> Places]
    BY <1>3, PlacesAre DEF EndFile, GoTo, TypeOK
  <2>6. QED
    BY <1>3, <2>4, <2>5 DEF EndFile, TypeOK
<1>4. CASE EndFiles
  BY <1>4, PlacesAre DEF EndFiles, GoTo, TypeOK
<1>5. CASE ReadLast
  <2>1. inbox["S"] # <<>> /\ inbox' = [inbox EXCEPT !["S"] = Tail(@)]
    BY <1>5 DEF ReadLast
  <2>2. inbox' \in [Sides -> Seq(Message)]
    BY <2>1, ReadType, TwoSides
  <2>3. at' \in [Sides -> Places]
    BY <1>5, PlacesAre DEF ReadLast, GoTo, TypeOK
  <2>4. QED
    BY <1>5, <2>2, <2>3 DEF ReadLast, TypeOK
<1>6. QED
  BY <1>1, <1>2, <1>3, <1>4, <1>5
\* The receiver's steps about the files.
LEMMA ReceivingType ==
    ASSUME TypeOK, ResultInv, OpenStream \/ ReceiveChunk \/ EndStream \/ Report \/ Respond
    PROVE  TypeOK'
<1> USE DEF pinVars, fileVars, authVars
<1>0. streams \in Seq(Stream)
  BY DEF TypeOK
<1>1. CASE OpenStream
  <2> DEFINE f == Head(inbox["R"]).file
             new == [file |-> f, chunks |-> <<>>, ended |-> FALSE, result |-> "none"]
  <2>1. inbox["R"] # <<>> /\ inbox' = [inbox EXCEPT !["R"] = Tail(@)] /\ f \in Files
    BY <1>1 DEF OpenStream, Reads, TypeOK
  <2>2. inbox' \in [Sides -> Seq(Message)]
    BY <2>1, ReadType, TwoSides
  <2>3. at' \in [Sides -> Places]
    BY <1>1, PlacesAre DEF OpenStream, GoTo, TypeOK
  <2>4. new \in Stream
    BY <2>1 DEF Stream
  <2>5. streams' = Append(streams, new)
    BY <1>1 DEF OpenStream
  <2> HIDE DEF new
  <2>6. streams' \in Seq(Stream)
    BY <1>0, <2>4, <2>5, SequenceType
  <2>7. QED
    BY <1>1, <2>2, <2>3, <2>6 DEF OpenStream, TypeOK
<1>2. CASE ReceiveChunk
  <2> DEFINE i == Len(streams)
             c == Append(streams[i].chunks, Head(inbox["R"]).of)
  <2>1. /\ inbox["R"] # <<>> /\ inbox' = [inbox EXCEPT !["R"] = Tail(@)]
        /\ Head(inbox["R"]).kind = "chunk" /\ at["R"] = "data"
    BY <1>2 DEF ReceiveChunk, Reads
  <2>2. inbox' \in [Sides -> Seq(Message)] /\ Head(inbox["R"]).of \in Nat \X Nat
    BY <2>1, ReadType, TwoSides, MessageParts
  <2>3. i \in 1..Len(streams) /\ streams[i] \in Stream
    BY <1>0, <2>1, SequenceType DEF ResultInv
  <2>4. streams[i].chunks \in Seq(Nat \X Nat)
    BY <2>3 DEF Stream
  <2>5. c \in Seq(Nat \X Nat)
    BY <2>2, <2>4, SequenceType
  <2>6. streams' = [streams EXCEPT ![i].chunks = c]
    BY <1>2 DEF ReceiveChunk
  <2> HIDE DEF i, c
  <2>7. [streams[i] EXCEPT !.chunks = c] \in Stream
    BY <2>3, <2>5 DEF Stream
  <2>8. streams' \in Seq(Stream)
    BY <1>0, <2>3, <2>6, <2>7, SequenceType
  <2>9. QED
    BY <1>2, <2>2, <2>8 DEF ReceiveChunk, TypeOK
<1>3. CASE EndStream
  <2>1. Len(streams) \in 1..Len(streams) /\ streams[Len(streams)] \in Stream
    BY <1>0, <1>3, SequenceType DEF EndStream, ResultInv
  <2>2. [streams[Len(streams)] EXCEPT !.ended = TRUE] \in Stream
    BY <2>1 DEF Stream
  <2>3. streams' \in Seq(Stream)
    BY <1>0, <1>3, <2>1, <2>2, SequenceType DEF EndStream
  <2>4. at' \in [Sides -> Places]
    BY <1>3, PlacesAre DEF EndStream, GoTo, TypeOK
  <2>5. QED
    BY <1>3, <2>3, <2>4 DEF EndStream, TypeOK
<1>4. CASE Report
  <2>1. PICK i \in DOMAIN streams, r \in {"success", "failure"} :
           streams' = [streams EXCEPT ![i].result = r] /\ results' = Append(results, r)
    BY <1>4 DEF Report
  <2>2. i \in 1..Len(streams)
    BY <1>0, LenProperties
  <2>3. streams[i] \in Stream
    BY <1>0, <2>2, SequenceType
  <2>4. [streams[i] EXCEPT !.result = r] \in Stream
    BY <2>3 DEF Stream
  <2>5. streams' \in Seq(Stream)
    BY <1>0, <2>1, <2>2, <2>4, SequenceType
  <2>6. results' \in Seq({"success", "failure"})
    BY <2>1, SequenceType DEF TypeOK
  <2>7. QED
    BY <1>4, <2>5, <2>6 DEF Report, TypeOK
<1>5. CASE Respond
  <2> DEFINE f == streams[Len(streams)].file
             place == IF Head(inbox["R"]) = Delimiter THEN "flushing" ELSE "header"
             response == [kind |-> "response", file |-> f, status |-> Head(results)]
  <2>1. /\ at["R"] = "result" /\ results # <<>> /\ results' = Tail(results)
        /\ Send("R", <<response>>, place, "failed")
        /\ inbox' = inbox \/ inbox' = [inbox EXCEPT !["R"] = Tail(@)]
        /\ confirmed' = confirmed \cup {f} \/ confirmed' = confirmed
    BY <1>5 DEF Respond
  <2>2. Len(streams) \in 1..Len(streams) /\ streams[Len(streams)] \in Stream /\ inbox["R"] # <<>>
    BY <1>0, <2>1, SequenceType DEF ResultInv
  <2>3. f \in Files
    BY <2>2 DEF Stream
  <2>4. Head(results) \in {"success", "failure"} /\ results' \in Seq({"success", "failure"})
    <3>1. results \in Seq({"success", "failure"})
      BY DEF TypeOK
    <3>2. QED
      BY <2>1, <3>1, HeadTailProperties
  <2>5. inbox' \in [Sides -> Seq(Message)]
    <3>1. [inbox EXCEPT !["R"] = Tail(@)] \in [Sides -> Seq(Message)]
      BY <2>2, ReadType, TwoSides
    <3>2. inbox \in [Sides -> Seq(Message)]
      BY DEF TypeOK
    <3>3. QED
      BY <2>1, <3>1, <3>2
  <2>6. response \in Message
    BY <2>3, <2>4 DEF Message
  <2>7. place \in Places /\ "failed" \in Places
    BY PlacesAre
  <2> HIDE DEF response, place
  <2>8. net' \in [Sides -> Seq(Message)] /\ at' \in [Sides -> Places]
    BY <2>1, <2>6, <2>7, OneMessage, SendType, TwoSides
  <2>9. confirmed' \subseteq Files
    BY <2>1, <2>3 DEF TypeOK
  <2>10. UNCHANGED <<link, status, outcome, authVars, pinVars, listed, chosen,
                     granted, calls, handed, streams>>
    BY <1>5 DEF Respond
  <2>11. QED
    BY <2>4, <2>5, <2>8, <2>9, <2>10 DEF TypeOK
<1>6. QED
  BY <1>1, <1>2, <1>3, <1>4, <1>5

\* The steps of the channel and of the ends of the tasks.
LEMMA ChannelType ==
    ASSUME TypeOK,
           \/ LinkLost
           \/ \E s \in Sides : Deliver(s) \/ ParseError(s) \/ Flush(s) \/ Finish(s) \/ Fail(s)
    PROVE  TypeOK'
<1> USE DEF pinVars, fileVars, authVars
<1>0. [s \in Sides |-> <<>>] \in [Sides -> Seq(Message)]
  BY EmptySeq
<1>1. CASE LinkLost
  BY <1>0, <1>1 DEF LinkLost, Close, TypeOK
<1>2. ASSUME NEW s \in Sides, Deliver(s) PROVE TypeOK'
  <2>1. /\ net[s] # <<>> /\ net' = [net EXCEPT ![s] = Tail(@)]
        /\ inbox' = [inbox EXCEPT ![s] = Append(@, Head(net[s]))]
    BY <1>2 DEF Deliver
  <2>2. /\ net \in [Sides -> Seq(Message)] /\ inbox \in [Sides -> Seq(Message)]
        /\ net[s] \in Seq(Message) /\ inbox[s] \in Seq(Message)
    BY DEF TypeOK
  <2>3. Head(net[s]) \in Message /\ Tail(net[s]) \in Seq(Message)
    BY <2>1, <2>2, HeadTailProperties
  <2>4. Append(inbox[s], Head(net[s])) \in Seq(Message)
    BY <2>2, <2>3, SequenceType
  <2>5. net' \in [Sides -> Seq(Message)] /\ inbox' \in [Sides -> Seq(Message)]
    BY <2>1, <2>2, <2>3, <2>4
  <2>6. QED
    BY <1>2, <2>5 DEF Deliver, TypeOK
<1>3. ASSUME NEW s \in Sides, ParseError(s) PROVE TypeOK'
  <2>1. inbox[s] # <<>> /\ inbox' = [inbox EXCEPT ![s] = Tail(@)] /\ GoTo(s, "failed")
    BY <1>3 DEF ParseError
  <2>2. inbox' \in [Sides -> Seq(Message)] /\ at' \in [Sides -> Places]
    BY <2>1, ReadType, PlacesAre DEF GoTo, TypeOK
  <2>3. QED
    BY <1>3, <2>2 DEF ParseError, TypeOK
<1>4. ASSUME NEW s \in Sides, Flush(s) PROVE TypeOK'
  <2>1. Delimiter \in Message /\ Status("pairStatus", "InvalidSignature") \in Message
    BY DEF Message, Status, Results
  <2>2. /\ net' \in [Sides -> Seq(Message)] /\ at' \in [Sides -> Places]
        /\ status' \in [Sides -> Statuses]
    <3>1. CASE Send(s, <<Delimiter>>, "last", "failed") /\ UNCHANGED status
      <4>1. net' \in [Sides -> Seq(Message)] /\ at' \in [Sides -> Places]
        BY <2>1, <3>1, OneMessage, SendType, PlacesAre
      <4>2. QED
        BY <3>1, <4>1 DEF TypeOK
    <3>2. CASE /\ Send(s, <<Status("pairStatus", "InvalidSignature")>>, "failed", "failed")
               /\ UNCHANGED status
      <4>1. net' \in [Sides -> Seq(Message)] /\ at' \in [Sides -> Places]
        BY <2>1, <3>2, OneMessage, SendType, PlacesAre
      <4>2. QED
        BY <3>2, <4>1 DEF TypeOK
    <3>3. CASE /\ GoTo(s, "failed") \/ GoTo(s, "done")
               /\ Tell(s, "TooManyAttempts") \/ UNCHANGED status
               /\ UNCHANGED net
      BY <3>3, PlacesAre DEF GoTo, Tell, TypeOK, Statuses
    <3>4. QED
      BY <1>4, <3>1, <3>2, <3>3 DEF Flush
  <2>3. UNCHANGED <<inbox, link, outcome, authVars, pinVars, fileVars>>
    BY <1>4 DEF Flush
  <2>4. QED
    BY <2>2, <2>3 DEF TypeOK
<1>5. ASSUME NEW s \in Sides, Finish(s) PROVE TypeOK'
  BY <1>0, <1>5 DEF Finish, Close, Tell, TypeOK, Statuses
<1>6. ASSUME NEW s \in Sides, Fail(s) PROVE TypeOK'
  BY <1>6 DEF Fail, Tell, TypeOK, Statuses
<1>7. QED
  BY <1>1, <1>2, <1>3, <1>4, <1>5, <1>6
-----------------------------------------------------------------------------
(* Where a step takes the two tasks.                                       *)

\* What is sent goes into the other side's pipe or nowhere; the task goes on.
LEMMA SendMoves ==
    ASSUME TypeOK, NEW s \in Sides, NEW ms, NEW a, NEW b, Send(s, ms, a, b)
    PROVE  /\ at'[s] \in {a, b} /\ at'[Other(s)] = at[Other(s)]
           /\ net'[s] = net[s]
           /\ \/ link = "up" /\ net'[Other(s)] = net[Other(s)] \o ms /\ at'[s] = a
              \/ link = "down" /\ net'[Other(s)] = net[Other(s)]
<1>1. at \in [Sides -> Places] /\ net \in [Sides -> Seq(Message)]
  BY DEF TypeOK
<1>2. QED
  BY <1>1, TwoSides DEF Send, GoTo

\* The parts of a transfer come one after the other on either side.
Moves ==
    /\ at'["S"] \in Filing("S") => at["S"] \in Filing("S") \cup Early("S")
    /\ at'["S"] \in Early("S") => at["S"] \in Early("S")
    /\ at'["S"] = "chunks" => at["S"] = "chunks" \/ SendFile
    /\ at["S"] = "chunks" /\ at'["S"] \in {"files", "draining"} => link = "down" \/ EndFile
    /\ at["S"] \in Over("S") => at'["S"] \in Over("S")
    /\ at'["R"] \notin Over("R") => at["R"] \notin Over("R")
    /\ at'["R"] \in Early("R") => at["R"] \in Early("R")
    /\ at'["R"] \in Filing("R") =>
          at'["R"] = at["R"] \/ Select \/ OpenStream \/ EndStream \/ Respond

LEMMA StepMoves ==
    ASSUME TypeOK, [Next]_vars
    PROVE  Moves
<1> USE DEF Moves, Early, Filing, Over
<1>0. at \in [Sides -> Places] /\ "S" \in Sides /\ "R" \in Sides /\ Other("S") = "R" /\ Other("R") = "S"
  BY TwoSides DEF TypeOK, Other, Sides
<1>1. CASE UNCHANGED at
  BY <1>1
<1>2. ASSUME NEW p, NEW q, NEW ms, Send("S", ms, p, q),
             \/ at["S"] \in Early("S") /\ {p, q} \subseteq (Early("S") \cup Over("S"))
             \/ (at["S"] = "chunks" \/ SendFile) /\ at["S"] \in {"files", "chunks"}
                   /\ p = "chunks" /\ q = "files"
             \/ at["S"] = "draining" /\ {p, q} \subseteq {"last", "failed"}
      PROVE  Moves
  BY <1>0, <1>2, SendMoves
<1>3. ASSUME NEW p, NEW q, NEW ms, Send("R", ms, p, q),
             \/ at["R"] \in Early("R") /\ {p, q} \subseteq Early("R") \cup Over("R")
             \/ Select /\ at["R"] \in Early("R") /\ {p, q} \subseteq {"header", "failed"}
             \/ Respond /\ at["R"] = "result" /\ {p, q} \subseteq {"header", "flushing", "failed"}
             \/ at["R"] = "draining" /\ {p, q} \subseteq {"last", "failed"}
             \/ at["R"] = "mistrusting" /\ {p, q} \subseteq {"failed"}
      PROVE  Moves
  BY <1>0, <1>3, SendMoves
<1>4. ASSUME NEW p, GoTo("S", p),
             \/ at["S"] \in Early("S") /\ p \in Early("S") \cup Over("S") \cup {"files"}
             \/ at["S"] = "files" /\ p = "draining"
             \/ p \in {"failed", "done"}
      PROVE  Moves
  BY <1>0, <1>4 DEF GoTo
<1>5. ASSUME NEW p, GoTo("R", p),
             \/ at["R"] \in Early("R") /\ p \in Early("R") \cup Over("R")
             \/ /\ OpenStream \/ EndStream
                /\ at["R"] \in {"header", "data"} /\ p \in {"data", "result"}
             \/ p \in {"failed", "done"}
      PROVE  Moves
  BY <1>0, <1>5 DEF GoTo
<1> HIDE DEF Moves
<1>6. CASE \/ \E s \in Sides : Deliver(s) \/ StoreSlot(s) \/ Finish(s) \/ Fail(s)
           \/ ReceiveChunk \/ Report \/ LinkLost \/ UNCHANGED vars
  BY <1>1, <1>6 DEF Deliver, StoreSlot, Finish, Fail, ReceiveChunk, Report, LinkLost, vars
<1>7. ASSUME NEW s \in Sides, ParseError(s) PROVE Moves
  BY <1>4, <1>5, <1>7, <1>0, TwoSides DEF ParseError
<1>8. ASSUME NEW s \in Sides, ReceiveNonce(s) PROVE Moves
  BY <1>2, <1>3, <1>8, <1>0, TwoSides DEF ReceiveNonce, Reads
<1>9. ASSUME NEW s \in Sides, CheckPin(s) PROVE Moves
  BY <1>2, <1>3, <1>9, <1>0, TwoSides DEF CheckPin, Reads
<1>10. ASSUME NEW s \in Sides, SendPin(s) PROVE Moves
  BY <1>2, <1>3, <1>10, <1>0, TwoSides DEF SendPin
<1>11. ASSUME NEW s \in Sides, Flush(s) PROVE Moves
  BY <1>2, <1>3, <1>4, <1>5, <1>11, <1>0, TwoSides DEF Flush
<1>12. ASSUME ChallengeOrList, at["S"] \in Early("S") PROVE Moves
  BY <1>2, <1>12 DEF ChallengeOrList
<1>13. ASSUME NEW s \in Sides, AskForPin(s), at[s] \in Early(s) PROVE Moves
  BY <1>4, <1>5, <1>13, <1>0, TwoSides DEF AskForPin
<1>14. CASE Sender
  <2>1. CASE SendNonce
    BY <1>2, <2>1 DEF SendNonce
  <2>2. CASE CheckReceiverToken
    BY <1>4, <1>12, <1>13, <1>0, <2>2 DEF CheckReceiverToken, Reads
  <2>3. CASE ReadPinStatus
    BY <1>4, <1>12, <1>13, <1>0, <2>3 DEF ReadPinStatus, Reads
  <2>4. CASE ReadSelection
    BY <1>2, <1>4, <2>4 DEF ReadSelection, ReadsText
  <2>5. CASE ReadLast
    BY <1>4, <2>5 DEF ReadLast
  <2>6. QED
    BY <1>14, <2>1, <2>2, <2>3, <2>4, <2>5 DEF Sender
<1>15. CASE Receiver
  <2>1. CASE CheckSenderToken
    BY <1>3, <2>1 DEF CheckSenderToken, Reads
  <2>2. CASE ReadList
    BY <1>5, <1>13, <1>0, <2>2 DEF ReadList, ReadsText
  <2>3. CASE ReadPairStatus
    BY <1>5, <2>3 DEF ReadPairStatus, Reads
  <2>4. CASE OpenStream \/ EndStream
    BY <1>5, <2>4 DEF OpenStream, EndStream, Reads
  <2>5. CASE Respond
    BY <1>3, <2>5 DEF Respond
  <2>6. QED
    BY <1>6, <1>15, <2>1, <2>2, <2>3, <2>4, <2>5 DEF Receiver
<1>16. CASE Deciding
  <2>1. CASE Select \/ Decline
    BY <1>3, <2>1 DEF Select, Decline
  <2>2. CASE Abandon
    BY <1>5, <2>2 DEF Abandon
  <2>3. CASE AskToPair
    BY <1>3, <2>3 DEF AskToPair
  <2>4. QED
    BY <1>16, <2>1, <2>2, <2>3 DEF Deciding
<1>17. CASE Handing
  <2>1. CASE SendFile
    BY <1>1, <1>2, <2>1 DEF SendFile
  <2>2. CASE SendChunk
    BY <1>2, <2>2 DEF SendChunk
  <2>3. CASE EndFile
    <3>1. at["S"] = "chunks" /\ GoTo("S", "files")
      BY <2>3 DEF EndFile
    <3>2. QED
      BY <1>0, <2>3, <3>1 DEF GoTo, Moves
  <2>4. CASE EndFiles
    BY <1>4, <2>4 DEF EndFiles
  <2>5. QED
    BY <1>17, <2>1, <2>2, <2>3, <2>4 DEF Handing
<1>18. QED
  BY <1>6, <1>7, <1>8, <1>9, <1>10, <1>11, <1>14, <1>15, <1>16, <1>17 DEF Next, Step, Typing
-----------------------------------------------------------------------------
(* What a step does to a pipe.                                             *)

LEMMA PipeType ==
    ASSUME TypeOK, NEW s \in Sides
    PROVE  /\ inbox[s] \in Seq(Message) /\ net[s] \in Seq(Message)
           /\ Pipe(s) \in Seq(Message) /\ Len(Pipe(s)) \in Nat
           /\ \A k \in 1..Len(Pipe(s)) : Pipe(s)[k] \in Message
<1>1. inbox[s] \in Seq(Message) /\ net[s] \in Seq(Message)
  BY DEF TypeOK
<1>2. Pipe(s) \in Seq(Message)
  BY <1>1, ConcatProperties DEF Pipe
<1>3. QED
  BY <1>1, <1>2, LenProperties, ElementOfSeq

\* A message is sent or delivered.
LEMMA PipeSent ==
    ASSUME TypeOK, NEW s \in Sides, NEW ms \in Seq(Message),
           inbox'[s] = inbox[s], net'[s] = net[s] \o ms
    PROVE  /\ Len(Pipe(s)') = Len(Pipe(s)) + Len(ms)
           /\ \A k \in 1..Len(Pipe(s)) : Pipe(s)'[k] = Pipe(s)[k]
           /\ \A k \in 1..Len(ms) : Pipe(s)'[Len(Pipe(s)) + k] = ms[k]
<1>1. inbox[s] \in Seq(Message) /\ net[s] \in Seq(Message) /\ Pipe(s) \in Seq(Message)
  BY PipeType
<1> DEFINE q == Pipe(s) \o ms
           n == Len(Pipe(s))
<1>2. Pipe(s)' = q
  <2>1. \A a, b \in Seq(Message) : (a \o b) \o ms = a \o (b \o ms)
    BY ConcatAssociative
  <2>2. (inbox[s] \o net[s]) \o ms = inbox[s] \o (net[s] \o ms)
    BY <1>1, <2>1
  <2>3. QED
    BY <2>2 DEF Pipe
<1>3. n \in Nat /\ Len(ms) \in Nat
  BY <1>1, LenProperties
<1>4. Len(q) = n + Len(ms)
      /\ \A i \in 1..(n + Len(ms)) : q[i] = IF i <= n THEN Pipe(s)[i] ELSE ms[i - n]
  BY <1>1, ConcatProperties
<1> HIDE DEF q, n
<1>5. \A i \in 1..n : q[i] = Pipe(s)[i]
  BY <1>3, <1>4
<1>6. \A i \in 1..Len(ms) : q[n + i] = ms[i]
  BY <1>3, <1>4
<1>7. n = Len(Pipe(s))
  BY DEF n
<1>8. QED
  BY <1>2, <1>4, <1>5, <1>6, <1>7

\* A sequence is its head before its tail.
LEMMA HeadTailConcat ==
    ASSUME NEW T, NEW q \in Seq(T), q # <<>>
    PROVE  q = <<Head(q)>> \o Tail(q)
<1> DEFINE h == <<Head(q)>>
           t == Tail(q)
<1>1. /\ Head(q) \in T /\ t \in Seq(T) /\ Len(t) = Len(q) - 1
      /\ \A i \in 1..Len(t) : t[i] = q[i + 1]
      /\ Len(q) \in Nat \ {0}
  BY HeadTailProperties, EmptySeq, LenProperties
<1>2. h \in Seq(T) /\ Len(h) = 1 /\ h[1] = q[1]
  BY <1>1
<1> HIDE DEF h, t
<1>3. Len(h \o t) = 1 + Len(t) /\ h \o t \in Seq(T)
      /\ \A i \in 1..(1 + Len(t)) : (h \o t)[i] = IF i <= 1 THEN h[i] ELSE t[i - 1]
  <2>1. h \in Seq(T) /\ t \in Seq(T)
    BY <1>1, <1>2
  <2>2. /\ h \o t \in Seq(T)
        /\ Len(h \o t) = Len(h) + Len(t)
        /\ \A i \in 1 .. Len(h) + Len(t) : (h \o t)[i] =
                     IF i <= Len(h) THEN h[i] ELSE t[i - Len(h)]
    BY <2>1, ConcatProperties, Zenon
  <2>3. QED
    BY <1>2, <2>2
<1>4. \A i \in 1..Len(q) : q[i] = (h \o t)[i]
  <2> SUFFICES ASSUME NEW i \in 1..Len(q) PROVE q[i] = (h \o t)[i]
    OBVIOUS
  <2>1. CASE i = 1
    BY <1>1, <1>2, <1>3, <2>1
  <2>2. CASE i # 1
    <3>1. i - 1 \in 1..Len(t) /\ (i - 1) + 1 = i
      BY <1>1, <2>2
    <3>2. t[i - 1] = q[i]
      BY <1>1, <3>1
    <3>3. QED
      BY <1>1, <1>3, <2>2, <3>2
  <2>3. QED
    BY <2>1, <2>2
<1>5. q = h \o t
  BY <1>1, <1>3, <1>4, SeqEqual
<1>6. QED
  BY <1>5 DEF h, t

LEMMA PipeDelivered ==
    ASSUME TypeOK, NEW s \in Sides, net[s] # <<>>, net'[s] = Tail(net[s]),
           inbox'[s] = Append(inbox[s], Head(net[s]))
    PROVE  Pipe(s)' = Pipe(s)
<1>1. inbox[s] \in Seq(Message) /\ net[s] \in Seq(Message)
  BY PipeType
<1>2. Head(net[s]) \in Message /\ Tail(net[s]) \in Seq(Message)
      /\ net[s] = <<Head(net[s])>> \o Tail(net[s])
  BY <1>1, HeadTailProperties, HeadTailConcat
<1>3. Append(inbox[s], Head(net[s])) = inbox[s] \o <<Head(net[s])>>
  BY <1>1, <1>2, AppendIsConcat
<1>4. (inbox[s] \o <<Head(net[s])>>) \o Tail(net[s])
          = inbox[s] \o (<<Head(net[s])>> \o Tail(net[s]))
  <2>1. \A a, b, c \in Seq(Message) : (a \o b) \o c = a \o (b \o c)
    BY ConcatAssociative
  <2>2. QED
    <3>1. <<Head(net[s])>> \in Seq(Message)
      BY <1>2, OneMessage
    <3>2. QED
      BY <1>1, <1>2, <2>1, <3>1
<1>5. QED
  BY <1>2, <1>3, <1>4 DEF Pipe

\* A message is read.
LEMMA PipeRead ==
    ASSUME TypeOK, NEW s \in Sides, inbox[s] # <<>>,
           inbox'[s] = Tail(inbox[s]), net'[s] = net[s]
    PROVE  /\ Len(Pipe(s)) >= 1 /\ Pipe(s)[1] = Head(inbox[s])
           /\ Len(Pipe(s)') = Len(Pipe(s)) - 1
           /\ \A k \in 1..(Len(Pipe(s)) - 1) : Pipe(s)'[k] = Pipe(s)[k + 1]
<1>1. inbox[s] \in Seq(Message) /\ net[s] \in Seq(Message)
  BY PipeType
<1>2. Len(inbox[s]) \in Nat \ {0} /\ Len(net[s]) \in Nat
  BY <1>1, EmptySeq, LenProperties
<1>3. /\ Tail(inbox[s]) \in Seq(Message) /\ Len(Tail(inbox[s])) = Len(inbox[s]) - 1
      /\ Head(inbox[s]) = inbox[s][1]
      /\ \A k \in 1..(Len(inbox[s]) - 1) : Tail(inbox[s])[k] = inbox[s][k + 1]
  BY <1>1, <1>2
<1> DEFINE a == inbox[s]
           b == net[s]
           t == Tail(inbox[s])
<1>4. Len(a \o b) = Len(a) + Len(b) /\ \A i \in 1..(Len(a) + Len(b)) : (a \o b)[i] =
             IF i <= Len(a) THEN a[i] ELSE b[i - Len(a)]
  BY <1>1, ConcatProperties
<1>5. Len(t \o b) = Len(t) + Len(b) /\ \A i \in 1..(Len(t) + Len(b)) : (t \o b)[i] =
             IF i <= Len(t) THEN t[i] ELSE b[i - Len(t)]
  BY <1>1, <1>3, ConcatProperties
<1>6. Pipe(s) = a \o b /\ Pipe(s)' = t \o b
  BY DEF Pipe
<1> HIDE DEF a, b, t
<1>7. Len(a) \in Nat \ {0} /\ Len(b) \in Nat /\ Len(t) = Len(a) - 1
      /\ \A k \in 1..(Len(a) - 1) : t[k] = a[k + 1]
  BY <1>2, <1>3 DEF a, b, t
<1>8. \A k \in 1..(Len(a \o b) - 1) : (t \o b)[k] = (a \o b)[k + 1]
  <2> SUFFICES ASSUME NEW k \in 1..(Len(a \o b) - 1)
               PROVE  (t \o b)[k] = (a \o b)[k + 1]
    OBVIOUS
  <2>1. k \in Nat /\ k >= 1 /\ k <= Len(a) + Len(b) - 1
    BY <1>4, <1>7
  <2>2. CASE k <= Len(a) - 1
    BY <1>4, <1>5, <1>7, <2>1, <2>2
  <2>3. CASE k > Len(a) - 1
    <3>1. (t \o b)[k] = b[k - (Len(a) - 1)]
      BY <1>5, <1>7, <2>1, <2>3
    <3>2. (a \o b)[k + 1] = b[k + 1 - Len(a)]
      BY <1>4, <1>7, <2>1, <2>3
    <3>3. k - (Len(a) - 1) = k + 1 - Len(a)
      BY <1>7, <2>1
    <3>4. QED
      BY <3>1, <3>2, <3>3
  <2>4. QED
    BY <1>7, <2>1, <2>2, <2>3
<1>9. (a \o b)[1] = a[1] /\ Len(a \o b) >= 1 /\ Len(t \o b) = Len(a \o b) - 1
  BY <1>4, <1>5, <1>7
<1>10. a[1] = Head(inbox[s])
  BY <1>3 DEF a
<1>11. QED
  BY <1>6, <1>8, <1>9, <1>10

\* What has not arrived is lost.
LEMMA PipeCut ==
    ASSUME TypeOK, NEW s \in Sides, inbox'[s] = inbox[s], net'[s] = <<>>
    PROVE  /\ Len(Pipe(s)') \in Nat /\ Len(Pipe(s)') <= Len(Pipe(s))
           /\ \A k \in 1..Len(Pipe(s)') : Pipe(s)'[k] = Pipe(s)[k]
<1>1. inbox[s] \in Seq(Message) /\ net[s] \in Seq(Message)
  BY PipeType
<1> DEFINE p == inbox[s]
           q == net[s]
           m == Len(p)
<1>2. Pipe(s)' = p
  BY <1>1, ConcatEmptySeq DEF Pipe
<1>3. m \in Nat /\ Len(q) \in Nat
  BY <1>1, LenProperties
<1>4. Len(p \o q) = m + Len(q)
      /\ \A i \in 1..(m + Len(q)) : (p \o q)[i] = IF i <= m THEN p[i] ELSE q[i - m]
  BY <1>1, ConcatProperties
<1>5. Pipe(s) = p \o q
  BY DEF Pipe
<1> HIDE DEF p, q
<1>6. m <= Len(p \o q) /\ \A i \in 1..m : (p \o q)[i] = p[i]
  BY <1>3, <1>4
<1>7. QED
  BY <1>2, <1>3, <1>5, <1>6

\* The messages of a pipe, and what a step adds to them.
Grows(s, M) == Range(Pipe(s)') \subseteq Range(Pipe(s)) \cup M

\* A side has read a message, or a text, or nothing.
ReadsUp(s) ==
    \/ inbox' = inbox
    \/ inbox[s] # <<>> /\ inbox' = [inbox EXCEPT ![s] = Tail(@)]
    \/ Len(inbox[s]) >= 2 /\ inbox' = [inbox EXCEPT ![s] = Tail(Tail(@))]

LEMMA RangeOf ==
    ASSUME NEW T, NEW q \in Seq(T)
    PROVE  /\ Range(q) = {q[k] : k \in 1..Len(q)}
           /\ Range(q) \subseteq T
           /\ q # <<>> => Range(Tail(q)) \subseteq Range(q) /\ Head(q) \in Range(q)
           /\ \A e \in T : Range(Append(q, e)) = Range(q) \cup {e}
           /\ \A p \in Seq(T) : Range(p \o q) = Range(p) \cup Range(q)
<1>1. DOMAIN q = 1..Len(q) /\ Len(q) \in Nat
  BY LenProperties
<1>2. Range(q) = {q[k] : k \in 1..Len(q)}
  BY <1>1 DEF Range
<1>3. Range(q) \subseteq T
  BY <1>2, ElementOfSeq
<1>4. ASSUME q # <<>> PROVE Range(Tail(q)) \subseteq Range(q) /\ Head(q) \in Range(q)
  <2>1. /\ Tail(q) \in Seq(T) /\ Len(Tail(q)) = Len(q) - 1
        /\ \A i \in 1..Len(Tail(q)) : Tail(q)[i] = q[i + 1]
        /\ Len(q) \in Nat \ {0}
    BY <1>4, HeadTailProperties, EmptySeq
  <2>2. DOMAIN Tail(q) = 1..Len(Tail(q))
    BY <2>1, LenProperties
  <2>3. Range(Tail(q)) \subseteq Range(q)
    <3> SUFFICES ASSUME NEW i \in 1..Len(Tail(q)) PROVE Tail(q)[i] \in Range(q)
      BY <2>2 DEF Range
    <3>1. i + 1 \in 1..Len(q)
      BY <2>1
    <3>2. QED
      BY <1>2, <2>1, <3>1
  <2>4. Head(q) \in Range(q)
    BY <1>2, <2>1
  <2>5. QED
    BY <2>3, <2>4
<1>5. \A p \in Seq(T) : Range(p \o q) = Range(p) \cup Range(q)
  BY RangeConcatenation
<1>6. ASSUME NEW e \in T PROVE Range(Append(q, e)) = Range(q) \cup {e}
  <2>0. <<e>> \in Seq(T)
    OBVIOUS
  <2>1. Append(q, e) = q \o <<e>>
    BY AppendIsConcat, Zenon
  <2>2. Range(<<e>>) = {e}
    BY DEF Range
  <2>3. Range(q \o <<e>>) = Range(q) \cup Range(<<e>>)
    BY <2>0, RangeConcatenation, ZenonT(60)
  <2>4. QED
    BY <2>1, <2>2, <2>3, Zenon
<1>7. QED
  BY <1>2, <1>3, <1>4, <1>5, <1>6

LEMMA PipeRange ==
    ASSUME TypeOK, NEW s \in Sides
    PROVE  /\ Range(Pipe(s)) = Range(inbox[s]) \cup Range(net[s])
           /\ Range(Pipe(s)) = {Pipe(s)[k] : k \in 1..Len(Pipe(s))}
           /\ Range(Pipe(s)) \subseteq Message
<1>1. inbox[s] \in Seq(Message) /\ net[s] \in Seq(Message) /\ Pipe(s) \in Seq(Message)
  BY PipeType
<1>2. \A p, q \in Seq(Message) : Range(p \o q) = Range(p) \cup Range(q)
  BY RangeOf
<1>3. Range(Pipe(s)) = Range(inbox[s]) \cup Range(net[s])
  BY <1>1, <1>2 DEF Pipe
<1>4. Range(Pipe(s)) = {Pipe(s)[k] : k \in 1..Len(Pipe(s))} /\ Range(Pipe(s)) \subseteq Message
  BY <1>1, RangeOf, Zenon
<1>5. QED
  BY <1>3, <1>4

\* The first message of a pipe is the first of the inbox.
LEMMA HeadInPipe ==
    ASSUME TypeOK, NEW s \in Sides, inbox[s] # <<>>
    PROVE  Head(inbox[s]) \in Range(Pipe(s)) /\ Head(inbox[s]) \in Message
<1>1. inbox[s] \in Seq(Message)
  BY PipeType
<1>2. Head(inbox[s]) \in Range(inbox[s])
  BY <1>1, RangeOf, Zenon
<1>3. QED
  BY <1>2, PipeRange, ReadType

LEMMA RangeRead ==
    ASSUME TypeOK, NEW s \in Sides, ReadsUp(s), NEW t \in Sides
    PROVE  inbox'[t] \in Seq(Message) /\ Range(inbox'[t]) \subseteq Range(inbox[t])
<1>1. inbox \in [Sides -> Seq(Message)] /\ inbox[t] \in Seq(Message) /\ inbox[s] \in Seq(Message)
  BY DEF TypeOK
<1>2. ASSUME inbox[s] # <<>>
      PROVE  Tail(inbox[s]) \in Seq(Message) /\ Range(Tail(inbox[s])) \subseteq Range(inbox[s])
             /\ Len(Tail(inbox[s])) = Len(inbox[s]) - 1
  BY <1>1, <1>2, RangeOf, HeadTailProperties, Zenon
<1>3. CASE inbox' = inbox
  BY <1>1, <1>3
<1>4. CASE inbox[s] # <<>> /\ inbox' = [inbox EXCEPT ![s] = Tail(@)]
  <2>1. inbox'[t] = IF t = s THEN Tail(inbox[s]) ELSE inbox[t]
    BY <1>1, <1>4
  <2>2. QED
    BY <1>1, <1>2, <1>4, <2>1
<1>5. CASE Len(inbox[s]) >= 2 /\ inbox' = [inbox EXCEPT ![s] = Tail(Tail(@))]
  <2>1. inbox'[t] = IF t = s THEN Tail(Tail(inbox[s])) ELSE inbox[t]
    BY <1>1, <1>5
  <2>2. inbox[s] # <<>>
    BY <1>5, EmptySeq
  <2>3. Tail(inbox[s]) \in Seq(Message) /\ Len(Tail(inbox[s])) \in Nat \ {0}
        /\ Range(Tail(inbox[s])) \subseteq Range(inbox[s])
    <3>1. Len(inbox[s]) \in Nat /\ Len(inbox[s]) >= 2
      BY <1>1, <1>5, LenProperties
    <3>2. Len(Tail(inbox[s])) = Len(inbox[s]) - 1
      BY <1>2, <2>2
    <3>3. \A l, n : l \in Nat /\ l >= 2 /\ n = l - 1 => n \in Nat \ {0}
      OBVIOUS
    <3>5. Len(Tail(inbox[s])) \in Nat \ {0}
      BY <3>1, <3>2, <3>3, Zenon
    <3>6. QED
      BY <1>2, <2>2, <3>5
  <2>4. Tail(inbox[s]) # <<>>
    <3>1. Len(Tail(inbox[s])) # 0
      BY <2>3
    <3>2. QED
      BY <3>1, EmptySeq
  <2>5. Tail(Tail(inbox[s])) \in Seq(Message)
        /\ Range(Tail(Tail(inbox[s]))) \subseteq Range(Tail(inbox[s]))
    BY <2>3, <2>4, RangeOf, HeadTailProperties, Zenon
  <2>6. QED
    BY <1>1, <2>1, <2>3, <2>5
<1>6. QED
  BY <1>3, <1>4, <1>5 DEF ReadsUp

\* A step that sends nothing adds nothing.
LEMMA GrowsByNone ==
    ASSUME TypeOK, NEW s \in Sides, ReadsUp(s),
           net' = net \/ net' = [t \in Sides |-> <<>>]
    PROVE  \A t \in Sides : Grows(t, {})
<1> SUFFICES ASSUME NEW t \in Sides PROVE Grows(t, {})
  OBVIOUS
<1>1. inbox'[t] \in Seq(Message) /\ Range(inbox'[t]) \subseteq Range(inbox[t])
  BY RangeRead
<1>2. net'[t] \in Seq(Message) /\ Range(net'[t]) \subseteq Range(net[t])
  <2>1. net[t] \in Seq(Message) /\ <<>> \in Seq(Message) /\ Range(<<>>) = {}
    BY PipeType, EmptySeq DEF Range
  <2>2. net'[t] = net[t] \/ net'[t] = <<>>
    OBVIOUS
  <2>3. QED
    BY <2>1, <2>2, Zenon
<1>3. \A p, q \in Seq(Message) : Range(p \o q) = Range(p) \cup Range(q)
  BY RangeOf
<1>4. Range(Pipe(t)') = Range(inbox'[t]) \cup Range(net'[t])
  BY <1>1, <1>2, <1>3 DEF Pipe
<1>5. QED
  BY <1>1, <1>2, <1>4, PipeRange DEF Grows

\* A step that sends adds what it sends, on the other side.
LEMMA GrowsBySend ==
    ASSUME TypeOK, NEW s \in Sides, ReadsUp(s),
           NEW ms \in Seq(Message), NEW a, NEW b, Send(s, ms, a, b)
    PROVE  Grows(Other(s), Range(ms)) /\ Grows(s, {})
<1>1. \A t \in Sides : inbox'[t] \in Seq(Message) /\ Range(inbox'[t]) \subseteq Range(inbox[t])
  BY RangeRead
<1>2. \A t \in Sides : net[t] \in Seq(Message)
  BY PipeType
<1>3. \A p, q \in Seq(Message) :
          p \o q \in Seq(Message) /\ Range(p \o q) = Range(p) \cup Range(q)
  BY RangeOf, ConcatProperties
<1>4. net'[s] = net[s]
      /\ (net'[Other(s)] = net[Other(s)] \o ms \/ net'[Other(s)] = net[Other(s)])
  BY SendMoves
<1>5. Other(s) \in Sides
  BY TwoSides
<1>6. net'[Other(s)] \in Seq(Message) /\ Range(net'[Other(s)]) \subseteq Range(net[Other(s)]) \cup Range(ms)
  BY <1>2, <1>3, <1>4, <1>5, ZenonT(60)
<1>7. Range(Pipe(Other(s))') = Range(inbox'[Other(s)]) \cup Range(net'[Other(s)])
  BY <1>1, <1>3, <1>5, <1>6 DEF Pipe
<1>8. Range(Pipe(s)') = Range(inbox'[s]) \cup Range(net'[s])
  BY <1>1, <1>2, <1>3, <1>4 DEF Pipe
<1>9. QED
  BY <1>1, <1>4, <1>5, <1>6, <1>7, <1>8, PipeRange DEF Grows

-----------------------------------------------------------------------------
(* What a step leaves alone.                                               *)

Frame ==
    /\ config' = config
    /\ link' = link \/ link' = "down"
    /\ SendFile \/ SendChunk \/ EndFile \/ handed' = handed
    /\ OpenStream \/ ReceiveChunk \/ EndStream \/ Report \/ streams' = streams
    /\ Select \/ chosen' = chosen
    /\ Report \/ Respond \/ results' = results
    /\ Respond \/ confirmed' = confirmed
    /\ ReadList \/ listed' = listed
    /\ (\E s \in Sides : CheckPin(s)) \/ guess' = guess

LEMMA StepFrame ==
    ASSUME [Next]_vars
    PROVE  Frame
<1> USE DEF vars, pinVars, fileVars, authVars
<1>1. ASSUME NEW s \in Sides, Step(s) PROVE Frame
  <2>1. CASE Deliver(s)
    BY <2>1 DEF Deliver, Frame
  <2>2. CASE ParseError(s)
    BY <2>2 DEF ParseError, Frame
  <2>3. CASE ReceiveNonce(s)
    BY <2>3 DEF ReceiveNonce, Frame
  <2>4. CASE StoreSlot(s)
    BY <2>4 DEF StoreSlot, Frame
  <2>5. CASE CheckPin(s)
    <3>1. UNCHANGED <<link, outcome, authVars, slot, fileVars>>
      BY <2>5 DEF CheckPin
    <3>2. QED
      BY <2>5, <3>1 DEF Frame
  <2>6. CASE Flush(s)
    BY <2>6 DEF Flush, Frame
  <2>7. CASE Finish(s)
    BY <2>7 DEF Finish, Close, Frame
  <2>8. CASE Fail(s)
    BY <2>8 DEF Fail, Frame
  <2>9. QED
    BY <1>1, <2>1, <2>2, <2>3, <2>4, <2>5, <2>6, <2>7, <2>8 DEF Step
<1>2. CASE Sender
  <2>1. CASE SendNonce
    BY <2>1 DEF SendNonce, Frame
  <2>2. CASE CheckReceiverToken
    <3>1. UNCHANGED <<link, outcome, config, nonce, guess, tries, fileVars>>
      BY <2>2 DEF CheckReceiverToken
    <3>2. QED
      BY <3>1 DEF Frame
  <2>3. CASE ReadPinStatus
    <3>1. UNCHANGED <<link, outcome, authVars, guess, tries, fileVars>>
      BY <2>3 DEF ReadPinStatus
    <3>2. QED
      BY <3>1 DEF Frame
  <2>4. CASE ReadSelection
    <3>1. UNCHANGED <<link, outcome, authVars, pinVars, listed, chosen, calls, handed,
                      streams, results, confirmed>>
      BY <2>4 DEF ReadSelection
    <3>2. QED
      BY <3>1 DEF Frame
  <2>5. CASE ReadLast
    BY <2>5 DEF ReadLast, Frame
  <2>6. QED
    BY <1>2, <2>1, <2>2, <2>3, <2>4, <2>5 DEF Sender
<1>3. CASE Receiver
  <2>1. CASE CheckSenderToken
    <3>1. UNCHANGED <<link, outcome, authVars, pinVars, fileVars>>
      BY <2>1 DEF CheckSenderToken
    <3>2. QED
      BY <3>1 DEF Frame
  <2>2. CASE ReadList
    <3>1. UNCHANGED <<net, link, outcome, authVars, guess, tries, chosen, granted,
                      calls, handed, streams, results, confirmed>>
      BY <2>2 DEF ReadList
    <3>2. QED
      BY <2>2, <3>1 DEF Frame
  <2>3. CASE ReadPairStatus
    BY <2>3 DEF ReadPairStatus, Frame
  <2>4. CASE OpenStream
    <3>1. UNCHANGED <<net, link, status, outcome, authVars, pinVars, listed, chosen,
                      granted, calls, handed, results, confirmed>>
      BY <2>4 DEF OpenStream
    <3>2. QED
      BY <2>4, <3>1 DEF Frame
  <2>5. CASE ReceiveChunk
    <3>1. UNCHANGED <<at, net, link, status, outcome, authVars, pinVars, listed, chosen,
                      granted, calls, handed, results, confirmed>>
      BY <2>5 DEF ReceiveChunk
    <3>2. QED
      BY <2>5, <3>1 DEF Frame
  <2>6. CASE EndStream
    <3>1. UNCHANGED <<net, inbox, link, status, outcome, authVars, pinVars, listed, chosen,
                      granted, calls, handed, results, confirmed>>
      BY <2>6 DEF EndStream
    <3>2. QED
      BY <2>6, <3>1 DEF Frame
  <2>7. CASE Respond
    <3>1. UNCHANGED <<link, status, outcome, authVars, pinVars, listed, chosen,
                      granted, calls, handed, streams>>
      BY <2>7 DEF Respond
    <3>2. QED
      BY <2>7, <3>1 DEF Frame
  <2>8. QED
    BY <1>3, <2>1, <2>2, <2>3, <2>4, <2>5, <2>6, <2>7 DEF Receiver
<1>4. CASE Typing
  BY <1>4 DEF Typing, SendPin, Frame
<1>5. CASE Deciding
  <2>1. CASE Select
    <3>1. UNCHANGED <<inbox, link, status, outcome, authVars, pinVars, listed,
                      granted, calls, handed, streams, results, confirmed>>
      BY <2>1 DEF Select
    <3>2. QED
      BY <2>1, <3>1 DEF Frame
  <2>2. CASE Decline \/ Abandon \/ AskToPair
    <3>1. UNCHANGED <<inbox, link, status, outcome, authVars, pinVars, fileVars>>
      BY <2>2 DEF Decline, Abandon, AskToPair
    <3>2. QED
      BY <3>1 DEF Frame
  <2>3. QED
    BY <1>5, <2>1, <2>2 DEF Deciding
<1>6. CASE Handing
  <2>1. CASE SendFile
    <3>1. UNCHANGED <<inbox, link, status, outcome, authVars, pinVars, listed, chosen,
                      granted, streams, results, confirmed>>
      BY <2>1 DEF SendFile
    <3>2. QED
      BY <2>1, <3>1 DEF Frame
  <2>2. CASE SendChunk
    <3>1. UNCHANGED <<inbox, link, status, outcome, authVars, pinVars, listed, chosen,
                      granted, calls, streams, results, confirmed>>
      BY <2>2 DEF SendChunk
    <3>2. QED
      BY <2>2, <3>1 DEF Frame
  <2>3. CASE EndFile
    <3>1. UNCHANGED <<net, inbox, link, status, outcome, authVars, pinVars, listed, chosen,
                      granted, calls, streams, results, confirmed>>
      BY <2>3 DEF EndFile
    <3>2. QED
      BY <2>3, <3>1 DEF Frame
  <2>4. CASE EndFiles
    BY <2>4 DEF EndFiles, Frame
  <2>5. QED
    BY <1>6, <2>1, <2>2, <2>3, <2>4 DEF Handing
<1>7. CASE Report
  <2>1. UNCHANGED <<at, net, inbox, link, status, outcome, authVars, pinVars, listed,
                    chosen, granted, calls, handed, confirmed>>
    BY <1>7 DEF Report
  <2>2. QED
    BY <1>7, <2>1 DEF Frame
<1>8. CASE LinkLost \/ UNCHANGED vars
  BY <1>8 DEF LinkLost, Close, Frame
<1>9. QED
  BY <1>1, <1>2, <1>3, <1>4, <1>5, <1>6, <1>7, <1>8 DEF Next

\* Types are kept.
LEMMA TypeNext ==
    ASSUME TypeOK, HandedInv, ResultInv, [Next]_vars
    PROVE  TypeOK'
<1>1. CASE UNCHANGED vars
  BY <1>1 DEF vars, pinVars, fileVars, authVars, TypeOK
<1>2. CASE Next
  BY <1>2, HandshakeType, PinType, SelectionType, HandingType, ReceivingType, ChannelType
     DEF Next, Step, Sender, Receiver, Typing, Deciding, Handing
<1>3. QED
  BY <1>1, <1>2

-----------------------------------------------------------------------------
(* The files of the sender.                                                *)

\* SendFile hands another file over, or fails.
LEMMA SendFileStep ==
    ASSUME TypeOK, SendFile
    PROVE  /\ at["S"] = "files"
           /\ \/ handed' = handed /\ at'["S"] = "files" /\ net' = net
              \/ \E f \in Files :
                    /\ handed' = Append(handed, [file |-> f, chunks |-> 0, ended |-> FALSE])
                    /\ at'["S"] = "chunks"
                    /\ Send("S", <<Header(Len(handed) + 1, f)>>, "chunks", "files")
<1>1. at["S"] = "files" /\ "S" \in Sides
  BY TwoSides DEF SendFile
<1>2. CASE UNCHANGED <<at, net, handed>>
  BY <1>1, <1>2
<1>3. ASSUME NEW f \in Files,
             Send("S", <<Header(Len(handed) + 1, f)>>, "chunks", "files"),
             handed' = IF at'["S"] = "chunks"
                       THEN Append(handed, [file |-> f, chunks |-> 0, ended |-> FALSE])
                       ELSE handed
      PROVE  \/ handed' = handed /\ at'["S"] = "files" /\ net' = net
             \/ /\ handed' = Append(handed, [file |-> f, chunks |-> 0, ended |-> FALSE])
                /\ at'["S"] = "chunks"
  <2>1. at'["S"] \in {"chunks", "files"}
    BY <1>1, <1>3, SendMoves
  <2>2. at'["S"] = "files" => net' = net
    BY <1>1, <1>3 DEF Send, GoTo, TypeOK
  <2>3. QED
    BY <1>3, <2>1, <2>2
<1>4. QED
  BY <1>1, <1>2, <1>3 DEF SendFile

\* The other two change the last file and no other.
LEMMA LastFileStep ==
    ASSUME TypeOK, HandedInv, SendChunk \/ EndFile
    PROVE  /\ at["S"] = "chunks"
           /\ Len(handed) \in 1..Len(handed) /\ handed[Len(handed)] \in Handed
           /\ ~handed[Len(handed)].ended
           /\ Len(handed') = Len(handed)
           /\ \A i \in 1..Len(handed) : i # Len(handed) => handed'[i] = handed[i]
           /\ handed'[Len(handed)].file = handed[Len(handed)].file
           /\ SendChunk => /\ handed'[Len(handed)].chunks = handed[Len(handed)].chunks + 1
                           /\ ~handed'[Len(handed)].ended
                           /\ at'["S"] \in {"chunks", "files"}
                           /\ link = "up" => at'["S"] = "chunks"
           /\ EndFile => /\ handed'[Len(handed)].chunks = handed[Len(handed)].chunks
                         /\ handed'[Len(handed)].ended
                         /\ at'["S"] = "files"
<1> DEFINE L == Len(handed)
           old == handed[L]
<1>1. at \in [Sides -> Places] /\ handed \in Seq(Handed) /\ "S" \in Sides
  BY TwoSides DEF TypeOK
<1>2. at["S"] = "chunks"
  BY DEF SendChunk, EndFile
<1>3. L \in 1..L /\ old \in Handed /\ ~old.ended
  <2>1. handed # <<>> /\ ~handed[Len(handed)].ended
    BY <1>2 DEF HandedInv
  <2>2. QED
    BY <1>1, <2>1, SequenceType
<1>4. ASSUME NEW e \in Handed, handed' = [handed EXCEPT ![L] = e]
      PROVE  /\ Len(handed') = L
             /\ \A i \in 1..L : i # L => handed'[i] = handed[i]
             /\ handed'[L] = e
  BY <1>1, <1>3, <1>4, ExceptSeq
<1>5. CASE SendChunk
  <2> DEFINE e == [old EXCEPT !.chunks = old.chunks + 1]
  <2>1. e \in Handed /\ e.file = old.file /\ e.chunks = old.chunks + 1 /\ e.ended = old.ended
    BY <1>3 DEF Handed
  <2>2. handed' = [handed EXCEPT ![L] = e]
    BY <1>5 DEF SendChunk
  <2>3. at'["S"] \in {"chunks", "files"} /\ (link = "up" => at'["S"] = "chunks")
    BY <1>1, <1>5 DEF SendChunk, Send, GoTo
  <2>4. ~EndFile
    <3>1. EndFile => handed' = [handed EXCEPT ![L] = [old EXCEPT !.ended = TRUE]]
      BY DEF EndFile
    <3>2. [old EXCEPT !.ended = TRUE] \in Handed /\ [old EXCEPT !.ended = TRUE].ended
      BY <1>3 DEF Handed
    <3>3. EndFile => handed'[L].ended
      BY <1>4, <3>1, <3>2
    <3>4. ~handed'[L].ended
      BY <1>3, <1>4, <2>1, <2>2
    <3>5. QED
      BY <3>3, <3>4
  <2> HIDE DEF e
  <2>5. /\ Len(handed') = L /\ handed'[L] = e
        /\ \A i \in 1..L : i # L => handed'[i] = handed[i]
    BY <1>4, <2>1, <2>2
  <2>6. QED
    BY <1>2, <1>3, <2>1, <2>3, <2>4, <2>5
<1>6. CASE EndFile /\ ~SendChunk
  <2> DEFINE e == [old EXCEPT !.ended = TRUE]
  <2>1. e \in Handed /\ e.file = old.file /\ e.chunks = old.chunks /\ e.ended
    BY <1>3 DEF Handed
  <2>2. handed' = [handed EXCEPT ![L] = e] /\ at'["S"] = "files"
    BY <1>1, <1>6 DEF EndFile, GoTo
  <2> HIDE DEF e
  <2>3. /\ Len(handed') = L /\ handed'[L] = e
        /\ \A i \in 1..L : i # L => handed'[i] = handed[i]
    BY <1>4, <2>1, <2>2
  <2>4. QED
    BY <1>2, <1>3, <1>6, <2>1, <2>2, <2>3
<1>7. QED
  BY <1>5, <1>6

LEMMA HandedNext ==
    ASSUME TypeOK, TypeOK', HandedInv, [Next]_vars
    PROVE  HandedInv'
<1>1. Moves /\ Frame
  BY StepMoves, StepFrame
<1>2. /\ handed \in Seq(Handed) /\ Len(handed) \in Nat
      /\ at \in [Sides -> Places] /\ "S" \in Sides
  BY LenProperties, TwoSides DEF TypeOK
<1>3. link' = "up" => link = "up"
  BY <1>1 DEF Frame
<1>4. CASE SendFile /\ handed' # handed
  <2>1. PICK f \in Files :
           /\ handed' = Append(handed, [file |-> f, chunks |-> 0, ended |-> FALSE])
           /\ at["S"] = "files" /\ at'["S"] = "chunks"
    BY <1>4, SendFileStep
  <2> DEFINE new == [file |-> f, chunks |-> 0, ended |-> FALSE]
  <2>2. /\ Len(handed') = Len(handed) + 1
        /\ \A i \in 1..Len(handed) : handed'[i] = handed[i]
        /\ handed'[Len(handed) + 1] = new
    BY <1>2, <2>1, AppendProperties
  <2>3. link = "up" => \A i \in 1..Len(handed) : handed[i].ended
    BY <2>1 DEF HandedInv
  <2>4. handed' # <<>> /\ ~handed'[Len(handed')].ended
    <3>1. Len(handed') # 0
      BY <1>2, <2>2
    <3>2. handed' # <<>>
      BY <3>1, EmptySeq
    <3>3. QED
      BY <2>2, <3>2
  <2>5. ASSUME link' = "up", NEW i \in 1..Len(handed')
        PROVE  handed'[i].ended \/ i = Len(handed')
    BY <1>2, <1>3, <2>2, <2>3, <2>5
  <2>6. QED
    BY <2>1, <2>4, <2>5 DEF HandedInv, Early
<1>5. CASE SendChunk \/ EndFile
  <2>1. /\ Len(handed) \in 1..Len(handed) /\ Len(handed') = Len(handed)
        /\ \A i \in 1..Len(handed) : i # Len(handed) => handed'[i] = handed[i]
        /\ SendChunk => ~handed'[Len(handed)].ended /\ at'["S"] \in {"chunks", "files"}
        /\ SendChunk /\ link = "up" => at'["S"] = "chunks"
        /\ EndFile => handed'[Len(handed)].ended /\ at'["S"] = "files"
    BY <1>5, LastFileStep
  <2>2. handed' # <<>>
    <3>1. Len(handed') # 0
      BY <1>2, <2>1
    <3>2. QED
      BY <3>1, EmptySeq
  <2>3. link = "up" => \A i \in 1..Len(handed) : handed[i].ended \/ i = Len(handed)
    BY DEF HandedInv
  <2>4. ASSUME link' = "up", NEW i \in 1..Len(handed')
        PROVE  handed'[i].ended \/ (i = Len(handed') /\ at'["S"] \notin {"files", "draining"})
    BY <1>3, <1>5, <2>1, <2>3, <2>4
  <2>5. at'["S"] = "chunks" => ~handed'[Len(handed')].ended
    BY <1>5, <2>1
  <2>6. QED
    BY <1>5, <2>1, <2>2, <2>4, <2>5 DEF HandedInv, Early
<1>6. CASE handed' = handed /\ ~EndFile
  <2>1. /\ at'["S"] \in Early("S") => at["S"] \in Early("S")
        /\ at'["S"] = "chunks" => at["S"] = "chunks"
        /\ at'["S"] \in {"files", "draining"} /\ link = "up" =>
              at["S"] \in Early("S") \/ at["S"] \in {"files", "draining"}
    <3>1. at'["S"] = "chunks" => at["S"] = "chunks" \/ SendFile
      BY <1>1 DEF Moves
    <3>2. SendFile => at'["S"] = "files"
      <4>1. \A f : Append(handed, f) # handed
        BY <1>2
      <4>2. QED
        BY <1>6, <4>1, SendFileStep
    <3>3. /\ at'["S"] \in Early("S") => at["S"] \in Early("S")
          /\ at["S"] = "chunks" /\ at'["S"] \in {"files", "draining"} => link = "down"
          /\ at'["S"] \in Filing("S") => at["S"] \in Filing("S") \cup Early("S")
      BY <1>1, <1>6 DEF Moves
    <3>4. QED
      BY <3>1, <3>2, <3>3 DEF Filing
  <2>2. handed = <<>> => Len(handed) = 0
    BY EmptySeq
  <2>3. QED
    BY <1>2, <1>3, <1>6, <2>1, <2>2 DEF HandedInv
<1>7. QED
  BY <1>1, <1>4, <1>5, <1>6 DEF Frame

-----------------------------------------------------------------------------
(* The results of the receiver.                                            *)

\* The task that waits for a result reads nothing; a message may arrive.
LEMMA InboxWaits ==
    ASSUME TypeOK, [Next]_vars, at["R"] = "result", ~Respond, inbox["R"] # <<>>
    PROVE  inbox'["R"] # <<>> /\ Head(inbox'["R"]) = Head(inbox["R"])
<1>0. /\ at \in [Sides -> Places] /\ inbox \in [Sides -> Seq(Message)]
      /\ inbox["R"] \in Seq(Message) /\ "R" \in Sides /\ "S" \in Sides
  BY TwoSides DEF TypeOK
<1>1. CASE inbox'["R"] = inbox["R"]
  BY <1>1
<1>2. ASSUME NEW s \in Sides, Deliver(s)
      PROVE  inbox'["R"] # <<>> /\ Head(inbox'["R"]) = Head(inbox["R"])
  <2>1. /\ net[s] # <<>> /\ inbox' = [inbox EXCEPT ![s] = Append(@, Head(net[s]))]
    BY <1>2 DEF Deliver
  <2>2. Head(net[s]) \in Message
    BY <2>1, HeadTailProperties DEF TypeOK
  <2>3. CASE s = "S"
    BY <1>0, <1>1, <2>1, <2>3
  <2>4. CASE s = "R"
    <3>1. inbox'["R"] = Append(inbox["R"], Head(net["R"])) /\ Head(net["R"]) \in Message
      BY <1>0, <2>1, <2>2, <2>4
    <3>2. inbox'["R"] # <<>> /\ Head(inbox'["R"]) = Head(inbox["R"])
      BY <1>0, <3>1, AppendProperties, HeadTailAppend, SMTT(60)
    <3>3. QED
      BY <3>2
  <2>5. QED
    BY <2>3, <2>4, TwoSides
<1>3. ASSUME NEW s \in Sides, ParseError(s) \/ ReceiveNonce(s) \/ CheckPin(s)
      PROVE  inbox'["R"] = inbox["R"]
  <2>1. inbox' = [inbox EXCEPT ![s] = Tail(@)]
    BY <1>3 DEF ParseError, ReceiveNonce, CheckPin, Reads
  <2>2. s # "R"
    <3>1. ParseError(s) => at[s] \in {"nonce", "token", "verify", "reply", "list", "header"}
      BY DEF ParseError, Awaited
    <3>2. ReceiveNonce(s) \/ CheckPin(s) => at[s] \in {"nonce", "verify"}
      BY DEF ReceiveNonce, CheckPin, Reads
    <3>3. QED
      BY <1>3, <3>1, <3>2
  <2>3. QED
    BY <1>0, <2>1, <2>2
<1>4. ASSUME NEW s \in Sides, StoreSlot(s) \/ SendPin(s) \/ Flush(s) \/ Finish(s) \/ Fail(s)
      PROVE  inbox'["R"] = inbox["R"]
  BY <1>4 DEF StoreSlot, SendPin, Flush, Finish, Fail
<1>5. Sender => inbox'["R"] = inbox["R"]
  <2>1. SendNonce => inbox'["R"] = inbox["R"]
    BY DEF SendNonce
  <2>2. CheckReceiverToken \/ ReadPinStatus \/ ReadLast => inbox' = [inbox EXCEPT !["S"] = Tail(@)]
    BY DEF CheckReceiverToken, ReadPinStatus, ReadLast, Reads
  <2>3. ReadSelection => inbox' = [inbox EXCEPT !["S"] = Tail(Tail(@))]
    BY DEF ReadSelection, ReadsText
  <2>4. QED
    BY <1>0, <2>1, <2>2, <2>3 DEF Sender
<1>6. Receiver => inbox'["R"] = inbox["R"]
  <2>1. ~CheckSenderToken /\ ~ReadPairStatus /\ ~OpenStream /\ ~ReceiveChunk /\ ~EndStream
    BY DEF CheckSenderToken, ReadPairStatus, OpenStream, ReceiveChunk, EndStream, Reads
  <2>2. ~ReadList
    BY DEF ReadList, ReadsText
  <2>3. QED
    BY <2>1, <2>2 DEF Receiver
<1>7. Deciding \/ Handing \/ Report \/ LinkLost \/ UNCHANGED vars => inbox'["R"] = inbox["R"]
  BY DEF Deciding, Select, Decline, Abandon, AskToPair, Handing, SendFile, SendChunk, EndFile,
         EndFiles, Report, LinkLost, vars
<1>8. QED
  BY <1>1, <1>2, <1>3, <1>4, <1>5, <1>6, <1>7 DEF Next, Step, Typing

\* The three steps that change a stream: which one, and to what.
LEMMA StreamStep ==
    ASSUME TypeOK, ResultInv, ReceiveChunk \/ EndStream \/ Report
    PROVE  \E i \in 1..Len(streams), e \in Stream :
              /\ Len(streams') = Len(streams)
              /\ \A j \in 1..Len(streams) : streams'[j] = IF j = i THEN e ELSE streams[j]
              /\ e.file = streams[i].file
              /\ \/ /\ ReceiveChunk /\ i = Len(streams)
                    /\ at["R"] = "data" /\ at'["R"] = "data" /\ results' = results
                    /\ e.chunks = Append(streams[i].chunks, Head(inbox["R"]).of)
                    /\ e.ended = streams[i].ended /\ e.result = streams[i].result
                 \/ /\ EndStream /\ i = Len(streams)
                    /\ at["R"] = "data" /\ at'["R"] = "result" /\ results' = results
                    /\ e.chunks = streams[i].chunks /\ e.ended /\ e.result = streams[i].result
                 \/ /\ Report /\ at' = at
                    /\ e.chunks = streams[i].chunks
                    /\ e.ended = streams[i].ended /\ streams[i].ended /\ streams[i].result = "none"
                    /\ e.result \in {"success", "failure"} /\ results' = Append(results, e.result)
<1>0. /\ streams \in Seq(Stream) /\ at \in [Sides -> Places] /\ "R" \in Sides
      /\ inbox["R"] \in Seq(Message)
  BY TwoSides DEF TypeOK
<1>1. ASSUME NEW i \in 1..Len(streams), NEW e \in Stream, streams' = [streams EXCEPT ![i] = e]
      PROVE  /\ Len(streams') = Len(streams)
             /\ \A j \in 1..Len(streams) : streams'[j] = IF j = i THEN e ELSE streams[j]
  BY <1>0, <1>1, ExceptSeq
<1> DEFINE L == Len(streams)
<1>2. CASE ReceiveChunk
  <2> DEFINE c == Append(streams[L].chunks, Head(inbox["R"]).of)
             e == [streams[L] EXCEPT !.chunks = c]
  <2>1. /\ inbox["R"] # <<>> /\ Head(inbox["R"]).kind = "chunk"
        /\ at["R"] = "data" /\ UNCHANGED at /\ results' = results
    BY <1>2 DEF ReceiveChunk, Reads
  <2>2. Head(inbox["R"]).of \in Nat \X Nat
    BY <2>1, ReadType, TwoSides, MessageParts
  <2>3. L \in 1..L /\ streams[L] \in Stream
    BY <1>0, <2>1, SequenceType DEF ResultInv
  <2>4. c \in Seq(Nat \X Nat)
    <3>1. streams[L].chunks \in Seq(Nat \X Nat)
      BY <2>3 DEF Stream
    <3>2. QED
      BY <2>2, <3>1, SequenceType
  <2>5. streams' = [streams EXCEPT ![L].chunks = c]
    BY <1>2 DEF ReceiveChunk
  <2> HIDE DEF c
  <2>6. /\ e \in Stream /\ e.chunks = c /\ e.file = streams[L].file
        /\ e.ended = streams[L].ended /\ e.result = streams[L].result
    BY <2>3, <2>4 DEF Stream
  <2>7. streams' = [streams EXCEPT ![L] = e]
    BY <2>5
  <2>8. c = Append(streams[L].chunks, Head(inbox["R"]).of)
    BY DEF c
  <2> HIDE DEF e
  <2>9. QED
    BY <1>1, <1>2, <2>1, <2>3, <2>6, <2>7, <2>8, SMTT(60)
<1>3. CASE EndStream
  <2> DEFINE e == [streams[L] EXCEPT !.ended = TRUE]
  <2>1. at["R"] = "data" /\ at'["R"] = "result" /\ results' = results
    BY <1>0, <1>3 DEF EndStream, GoTo
  <2>2. L \in 1..L /\ streams[L] \in Stream
    BY <1>0, <2>1, SequenceType DEF ResultInv
  <2>3. /\ e \in Stream /\ e.chunks = streams[L].chunks /\ e.file = streams[L].file
        /\ e.ended /\ e.result = streams[L].result
    BY <2>2 DEF Stream
  <2>4. streams' = [streams EXCEPT ![L] = e]
    BY <1>3 DEF EndStream
  <2> HIDE DEF e
  <2>5. QED
    BY <1>1, <1>3, <2>1, <2>2, <2>3, <2>4
<1>4. CASE Report
  <2>1. PICK i \in DOMAIN streams, r \in {"success", "failure"} :
           /\ streams[i].ended /\ streams[i].result = "none"
           /\ streams' = [streams EXCEPT ![i].result = r] /\ results' = Append(results, r)
    BY <1>4 DEF Report
  <2>2. i \in 1..Len(streams) /\ streams[i] \in Stream
    BY <1>0, LenProperties, ElementOfSeq
  <2> DEFINE e == [streams[i] EXCEPT !.result = r]
  <2>3. /\ e \in Stream /\ e.chunks = streams[i].chunks /\ e.file = streams[i].file
        /\ e.ended = streams[i].ended /\ e.result = r
    BY <2>2 DEF Stream
  <2>4. streams' = [streams EXCEPT ![i] = e]
    BY <2>1
  <2>5. at' = at
    BY <1>4 DEF Report
  <2> HIDE DEF e
  <2>6. QED
    BY <1>1, <1>4, <2>1, <2>2, <2>3, <2>4, <2>5, ZenonT(60)
<1>5. QED
  BY <1>2, <1>3, <1>4

\* OpenStream adds one.
LEMMA OpenStep ==
    ASSUME TypeOK, OpenStream
    PROVE  /\ at["R"] = "header" /\ at'["R"] = "data"
           /\ inbox["R"] # <<>> /\ Head(inbox["R"]).kind = "header"
           /\ Len(streams) \in Nat /\ Len(streams') = Len(streams) + 1
           /\ \A i \in 1..Len(streams) : streams'[i] = streams[i]
           /\ streams'[Len(streams) + 1] =
                 [file |-> Head(inbox["R"]).file, chunks |-> <<>>, ended |-> FALSE,
                  result |-> "none"]
           /\ Head(inbox["R"]).file \in chosen
           /\ UNCHANGED <<net, link, chosen, handed, results, confirmed>>
<1> DEFINE new == [file |-> Head(inbox["R"]).file, chunks |-> <<>>, ended |-> FALSE,
                   result |-> "none"]
<1>1. /\ streams \in Seq(Stream) /\ at \in [Sides -> Places] /\ "R" \in Sides
  BY TwoSides DEF TypeOK
<1>2. /\ at["R"] = "header" /\ at' = [at EXCEPT !["R"] = "data"]
      /\ inbox["R"] # <<>> /\ Head(inbox["R"]).kind = "header"
      /\ Head(inbox["R"]).file \in chosen
      /\ streams' = Append(streams, new)
      /\ UNCHANGED <<net, link, status, outcome, authVars, pinVars, listed, chosen,
                     granted, calls, handed, results, confirmed>>
  BY DEF OpenStream, Reads, GoTo
<1> HIDE DEF new
<1>3. /\ Len(streams) \in Nat /\ Len(streams') = Len(streams) + 1
      /\ \A i \in 1..Len(streams) : streams'[i] = streams[i]
      /\ streams'[Len(streams) + 1] = new
  BY <1>1, <1>2, AppendProperties, LenProperties
<1>4. QED
  BY <1>1, <1>2, <1>3 DEF new

\* The files the receiving app has only get more.
LEMMA DoneIs ==
    ASSUME TypeOK, TypeOK'
    PROVE  /\ \A f : f \in Done <=> \E j \in 1..Len(streams) :
                        streams[j].result = "success" /\ streams[j].file = f
           /\ \A f : f \in Done' <=> \E j \in 1..Len(streams') :
                        streams'[j].result = "success" /\ streams'[j].file = f
<1>1. DOMAIN streams = 1..Len(streams) /\ DOMAIN streams' = 1..Len(streams')
  BY LenProperties DEF TypeOK
<1>2. QED
  BY <1>1 DEF Done

LEMMA DoneGrows ==
    ASSUME TypeOK, TypeOK', ResultInv, [Next]_vars
    PROVE  Done \subseteq Done'
<1>0. Len(streams) \in Nat
  BY LenProperties DEF TypeOK
<1>1. Frame
  BY StepFrame
<1>2. CASE streams' = streams
  BY <1>2 DEF Done
<1>3. CASE OpenStream
  <2>1. /\ Len(streams') = Len(streams) + 1
        /\ \A i \in 1..Len(streams) : streams'[i] = streams[i]
    BY <1>3, OpenStep
  <2>2. QED
    BY <1>0, <2>1, DoneIs
<1>4. CASE ReceiveChunk \/ EndStream \/ Report
  <2>1. PICK i \in 1..Len(streams), e \in Stream :
              /\ Len(streams') = Len(streams)
              /\ \A j \in 1..Len(streams) : streams'[j] = IF j = i THEN e ELSE streams[j]
              /\ e.file = streams[i].file
              /\ e.result = streams[i].result \/ streams[i].result = "none"
    BY <1>4, StreamStep
  <2>2. QED
    BY <1>0, <2>1, DoneIs
<1>5. QED
  BY <1>1, <1>2, <1>3, <1>4 DEF Frame

LEMMA ResultNext ==
    ASSUME TypeOK, TypeOK', ResultInv, [Next]_vars
    PROVE  ResultInv'
<1>1. Moves /\ Frame /\ Done \subseteq Done'
  BY StepMoves, StepFrame, DoneGrows
<1>2. /\ streams \in Seq(Stream) /\ streams' \in Seq(Stream) /\ Len(streams) \in Nat
      /\ results \in Seq({"success", "failure"}) /\ at \in [Sides -> Places] /\ "R" \in Sides
      /\ \A q \in Seq(Stream) : q # <<>> <=> Len(q) # 0
  BY LenProperties, EmptySeq, TwoSides DEF TypeOK
<1>3. CASE OpenStream
  <2> DEFINE n == Len(streams) + 1
             f == Head(inbox["R"]).file
             new == [file |-> f, chunks |-> <<>>, ended |-> FALSE, result |-> "none"]
  <2>1. /\ at["R"] = "header" /\ at'["R"] = "data" /\ f \in chosen
        /\ Len(streams') = n /\ \A i \in 1..Len(streams) : streams'[i] = streams[i]
        /\ streams'[n] = new
        /\ chosen' = chosen /\ results' = results /\ confirmed' = confirmed
    BY <1>3, OpenStep
  <2>2. new.file = f /\ new.result = "none" /\ ~new.ended
    OBVIOUS
  <2> HIDE DEF f, new
  <2>3. \A i \in 1..n : i \in 1..Len(streams) \/ i = n
    BY <1>2
  <2>4. \A i \in 1..Len(streams) : streams[i].file \in chosen /\ streams[i].result # "none"
                                   /\ streams[i].ended
    BY <2>1 DEF ResultInv
  <2>5. \A i \in 1..Len(streams') :
          /\ streams'[i].file \in chosen'
          /\ streams'[i].result # "none" => streams'[i].ended
    BY <2>1, <2>2, <2>3, <2>4
  <2>6. streams' # <<>> /\ n - 1 = Len(streams)
    BY <1>2, <2>1
  <2>7. \A i \in 1..(n - 1) : streams'[i].result # "none"
    BY <2>1, <2>4, <2>6
  <2>8. confirmed' \subseteq Done' /\ results' = <<>>
    BY <1>1, <2>1 DEF ResultInv
  <2>9. QED
    BY <2>1, <2>2, <2>5, <2>6, <2>7, <2>8 DEF ResultInv, Early
<1>4. CASE ReceiveChunk \/ EndStream \/ Report
  <2>1. PICK i \in 1..Len(streams), e \in Stream :
              /\ Len(streams') = Len(streams)
              /\ \A j \in 1..Len(streams) : streams'[j] = IF j = i THEN e ELSE streams[j]
              /\ e.file = streams[i].file
              /\ \/ /\ ReceiveChunk /\ i = Len(streams)
                    /\ at["R"] = "data" /\ at'["R"] = "data" /\ results' = results
                    /\ e.ended = streams[i].ended /\ e.result = streams[i].result
                 \/ /\ EndStream /\ i = Len(streams)
                    /\ at["R"] = "data" /\ at'["R"] = "result" /\ results' = results
                    /\ e.ended /\ e.result = streams[i].result
                 \/ /\ Report /\ at' = at
                    /\ e.ended = streams[i].ended /\ streams[i].ended /\ streams[i].result = "none"
                    /\ e.result \in {"success", "failure"} /\ results' = Append(results, e.result)
    BY <1>4, StreamStep
  <2>2. chosen' = chosen /\ confirmed' = confirmed /\ streams' # <<>>
    <3>1. chosen' = chosen /\ confirmed' = confirmed
      BY <1>4 DEF ReceiveChunk, EndStream, Report
    <3>2. QED
      BY <1>2, <2>1, <3>1
  <2>3. confirmed' \subseteq Done'
    BY <1>1, <2>2 DEF ResultInv
  <2>4. ASSUME NEW j \in 1..Len(streams')
        PROVE  /\ streams'[j].file \in chosen'
               /\ streams'[j].result # "none" => streams'[j].ended
    <3>1. streams[j].file \in chosen /\ (streams[j].result # "none" => streams[j].ended)
      BY <2>1 DEF ResultInv
    <3>2. QED
      BY <2>1, <2>2, <3>1
  <2> DEFINE L == Len(streams)
  <2>5. CASE /\ i = L /\ at["R"] = "data" /\ at'["R"] = "data" /\ results' = results
             /\ e.ended = streams[i].ended /\ e.result = streams[i].result
    <3>1. /\ results = <<>> /\ ~streams[L].ended
          /\ \A j \in 1..(L - 1) : streams[j].result # "none"
      BY <2>5 DEF ResultInv, Early
    <3>2. results' = <<>> /\ ~streams'[L].ended
          /\ \A j \in 1..(L - 1) : streams'[j].result # "none"
      BY <1>2, <2>1, <2>5, <3>1
    <3>3. QED
      BY <2>1, <2>2, <2>3, <2>4, <2>5, <3>2 DEF ResultInv, Early
  <2>6. CASE /\ EndStream /\ i = L /\ at["R"] = "data" /\ at'["R"] = "result"
             /\ results' = results /\ e.ended /\ e.result = streams[i].result
    <3>1. /\ results = <<>> /\ ~streams[L].ended /\ streams[L].result = "none"
          /\ \A j \in 1..(L - 1) : streams[j].result # "none"
      BY <2>1, <2>6 DEF ResultInv, Early
    <3>2. /\ results' = <<>> /\ streams'[L].ended /\ streams'[L].result = "none"
          /\ \A j \in 1..(L - 1) : streams'[j].result # "none"
      BY <1>2, <2>1, <2>6, <3>1
    <3>3. inbox'["R"] # <<>> /\ Head(inbox'["R"]).kind # "chunk"
      BY <2>6 DEF EndStream, EndsFile, IsString
    <3>4. QED
      BY <2>1, <2>2, <2>3, <2>4, <2>6, <3>2, <3>3 DEF ResultInv, Early
  <2>7. CASE /\ Report /\ at' = at
             /\ e.ended = streams[i].ended /\ streams[i].ended /\ streams[i].result = "none"
             /\ e.result \in {"success", "failure"} /\ results' = Append(results, e.result)
    <3>1. streams # <<>> /\ at["R"] \notin Early("R") \cup {"header"}
      <4>1. streams # <<>>
        BY <1>2, <2>1
      <4>2. QED
        BY <2>7, <4>1 DEF ResultInv
    <3>2. at["R"] \in {"data", "result"} => i = L
      BY <1>2, <2>7 DEF ResultInv
    <3>3. at["R"] # "data"
      BY <2>7, <3>2 DEF ResultInv
    <3>4. ASSUME at["R"] = "result"
          PROVE  /\ streams'[L].ended /\ results' = <<streams'[L].result>>
                 /\ streams'[L].result # "none"
                 /\ inbox'["R"] # <<>> /\ Head(inbox'["R"]).kind # "chunk"
                 /\ \A j \in 1..(L - 1) : streams'[j].result # "none"
      <4>1. /\ streams[L].ended /\ results = <<>> /\ i = L
            /\ inbox["R"] # <<>> /\ Head(inbox["R"]).kind # "chunk"
            /\ \A j \in 1..(L - 1) : streams[j].result # "none"
        BY <2>7, <3>2, <3>4 DEF ResultInv
      <4>2. inbox' = inbox
        BY <2>7 DEF Report
      <4>3. Append(<<>>, e.result) = <<e.result>>
        OBVIOUS
      <4>4. streams'[L] = e /\ \A j \in 1..(L - 1) : streams'[j] = streams[j]
        BY <1>2, <2>1, <4>1
      <4>5. QED
        BY <2>7, <4>1, <4>2, <4>3, <4>4
    <3>5. QED
      BY <2>1, <2>2, <2>3, <2>4, <2>7, <3>1, <3>3, <3>4 DEF ResultInv
  <2>8. QED
    BY <2>1, <2>5, <2>6, <2>7
<1>5. CASE Select
  <2>1. /\ at["R"] \in {"select", "choose"} /\ at'["R"] \in {"header", "failed"}
        /\ streams' = streams /\ results' = results /\ confirmed' = confirmed
    BY <1>2, <1>5, SendMoves DEF Select
  <2>2. streams = <<>> /\ Len(streams) = 0 /\ results = <<>> /\ confirmed \subseteq Done
    BY <1>2, <2>1 DEF ResultInv, Early
  <2>3. QED
    BY <1>1, <2>1, <2>2 DEF ResultInv, Early
<1>6. CASE Respond
  <2> DEFINE L == Len(streams)
             r == Head(results)
  <2>1. /\ at["R"] = "result" /\ results # <<>> /\ results' = Tail(results)
        /\ at'["R"] \in {"header", "flushing", "failed"}
        /\ streams' = streams /\ chosen' = chosen
        /\ confirmed' = IF IsGood(Head(results)) THEN confirmed \cup {streams[L].file}
                                                 ELSE confirmed
    <3>1. PICK p \in {"header", "flushing"} : \E m : Send("R", <<m>>, p, "failed")
      BY <1>6 DEF Respond
    <3>2. at'["R"] \in {"header", "flushing", "failed"}
      BY <1>2, <3>1 DEF Send, GoTo
    <3>3. QED
      BY <1>6, <3>2 DEF Respond
  <2>2. /\ streams # <<>> /\ \A i \in 1..(L - 1) : streams[i].result # "none"
        /\ results = <<streams[L].result>> /\ streams[L].result # "none"
    BY <2>1 DEF ResultInv
  <2>3. results' = <<>> /\ Head(results) = streams[L].result
    BY <2>1, <2>2
  <2>4. \A i \in 1..L : streams[i].result # "none"
    BY <1>2, <2>2
  <2>5. confirmed' \subseteq Done'
    <3>1. L \in 1..L
      BY <1>2, <2>2, SequenceType
    <3>2. IsGood(Head(results)) => streams[L].file \in Done'
      BY <2>1, <2>3, <3>1, DoneIs DEF IsGood
    <3>3. confirmed \subseteq Done'
      BY <1>1 DEF ResultInv
    <3>4. QED
      BY <2>1, <3>2, <3>3
  <2>6. \A i \in 1..L : streams[i].file \in chosen /\ (streams[i].result # "none" => streams[i].ended)
    BY DEF ResultInv
  <2>7. QED
    BY <2>1, <2>3, <2>4, <2>5, <2>6 DEF ResultInv, Early
<1>7. CASE /\ ~OpenStream /\ ~EndStream /\ ~Select /\ ~Respond
           /\ UNCHANGED <<streams, chosen, results, confirmed>>
  <2>1. /\ at'["R"] \in Filing("R") => at'["R"] = at["R"]
        /\ at'["R"] \in Early("R") => at["R"] \in Early("R")
    BY <1>1, <1>7 DEF Moves
  <2>2. confirmed' \subseteq Done'
    BY <1>1, <1>7 DEF ResultInv
  <2>3. at["R"] = "result" => /\ inbox["R"] # <<>> /\ Head(inbox["R"]).kind # "chunk"
                              /\ inbox'["R"] # <<>> /\ Head(inbox'["R"]).kind # "chunk"
    <3>1. at["R"] = "result" => inbox["R"] # <<>> /\ Head(inbox["R"]).kind # "chunk"
      BY DEF ResultInv
    <3>2. QED
      BY <1>7, <3>1, InboxWaits
  <2>4. /\ \A i \in 1..Len(streams) :
              /\ streams[i].file \in chosen
              /\ streams[i].result # "none" => streams[i].ended
        /\ at["R"] \in Early("R") => streams = <<>> /\ chosen = {}
        /\ at["R"] \in Early("R") \cup {"header", "data"} => results = <<>>
        /\ at["R"] = "header" => \A i \in 1..Len(streams) : streams[i].result # "none"
        /\ at["R"] \in {"data", "result"} =>
              /\ streams # <<>>
              /\ \A i \in 1..(Len(streams) - 1) : streams[i].result # "none"
        /\ at["R"] = "data" => ~streams[Len(streams)].ended
        /\ at["R"] = "result" =>
              /\ streams[Len(streams)].ended
              /\ results = IF streams[Len(streams)].result = "none" THEN <<>>
                           ELSE <<streams[Len(streams)].result>>
    BY DEF ResultInv
  <2>5. QED
    BY <1>7, <2>1, <2>2, <2>3, <2>4 DEF ResultInv, Filing
<1>8. QED
  BY <1>1, <1>3, <1>4, <1>5, <1>6, <1>7 DEF Frame

-----------------------------------------------------------------------------
(* What a step sends.                                                      *)

\* Neither a token nor, from the sender, the list of files.
Quiet(s) ==
    {m \in Message : /\ m.kind \notin {"token", "tokenStatus"}
                     /\ ~(s = "R" /\ m.kind = "part" /\ m.status = "Ok")}
AllQuiet == \A t \in Sides : Grows(t, Quiet(t))

LEMMA QuietSend ==
    ASSUME TypeOK, NEW s \in Sides, ReadsUp(s),
           NEW ms \in Seq(Message), NEW a, NEW b, Send(s, ms, a, b),
           Range(ms) \subseteq Quiet(Other(s))
    PROVE  AllQuiet
<1>1. Grows(Other(s), Range(ms)) /\ Grows(s, {})
  BY GrowsBySend
<1>2. \A t \in Sides : t = s \/ t = Other(s)
  BY DEF Sides, Other
<1>3. Grows(s, Quiet(s)) /\ Grows(Other(s), Quiet(Other(s)))
  BY <1>1 DEF Grows
<1>4. QED
  BY <1>2, <1>3 DEF AllQuiet

LEMMA QuietNone ==
    ASSUME TypeOK, NEW s \in Sides, ReadsUp(s),
           net' = net \/ net' = [t \in Sides |-> <<>>]
    PROVE  AllQuiet
<1>1. \A t \in Sides : Grows(t, {})
  BY GrowsByNone
<1>2. QED
  BY <1>1 DEF Grows, AllQuiet

\* The messages of a short sequence.
LEMMA RangeOne == \A m : Range(<<m>>) = {m}
BY DEF Range

LEMMA RangeTwo == \A x, y : Range(<<x, y>>) = {x, y}
<1> SUFFICES ASSUME NEW x, NEW y PROVE Range(<<x, y>>) = {x, y}
  OBVIOUS
<1>1. DOMAIN <<x, y>> = 1..2 /\ <<x, y>>[1] = x /\ <<x, y>>[2] = y
  OBVIOUS
<1>2. QED
  BY <1>1 DEF Range

LEMMA RangeText ==
    ASSUME NEW r, NEW F
    PROVE  Range(Text(r, F)) = {Part(r, F, NoKey), Delimiter}
<1>1. Text(r, F) = <<Part(r, F, NoKey), Delimiter>>
  BY DEF Text
<1>2. QED
  BY <1>1, RangeTwo

\* A text with any other result than "Ok" is quiet, and so is one from the receiver.
LEMMA QuietText ==
    ASSUME NEW r \in Results, NEW F \in SUBSET Files
    PROVE  /\ r # "Ok" => Range(Text(r, F)) \subseteq Quiet("R")
           /\ Range(Text(r, F)) \subseteq Quiet("S")
<1>1. Part(r, F, NoKey) \in Message /\ Delimiter \in Message
      /\ Part(r, F, NoKey).kind = "part" /\ Part(r, F, NoKey).status = r
      /\ Delimiter.kind = "delimiter"
  BY DEF Part, Delimiter, Message
<1>2. QED
  BY <1>1, RangeText DEF Quiet

LEMMA StepQuiet ==
    ASSUME TypeOK, HandedInv, ResultInv, [Next]_vars, ~ReceiveNonce("S"), ~CheckSenderToken,
           ~CheckReceiverToken, ~ReadPinStatus, ~CheckPin("S")
    PROVE  AllQuiet
<1>0. "S" \in Sides /\ "R" \in Sides /\ Other("S") = "R" /\ Other("R") = "S"
      /\ \A s \in Sides : s = "S" \/ s = "R"
  BY DEF Sides, Other
<1>1. ASSUME NEW s \in Sides, NEW m \in Message, m \in Quiet(Other(s)), ReadsUp(s),
             NEW a, NEW b, Send(s, <<m>>, a, b)
      PROVE  AllQuiet
  <2>1. <<m>> \in Seq(Message)
    BY OneMessage
  <2>2. Range(<<m>>) \subseteq Quiet(Other(s))
    BY <1>1, RangeOne
  <2>3. QED
    BY <1>1, <2>1, <2>2, QuietSend
<1>2. ASSUME NEW s \in Sides, ReadsUp(s), net' = net \/ net' = [t \in Sides |-> <<>>]
      PROVE  AllQuiet
  BY <1>2, QuietNone
<1>3. ASSUME NEW s \in Sides, NEW r \in Results, NEW F \in SUBSET Files, ReadsUp(s),
             s = "R" \/ r # "Ok", NEW a, NEW b, Send(s, Text(r, F), a, b)
      PROVE  AllQuiet
  <2>1. Range(Text(r, F)) \subseteq Quiet(Other(s))
    BY <1>0, <1>3, QuietText
  <2>2. Text(r, F) \in Seq(Message)
    BY TextType
  <2>3. QED
    BY <1>3, <2>1, <2>2, QuietSend
<1>4. ASSUME NEW s \in Sides, Deliver(s) PROVE AllQuiet
  <2>1. net[s] # <<>> /\ net' = [net EXCEPT ![s] = Tail(@)]
        /\ inbox' = [inbox EXCEPT ![s] = Append(@, Head(net[s]))]
    BY <1>4 DEF Deliver
  <2>2. ASSUME NEW t \in Sides PROVE Pipe(t)' = Pipe(t)
    <3>1. CASE t = s
      <4>1. net'[s] = Tail(net[s]) /\ inbox'[s] = Append(inbox[s], Head(net[s]))
        BY <2>1 DEF TypeOK
      <4>2. QED
        BY <2>1, <3>1, <4>1, PipeDelivered
    <3>2. CASE t # s
      <4>1. net'[t] = net[t] /\ inbox'[t] = inbox[t]
        BY <2>1, <3>2 DEF TypeOK
      <4>2. QED
        BY <4>1 DEF Pipe
    <3>3. QED
      BY <3>1, <3>2
  <2>3. QED
    BY <2>2 DEF Grows, AllQuiet
<1>5. ASSUME NEW s \in Sides, ParseError(s) PROVE AllQuiet
  <2>1. ReadsUp(s) /\ net' = net
    BY <1>5 DEF ParseError, ReadsUp
  <2>2. QED
    BY <1>2, <2>1
<1>6. ASSUME NEW s \in Sides, StoreSlot(s) \/ Finish(s) \/ Fail(s) PROVE AllQuiet
  <2>1. ReadsUp(s) /\ (net' = net \/ net' = [t \in Sides |-> <<>>])
    BY <1>6 DEF StoreSlot, Finish, Fail, Close, ReadsUp
  <2>2. QED
    BY <1>2, <2>1
<1>7. CASE ReceiveNonce("R")
  <2>1. ReadsUp("R") /\ Send("R", <<[kind |-> "nonce", nonce |-> generate_nonce("R")]>>, "token", "failed")
    BY <1>7 DEF ReceiveNonce, Reads, ReadsUp
  <2>2. [kind |-> "nonce", nonce |-> generate_nonce("R")] \in Quiet("S")
    BY <1>0, TokenType DEF Quiet, Message
  <2>3. QED
    BY <1>0, <1>1, <2>1, <2>2 DEF Quiet
<1>8. ASSUME NEW s \in Sides, SendPin(s) PROVE AllQuiet
  <2>1. PICK pin \in Guesses : Send(s, <<[kind |-> "pin", pin |-> pin]>>, "reply", "failed")
    BY <1>8 DEF SendPin
  <2>2. ReadsUp(s)
    BY <1>8 DEF SendPin, ReadsUp
  <2>3. [kind |-> "pin", pin |-> pin] \in Quiet(Other(s))
    BY DEF Quiet, Message
  <2>4. QED
    BY <1>1, <2>1, <2>2, <2>3 DEF Quiet
<1>9. CASE CheckPin("R")
  <2>1. PICK r \in Results : \E a, b : Send("R", PinAnswer("R", r), a, b)
    <3>1. \/ Send("R", PinAnswer("R", "Ok"), "list", "failed")
          \/ Send("R", PinAnswer("R", "PinRequired"), "verify", "failed")
          \/ Send("R", PinAnswer("R", "TooManyAttempts"), "locked", "locked")
      BY <1>9 DEF CheckPin
    <3>2. {"Ok", "PinRequired", "TooManyAttempts"} \subseteq Results
      BY DEF Results
    <3>3. QED
      BY <3>1, <3>2
  <2>2. ReadsUp("R")
    BY <1>9 DEF CheckPin, Reads, ReadsUp
  <2>3. Status("pinStatus", r) \in Quiet("S") /\ PinAnswer("R", r) = <<Status("pinStatus", r)>>
    BY DEF Quiet, Message, Status, PinAnswer
  <2>4. QED
    BY <1>0, <1>1, <2>1, <2>2, <2>3 DEF Quiet
<1>10. ASSUME NEW s \in Sides, Flush(s) PROVE AllQuiet
  <2>1. ReadsUp(s)
    BY <1>10 DEF Flush, ReadsUp
  <2>2. Delimiter \in Quiet(Other(s)) /\ Status("pairStatus", "InvalidSignature") \in Quiet(Other(s))
    BY DEF Delimiter, Status, Quiet, Message, Results
  <2>3. \/ net' = net
        \/ Send(s, <<Delimiter>>, "last", "failed")
        \/ Send(s, <<Status("pairStatus", "InvalidSignature")>>, "failed", "failed")
    BY <1>10 DEF Flush
  <2>4. QED
    BY <1>1, <1>2, <2>1, <2>2, <2>3 DEF Quiet
<1>11. CASE SendNonce
  <2>1. ReadsUp("S") /\ Send("S", <<[kind |-> "nonce", nonce |-> generate_nonce("S")]>>, "nonce", "failed")
    BY <1>11 DEF SendNonce, ReadsUp
  <2>2. [kind |-> "nonce", nonce |-> generate_nonce("S")] \in Quiet("R")
    BY <1>0, TokenType DEF Quiet, Message
  <2>3. QED
    BY <1>0, <1>1, <2>1, <2>2 DEF Quiet
<1>12. CASE ReadSelection
  <2>1. ReadsUp("S")
    BY <1>12 DEF ReadSelection, ReadsText, ReadsUp
  <2>2. net' = net \/ Send("S", <<Status("pairStatus", "PairDeclined")>>, "list", "failed")
    BY <1>12 DEF ReadSelection
  <2>3. Status("pairStatus", "PairDeclined") \in Quiet("R")
    BY DEF Status, Quiet, Message, Results
  <2>4. QED
    BY <1>0, <1>1, <1>2, <2>1, <2>2, <2>3 DEF Quiet
<1>13. CASE ReadLast
  <2>1. ReadsUp("S") /\ net' = net
    BY <1>13 DEF ReadLast, ReadsUp
  <2>2. QED
    BY <1>0, <1>2, <2>1
<1>14. CASE ReadList \/ ReadPairStatus \/ OpenStream \/ ReceiveChunk \/ EndStream
  <2>1. ReadsUp("R")
    BY <1>14 DEF ReadList, ReadPairStatus, OpenStream, ReceiveChunk, EndStream, Reads, ReadsText, ReadsUp
  <2>2. net' = net
    <3>1. ReadList => net' = net
      BY DEF ReadList
    <3>2. ReadPairStatus \/ OpenStream \/ ReceiveChunk \/ EndStream => net' = net
      BY DEF ReadPairStatus, OpenStream, ReceiveChunk, EndStream
    <3>3. QED
      BY <1>14, <3>1, <3>2
  <2>3. QED
    BY <1>0, <1>2, <2>1, <2>2
<1>15. CASE Respond
  <2> DEFINE m == [kind |-> "response", file |-> streams[Len(streams)].file, status |-> Head(results)]
  <2>1. at["R"] = "result" /\ results # <<>>
    BY <1>15 DEF Respond
  <2>2. Len(streams) \in 1..Len(streams) /\ streams[Len(streams)] \in Stream /\ inbox["R"] # <<>>
    BY <2>1, SequenceType DEF ResultInv, TypeOK
  <2>3. Head(results) \in {"success", "failure"}
    BY <2>1, HeadTailProperties DEF TypeOK
  <2>4. m \in Quiet("S")
    <3>1. streams[Len(streams)].file \in Files
      BY <2>2 DEF Stream
    <3>2. QED
      BY <2>3, <3>1 DEF Quiet, Message
  <2>5. PICK p : Send("R", <<m>>, p, "failed")
    BY <1>15 DEF Respond
  <2>6. ReadsUp("R")
    BY <1>15, <2>2 DEF Respond, ReadsUp
  <2> HIDE DEF m
  <2>7. QED
    BY <1>0, <1>1, <2>4, <2>5, <2>6 DEF Quiet
<1>16. CASE Deciding
  <2>1. ReadsUp("R")
    BY <1>16 DEF Deciding, Select, Decline, Abandon, AskToPair, ReadsUp
  <2>2. CASE Select \/ Decline
    <3>1. PICK r \in {"Ok", "Declined"}, F \in SUBSET Files : \E a, b : Send("R", Text(r, F), a, b)
      BY <2>2 DEF Select, Decline
    <3>2. r \in Results
      BY DEF Results
    <3>3. QED
      BY <1>0, <1>3, <2>1, <3>1, <3>2
  <2>3. CASE Abandon
    <3>1. net' = net
      BY <2>3 DEF Abandon
    <3>2. QED
      BY <1>0, <1>2, <2>1, <3>1
  <2>4. CASE AskToPair
    <3>1. PICK key \in {KeyOf("R"), generate_key("X")} :
             Send("R", <<Part("Pair", {}, key), Delimiter>>, "pairing", "failed")
      BY <2>4 DEF AskToPair
    <3>2. Part("Pair", {}, key) \in Quiet("S") /\ Delimiter \in Quiet("S")
      BY DEF Part, Delimiter, Quiet, Message, Results
    <3>3. <<Part("Pair", {}, key), Delimiter>> \in Seq(Message)
      BY <3>2 DEF Quiet
    <3>4. Range(<<Part("Pair", {}, key), Delimiter>>) \subseteq Quiet("S")
      BY <3>2, RangeTwo
    <3>5. QED
      BY <1>0, <2>1, <3>1, <3>3, <3>4, QuietSend
  <2>5. QED
    BY <1>16, <2>2, <2>3, <2>4 DEF Deciding
<1>17. CASE Handing
  <2>1. ReadsUp("S")
    BY <1>17 DEF Handing, SendFile, SendChunk, EndFile, EndFiles, ReadsUp
  <2>2. CASE SendFile
    <3>1. net' = net \/ \E f \in Files : Send("S", <<Header(Len(handed) + 1, f)>>, "chunks", "files")
      BY <2>2 DEF SendFile
    <3>2. Len(handed) + 1 \in Nat
      <4>1. Len(handed) \in Nat
        BY LenProperties DEF TypeOK
      <4>2. QED
        BY <4>1
    <3>3. \A f \in Files : Header(Len(handed) + 1, f) \in Quiet("R")
      BY <3>2 DEF Header, Quiet, Message
    <3>4. QED
      BY <1>0, <1>1, <1>2, <2>1, <3>1, <3>3 DEF Quiet
  <2>3. CASE SendChunk
    <3> DEFINE i == Len(handed)
               n == handed[i].chunks + 1
               m == [kind |-> "chunk", of |-> <<i, n>>]
    <3>1. Send("S", <<m>>, "chunks", "files")
      BY <2>3 DEF SendChunk, Chunk
    <3>2. i \in Nat /\ n \in Nat
      BY <2>3, LastFileStep DEF Handed
    <3> HIDE DEF i, n
    <3>3. m \in Quiet("R")
      BY <3>2 DEF Quiet, Message
    <3> HIDE DEF m
    <3>4. QED
      BY <1>0, <1>1, <2>1, <3>1, <3>3 DEF Quiet
  <2>4. CASE EndFile \/ EndFiles
    <3>1. net' = net
      BY <2>4 DEF EndFile, EndFiles
    <3>2. QED
      BY <1>0, <1>2, <2>1, <3>1
  <2>5. QED
    BY <1>17, <2>2, <2>3, <2>4 DEF Handing
<1>18. CASE Report \/ LinkLost \/ UNCHANGED vars
  <2>1. ReadsUp("R") /\ (net' = net \/ net' = [t \in Sides |-> <<>>])
    BY <1>18 DEF Report, LinkLost, Close, vars, ReadsUp
  <2>2. QED
    BY <1>0, <1>2, <2>1
<1>19. QED
  BY <1>0, <1>4, <1>5, <1>6, <1>7, <1>8, <1>9, <1>10, <1>11, <1>12, <1>13, <1>14, <1>15, <1>16,
     <1>17, <1>18 DEF Next, Step, Sender, Receiver, Typing

-----------------------------------------------------------------------------
(* Tokens and PINs.                                                        *)

\* The tasks do not go back to where they ask.
Asked == {"opening", "nonce", "token", "pin", "reply"}
Listing == {"list", "mistrusting"} \cup Filing("S") \cup Over("S")

Stages ==
    /\ at'["S"] \in Asked => at["S"] \in Asked
    /\ at'["S"] \in {"pin", "reply", "verify"} =>
          at["S"] \in {"pin", "reply", "verify"} \/ CheckReceiverToken
    /\ at["S"] \in Listing => at'["S"] \in Listing
    /\ at'["R"] \in {"nonce", "token"} => at["R"] \in {"nonce", "token"}
    /\ at'["R"] = "verify" => at["R"] = "verify" \/ CheckSenderToken
    /\ at'["R"] \in {"pin", "reply", "list"} =>
          at["R"] \in {"pin", "reply", "list"} \/ CheckSenderToken \/ CheckPin("R")
    /\ at'["R"] \in {"nonce", "token", "verify"} => at["R"] \in {"nonce", "token", "verify"}

LEMMA StepStages ==
    ASSUME TypeOK, [Next]_vars
    PROVE  Stages
<1> USE DEF Stages, Listing, Filing, Over, Asked
<1>0. at \in [Sides -> Places] /\ "S" \in Sides /\ "R" \in Sides /\ Other("S") = "R" /\ Other("R") = "S"
  BY TwoSides DEF TypeOK, Other, Sides
<1>1. CASE UNCHANGED at
  BY <1>1
<1>2. ASSUME NEW p, NEW q, at'["S"] \in {p, q}, at'["R"] = at["R"],
             q \in {"failed", "locked"} \/ (at["S"] = "chunks" /\ q = "files")
                \/ (at["S"] = "files" /\ q = "files"),
             \/ at["S"] = "opening" /\ p = "nonce"
             \/ at["S"] = "nonce" /\ p = "token"
             \/ at["S"] = "pin" /\ p = "reply"
             \/ at["S"] = "reply" /\ p \in {"pin", "verify", "list", "failed"}
             \/ at["S"] = "verify" /\ p \in {"verify", "list", "locked"}
             \/ at["S"] = "token" /\ CheckReceiverToken
             \/ at["S"] \in Listing /\ p \in Listing
             \/ p \in {"failed", "done"},
             at["S"] = "verify" \/ q # "locked"
      PROVE  Stages
  BY <1>0, <1>2
<1>3. ASSUME NEW p, NEW q, at'["R"] \in {p, q}, at'["S"] = at["S"],
             q \in {"failed", "locked"},
             \/ at["R"] = "nonce" /\ p = "token"
             \/ at["R"] = "pin" /\ p = "reply"
             \/ at["R"] \in {"reply", "list"} /\ p = "pin"
             \/ at["R"] = "token" /\ CheckSenderToken
             \/ p \notin {"nonce", "token", "verify", "pin", "reply", "list"}
      PROVE  Stages
  BY <1>0, <1>3
<1> HIDE DEF Stages
<1>4. ASSUME NEW s \in Sides, NEW p, GoTo(s, p)
      PROVE  at'[s] \in {p, "failed"} /\ at'[Other(s)] = at[Other(s)]
  BY <1>0, <1>4, TwoSides DEF GoTo
<1>5. ASSUME NEW s \in Sides, NEW p, NEW q, NEW ms, Send(s, ms, p, q)
      PROVE  at'[s] \in {p, q} /\ at'[Other(s)] = at[Other(s)]
  BY <1>5, SendMoves
<1>6. CASE \/ \E s \in Sides : Deliver(s) \/ StoreSlot(s) \/ Finish(s) \/ Fail(s)
           \/ ReceiveChunk \/ Report \/ LinkLost \/ UNCHANGED vars
  BY <1>1, <1>6 DEF Deliver, StoreSlot, Finish, Fail, ReceiveChunk, Report, LinkLost, vars
<1>7. ASSUME NEW s \in Sides, ParseError(s) PROVE Stages
  BY <1>2, <1>3, <1>4, <1>7, <1>0, TwoSides DEF ParseError
<1>8. ASSUME NEW s \in Sides, ReceiveNonce(s) PROVE Stages
  <2>1. at[s] = "nonce" /\ at'[s] \in {"token", "failed"} /\ at'[Other(s)] = at[Other(s)]
    <3>1. at[s] = "nonce" /\ \E ms : Send(s, ms, "token", "failed")
      BY <1>8 DEF ReceiveNonce, Reads
    <3>2. QED
      BY <1>5, <3>1
  <2>2. QED
    BY <1>0, <2>1, TwoSides DEF Stages
<1>9. ASSUME NEW s \in Sides, CheckPin(s) PROVE Stages
  <2>1. at[s] = "verify"
    BY <1>9 DEF CheckPin, Reads
  <2>2. /\ at'[s] \in {"list", "verify", "locked", "failed"}
        /\ at'[Other(s)] = at[Other(s)]
    BY <1>5, <1>9 DEF CheckPin
  <2>3. QED
    BY <1>0, <1>9, <2>1, <2>2, TwoSides DEF Stages
<1>10. ASSUME NEW s \in Sides, SendPin(s) PROVE Stages
  BY <1>2, <1>3, <1>5, <1>10, <1>0, TwoSides DEF SendPin
<1>11. ASSUME NEW s \in Sides, Flush(s) PROVE Stages
  <2>1. \/ /\ at[s] = "draining" /\ at'[s] \in {"last", "failed"}
        \/ /\ at[s] \in {"mistrusting", "refusing", "locked", "flushing"}
           /\ at'[s] \in {"failed", "done"}
    BY <1>4, <1>5, <1>11 DEF Flush
  <2>2. at'[Other(s)] = at[Other(s)]
    BY <1>4, <1>5, <1>11 DEF Flush
  <2>3. QED
    BY <1>0, <2>1, <2>2, TwoSides DEF Stages
<1>12. ASSUME ChallengeOrList
       PROVE  at'["S"] \in {"verify", "list", "failed"} /\ at'["R"] = at["R"]
  BY <1>0, <1>5, <1>12 DEF ChallengeOrList
<1>13. CASE Sender
  <2>1. CASE SendNonce
    BY <1>0, <1>2, <1>5, <2>1 DEF SendNonce
  <2>2. CASE CheckReceiverToken
    <3>1. at["S"] = "token" /\ at'["R"] = at["R"] /\ at'["S"] \in {"failed", "pin", "verify", "list"}
      BY <1>0, <1>4, <1>12, <2>2 DEF CheckReceiverToken, Reads, AskForPin
    <3>2. QED
      BY <2>2, <3>1 DEF Stages
  <2>3. CASE ReadPinStatus
    <3>1. at["S"] = "reply" /\ at'["R"] = at["R"] /\ at'["S"] \in {"failed", "pin", "verify", "list"}
      BY <1>0, <1>4, <1>12, <2>3 DEF ReadPinStatus, Reads, AskForPin
    <3>2. QED
      BY <3>1 DEF Stages
  <2>4. CASE ReadSelection
    <3>1. /\ at["S"] = "list" /\ at'["R"] = at["R"]
          /\ at'["S"] \in {"files", "done", "mistrusting", "list", "failed"}
      BY <1>0, <1>4, <1>5, <2>4 DEF ReadSelection, ReadsText
    <3>2. QED
      BY <3>1 DEF Stages
  <2>5. CASE ReadLast
    <3>1. at'["R"] = at["R"] /\ at'["S"] \in {"done", "failed"}
      BY <1>0, <1>4, <2>5 DEF ReadLast
    <3>2. QED
      BY <3>1 DEF Stages
  <2>6. QED
    BY <1>13, <2>1, <2>2, <2>3, <2>4, <2>5 DEF Sender
<1>14. CASE Receiver
  <2>1. CASE CheckSenderToken
    <3>1. at["R"] = "token" /\ at'["S"] = at["S"]
          /\ at'["R"] \in {"refusing", "list", "verify", "failed"}
      <4>1. at["R"] = "token"
        BY <2>1 DEF CheckSenderToken, Reads
      <4>2. \E p \in {"refusing", "list", "verify"} : \E ms : Send("R", ms, p, "failed")
        BY <2>1 DEF CheckSenderToken
      <4>3. QED
        BY <1>0, <1>5, <4>1, <4>2
    <3>2. QED
      BY <2>1, <3>1 DEF Stages
  <2>2. CASE ReadList
    <3>1. at["R"] \in {"reply", "list"} /\ at'["S"] = at["S"] /\ at'["R"] \in {"select", "pin", "failed"}
      BY <1>0, <1>4, <2>2 DEF ReadList, ReadsText, AskForPin
    <3>2. QED
      BY <3>1 DEF Stages
  <2>3. CASE ReadPairStatus \/ OpenStream \/ EndStream
    <3>1. at'["S"] = at["S"] /\ at'["R"] \in {"choose", "data", "result", "failed"}
      BY <1>0, <1>4, <2>3 DEF ReadPairStatus, OpenStream, EndStream
    <3>2. QED
      BY <3>1 DEF Stages
  <2>4. CASE Respond
    <3>1. at'["S"] = at["S"] /\ at'["R"] \in {"flushing", "header", "failed"}
      BY <1>0, <1>5, <2>4 DEF Respond
    <3>2. QED
      BY <3>1 DEF Stages
  <2>5. QED
    BY <1>6, <1>14, <2>1, <2>2, <2>3, <2>4 DEF Receiver
<1>15. CASE Deciding
  <2>1. at'["S"] = at["S"] /\ at'["R"] \in {"header", "done", "pairing", "failed"}
    BY <1>0, <1>4, <1>5, <1>15 DEF Deciding, Select, Decline, Abandon, AskToPair
  <2>2. QED
    BY <2>1 DEF Stages
<1>16. CASE Handing
  <2>1. \/ UNCHANGED at
        \/ /\ at["S"] \in {"files", "chunks"} /\ at'["R"] = at["R"]
           /\ at'["S"] \in {"files", "chunks", "draining", "failed"}
    <3>1. CASE SendFile
      BY <1>0, <1>5, <3>1 DEF SendFile
    <3>2. CASE SendChunk
      BY <1>0, <1>5, <3>2 DEF SendChunk
    <3>3. CASE EndFile
      <4>1. at["S"] = "chunks" /\ GoTo("S", "files")
        BY <3>3 DEF EndFile
      <4>2. QED
        BY <1>0, <1>4, <4>1
    <3>4. CASE EndFiles
      BY <1>0, <1>4, <3>4 DEF EndFiles
    <3>5. QED
      BY <1>16, <3>1, <3>2, <3>3, <3>4 DEF Handing
  <2>2. QED
    BY <1>1, <2>1 DEF Stages
<1>17. QED
  BY <1>6, <1>7, <1>8, <1>9, <1>10, <1>11, <1>13, <1>14, <1>15, <1>16 DEF Next, Step, Typing

\* What TokenInv says of one message.
Own(s, m) ==
    m.kind \in {"token", "tokenStatus"} =>
        \/ m.kind = "tokenStatus" /\ m.status = "InvalidSignature"
        \/ \E n \in Salts : m.token = generate_token_nonce(KeyOf(Other(s)), n)

LEMMA OwnTokens ==
    ASSUME TypeOK, TokenInv
    PROVE  \A s \in Sides : \A m \in Range(Pipe(s)) : Own(s, m)
BY PipeRange DEF TokenInv, Own

\* A pipe after a step.
LEMMA PipeRangeNext ==
    ASSUME TypeOK', NEW s \in Sides
    PROVE  Pipe(s)' \in Seq(Message) /\ Len(Pipe(s)') \in Nat
           /\ \A k \in 1..Len(Pipe(s)') : Pipe(s)'[k] \in Range(Pipe(s)')
<1>1. inbox'[s] \in Seq(Message) /\ net'[s] \in Seq(Message)
  BY DEF TypeOK
<1>2. Pipe(s)' \in Seq(Message)
  BY <1>1, ConcatProperties DEF Pipe
<1>3. QED
  BY <1>2, RangeOf, LenProperties

\* Three steps send the sender's texts.
LEMMA SenderTexts ==
    ASSUME TypeOK, CheckReceiverToken \/ ReadPinStatus \/ CheckPin("S")
    PROVE  /\ Grows("S", Quiet("S"))
           /\ Grows("R", {m \in Message : m.kind \in {"part", "delimiter"}})
           /\ \/ Grows("R", Quiet("R"))
              \/ /\ at'["S"] = "list"
                 /\ \/ CheckPin("S") /\ Head(inbox["S"]).pin = config.pin["S"]
                    \/ (CheckReceiverToken \/ ReadPinStatus) /\ config.pin["S"] \notin Guesses
<1> DEFINE Texts == {m \in Message : m.kind \in {"part", "delimiter"}}
           List == \/ CheckPin("S") /\ Head(inbox["S"]).pin = config.pin["S"]
                   \/ (CheckReceiverToken \/ ReadPinStatus) /\ config.pin["S"] \notin Guesses
<1>0. "S" \in Sides /\ "R" \in Sides /\ Other("S") = "R"
      /\ {"Ok", "PinRequired", "TooManyAttempts"} \subseteq Results
  BY DEF Sides, Other, Results
<1>1. ReadsUp("S")
  BY DEF CheckReceiverToken, ReadPinStatus, CheckPin, Reads, ReadsUp
<1>2. \A r \in Results, F \in SUBSET Files :
         /\ Range(Text(r, F)) \subseteq Texts
         /\ r # "Ok" => Range(Text(r, F)) \subseteq Quiet("R")
  <2> SUFFICES ASSUME NEW r \in Results, NEW F \in SUBSET Files
               PROVE  /\ Range(Text(r, F)) \subseteq Texts
                      /\ r # "Ok" => Range(Text(r, F)) \subseteq Quiet("R")
    OBVIOUS
  <2>1. Part(r, F, NoKey) \in Texts /\ Delimiter \in Texts
    BY DEF Part, Delimiter, Message
  <2>2. QED
    BY <2>1, RangeText, QuietText
<1>3. ASSUME NEW r \in Results, NEW F \in SUBSET Files, NEW a, NEW b, Send("S", Text(r, F), a, b)
      PROVE  Grows("S", {}) /\ Grows("R", Texts) /\ (r # "Ok" => Grows("R", Quiet("R")))
  <2>1. Text(r, F) \in Seq(Message)
    BY TextType
  <2>2. Grows(Other("S"), Range(Text(r, F))) /\ Grows("S", {})
    BY <1>0, <1>1, <1>3, <2>1, GrowsBySend
  <2>3. QED
    BY <1>0, <1>2, <2>2 DEF Grows
<1> HIDE DEF Texts
<1>4. ASSUME net' = net PROVE Grows("S", {}) /\ Grows("R", {})
  BY <1>0, <1>1, <1>4, GrowsByNone
<1>5. ASSUME NEW a, Send("S", Text("Ok", Files), a, "failed")
      PROVE  at'["S"] = a \/ Grows("R", Quiet("R"))
  <2>1. CASE link = "up"
    BY <1>0, <1>5, <2>1, SendMoves
  <2>2. CASE link # "up"
    <3>1. net' = net
      BY <1>5, <2>2 DEF Send
    <3>2. QED
      BY <1>4, <3>1 DEF Grows
  <2>3. QED
    BY <2>1, <2>2
<1>6. ASSUME ChallengeOrList
      PROVE  /\ Grows("S", {}) /\ Grows("R", Texts)
             /\ Grows("R", Quiet("R")) \/ (at'["S"] = "list" /\ config.pin["S"] \notin Guesses)
  <2>1. CASE config.pin["S"] \in Guesses
    <3>1. Send("S", Text("PinRequired", {}), "verify", "failed")
      BY <1>6, <2>1 DEF ChallengeOrList
    <3>2. QED
      BY <1>0, <1>3, <3>1
  <2>2. CASE config.pin["S"] \notin Guesses
    <3>1. Send("S", Text("Ok", Files), "list", "failed")
      BY <1>6, <2>2 DEF ChallengeOrList
    <3>2. QED
      BY <1>0, <1>3, <1>5, <2>2, <3>1
  <2>3. QED
    BY <2>1, <2>2
<1>7. CASE CheckReceiverToken \/ ReadPinStatus
  <2>1. net' = net \/ ChallengeOrList
    BY <1>7 DEF CheckReceiverToken, ReadPinStatus, AskForPin
  <2>2. CASE net' = net
    BY <1>4, <2>2 DEF Grows, Texts
  <2>3. CASE ChallengeOrList
    BY <1>6, <1>7, <2>3 DEF Grows, Texts
  <2>4. QED
    BY <2>1, <2>2, <2>3
<1>8. CASE CheckPin("S")
  <2>1. CASE Head(inbox["S"]).pin = config.pin["S"]
    <3>1. Send("S", Text("Ok", Files), "list", "failed")
      BY <1>8, <2>1 DEF CheckPin
    <3>2. Grows("S", {}) /\ Grows("R", Texts) /\ (at'["S"] = "list" \/ Grows("R", Quiet("R")))
      BY <1>0, <1>3, <1>5, <3>1
    <3>3. QED
      BY <1>8, <2>1, <3>2 DEF Grows, Texts
  <2>2. CASE Head(inbox["S"]).pin # config.pin["S"]
    <3>1. PICK r, a, b : r \in {"PinRequired", "TooManyAttempts"} /\ Send("S", Text(r, {}), a, b)
      BY <1>8, <2>2 DEF CheckPin, PinAnswer
    <3>2. Grows("S", {}) /\ Grows("R", Texts) /\ Grows("R", Quiet("R"))
      BY <1>0, <1>3, <3>1
    <3>3. QED
      BY <3>2 DEF Grows, Texts
  <2>3. QED
    BY <2>1, <2>2
<1>9. QED
  BY <1>7, <1>8

LEMMA TokenNext ==
    ASSUME TypeOK, TypeOK', HandedInv, ResultInv, TokenInv, [Next]_vars
    PROVE  TokenInv'
<1>0. "S" \in Sides /\ "R" \in Sides /\ Other("S") = "R" /\ Other("R") = "S"
      /\ \A s \in Sides : s = "S" \/ s = "R"
  BY DEF Sides, Other
<1>1. SUFFICES ASSUME NEW s \in Sides PROVE \A m \in Range(Pipe(s)') : Own(s, m)
  <2>1. \A s \in Sides : \A k \in 1..Len(Pipe(s)') : Own(s, Pipe(s)'[k])
    BY <1>1, PipeRangeNext
  <2>2. QED
    BY <2>1 DEF TokenInv, Own
<1>2. \A m \in Range(Pipe(s)) : Own(s, m)
  BY OwnTokens
<1>3. ASSUME NEW M, Grows(s, M), \A m \in M : Own(s, m)
      PROVE  \A m \in Range(Pipe(s)') : Own(s, m)
  BY <1>2, <1>3 DEF Grows
<1>4. \A m \in Quiet(s) : Own(s, m)
  BY DEF Quiet, Own
<1>5. CASE ReceiveNonce("S")
  <2> DEFINE n == NonceFor("S", Head(inbox["S"]).nonce)
             m == [kind |-> "token", token |-> generate_token_nonce(KeyOf("S"), n)]
  <2>1. ReadsUp("S") /\ Send("S", <<m>>, "token", "failed") /\ inbox["S"] # <<>>
        /\ Head(inbox["S"]).kind = "nonce"
    BY <1>5 DEF ReceiveNonce, Reads, ReadsUp
  <2>2. n \in Salts
    BY <1>0, <2>1, ReadType, MessageParts, TokenType
  <2>3. m \in Message /\ Own("R", m)
    <3> HIDE DEF n
    <3>1. generate_token_nonce(KeyOf("S"), n) \in Tokens
      BY <1>0, <2>2, TokenType
    <3>2. QED
      BY <1>0, <2>2, <3>1 DEF Own, Message
  <2> HIDE DEF m
  <2>4. Grows("R", {m}) /\ Grows("S", {})
    BY <1>0, <2>1, <2>3, OneMessage, RangeOne, GrowsBySend
  <2>5. QED
    BY <1>0, <1>3, <2>3, <2>4
<1>6. CASE CheckSenderToken
  <2> DEFINE token == generate_token_nonce(KeyOf("R"), nonce["R"])
             Answer(result) == [kind |-> "tokenStatus", status |-> result, token |-> token]
             refusal == [kind |-> "tokenStatus", status |-> "InvalidSignature", token |-> <<>>]
             M == {refusal, Answer("Ok"), Answer("PinRequired"), Status("pinStatus", "Ok")}
  <2>1. ReadsUp("R")
    BY <1>6 DEF CheckSenderToken, Reads, ReadsUp
  <2>2. nonce["R"] \in Salts /\ token \in Tokens
    BY TokenType, <1>0 DEF TypeOK
  <2>3. \A m \in M : m \in Message /\ Own("S", m)
    BY <1>0, <2>2 DEF Own, Message, Status, Results
  <2>4. \/ Send("R", <<refusal>>, "refusing", "failed")
        \/ Send("R", <<Answer("Ok")>>, "list", "failed")
        \/ Send("R", <<Answer("PinRequired")>>, "verify", "failed")
        \/ Send("R", <<Answer("PinRequired"), Status("pinStatus", "Ok")>>, "list", "failed")
    BY <1>6 DEF CheckSenderToken
  <2>5. PICK ms : /\ ms \in Seq(M) /\ Range(ms) \subseteq M
                  /\ \E a, b : Send("R", ms, a, b)
    <3> DEFINE x == Answer("PinRequired")
               y == Status("pinStatus", "Ok")
    <3>1. \A m \in M : <<m>> \in Seq(M) /\ Range(<<m>>) \subseteq M
      BY RangeOne
    <3>2. x \in M /\ y \in M
      OBVIOUS
    <3> HIDE DEF M, x, y
    <3>3. <<x, y>> \in Seq(M) /\ Range(<<x, y>>) \subseteq M
      BY <3>2, RangeTwo
    <3>4. QED
      BY <2>4, <3>1, <3>3 DEF M, x, y
  <2> HIDE DEF M
  <2>6. ms \in Seq(Message)
    BY <2>3, <2>5, SeqMonotonic
  <2>7. Grows("S", Range(ms)) /\ Grows("R", {})
    BY <1>0, <2>1, <2>5, <2>6, GrowsBySend
  <2>8. QED
    BY <1>0, <1>3, <2>3, <2>5, <2>7
<1>7. CASE CheckReceiverToken \/ ReadPinStatus \/ CheckPin("S")
  <2>1. /\ Grows("S", Quiet("S"))
        /\ Grows("R", {m \in Message : m.kind \in {"part", "delimiter"}})
    BY <1>7, SenderTexts
  <2>2. \A m \in {m \in Message : m.kind \in {"part", "delimiter"}} : Own("R", m)
    BY DEF Own
  <2>3. QED
    BY <1>0, <1>3, <1>4, <2>1, <2>2
<1>8. CASE /\ ~ReceiveNonce("S") /\ ~CheckSenderToken
           /\ ~CheckReceiverToken /\ ~ReadPinStatus /\ ~CheckPin("S")
  <2>1. Grows(s, Quiet(s))
    BY <1>8, StepQuiet DEF AllQuiet
  <2>2. QED
    BY <1>3, <1>4, <2>1
<1>9. QED
  BY <1>5, <1>6, <1>7, <1>8

\* A token of the other side's that a side takes is of the key it expects.
LEMMA TrustedBy ==
    ASSUME TypeOK, NEW s \in Sides, NEW n \in Salts,
           Trusts(s, generate_token_nonce(KeyOf(Other(s)), n))
    PROVE  Trusted(s)
<1> DEFINE key == KeyOf(Other(s))
           token == generate_token_nonce(key, n)
           e == config.expect[s]
<1>1. CASE e = NoKey
  BY <1>1 DEF Trusted
<1>2. CASE e # NoKey
  <2>1. verify_token_nonce(e, token, nonce[s])
    BY <1>2 DEF Trusts
  <2>2. token[5] = sign(e, token[2])
    BY <2>1 DEF verify_token_nonce, verify_token
  <2>3. token[5] = sign(key, token[2])
    BY DEF generate_token_nonce
  <2>4. \A x, y, d : sign(x, d) = sign(y, d) => x = y
    BY DEF sign
  <2> HIDE DEF key, token, e
  <2>5. e = key
    BY <2>2, <2>3, <2>4
  <2>6. QED
    BY <2>5 DEF Trusted, key, e
<1>3. QED
  BY <1>1, <1>2

\* An "Ok" text is on its way to the receiver.
Announced == \E m \in Range(Pipe("R")) : m.kind = "part" /\ m.status = "Ok"

LEMMA DemandIs ==
    ASSUME TypeOK
    PROVE  DemandInv <=>
              /\ at["S"] \in Asked => guess["S"] = ""
              /\ at["R"] \in {"nonce", "token"} => guess["R"] = ""
              /\ at["S"] \in {"pin", "reply", "verify"} => Trusted("S")
              /\ at["R"] = "verify" => Trusted("R")
              /\ at["R"] \in {"pin", "reply", "list"} => Demand("R")
              /\ listed => Demand("R") /\ at["R"] \notin {"nonce", "token", "verify"}
              /\ listed \/ Announced => Demand("S") /\ at["S"] \in Listing
<1>1. (\E k \in 1..Len(Pipe("R")) : Pipe("R")[k].kind = "part" /\ Pipe("R")[k].status = "Ok")
        <=> Announced
  <2>1. Range(Pipe("R")) = {Pipe("R")[k] : k \in 1..Len(Pipe("R"))}
    <3>1. Pipe("R") \in Seq(Message)
      BY PipeType, TwoSides
    <3>2. QED
      BY <3>1, RangeOf, Zenon
  <2>2. QED
    BY <2>1 DEF Announced
<1>2. QED
  BY <1>1 DEF DemandInv, Asked, Listing

LEMMA DemandIsNext ==
    ASSUME TypeOK',
           /\ at'["S"] \in Asked => guess'["S"] = ""
           /\ at'["R"] \in {"nonce", "token"} => guess'["R"] = ""
           /\ at'["S"] \in {"pin", "reply", "verify"} => Trusted("S")'
           /\ at'["R"] = "verify" => Trusted("R")'
           /\ at'["R"] \in {"pin", "reply", "list"} => Demand("R")'
           /\ listed' => Demand("R")' /\ at'["R"] \notin {"nonce", "token", "verify"}
           /\ listed' \/ Announced' => Demand("S")' /\ at'["S"] \in Listing
    PROVE  DemandInv'
<1>1. (\E k \in 1..Len(Pipe("R")') : Pipe("R")'[k].kind = "part" /\ Pipe("R")'[k].status = "Ok")
         => Announced'
  BY PipeRangeNext, TwoSides DEF Announced
<1>2. QED
  BY <1>1 DEF DemandInv, Asked, Listing

\* The demands depend on what the user set and was sent, and on no other state.
LEMMA DemandKept ==
    ASSUME NEW s \in Sides, config' = config
    PROVE  /\ Trusted(s)' <=> Trusted(s)
           /\ guess'[s] = guess[s] => (Demand(s)' <=> Demand(s))
BY DEF Trusted, Demand, KeyOf

LEMMA DemandNext ==
    ASSUME TypeOK, TypeOK', HandedInv, ResultInv, TokenInv, DemandInv, [Next]_vars
    PROVE  DemandInv'
<1>0. /\ "S" \in Sides /\ "R" \in Sides /\ Other("S") = "R" /\ Other("R") = "S"
      /\ at \in [Sides -> Places] /\ guess \in [Sides -> Guesses \cup {""}]
      /\ config.pin \in [Sides -> Guesses \cup {NoPin, ""}]
  BY DEF Sides, Other, TypeOK, Config
<1>1. Stages /\ Frame
  BY StepStages, StepFrame
<1>2. /\ at["S"] \in Asked => guess["S"] = ""
      /\ at["R"] \in {"nonce", "token"} => guess["R"] = ""
      /\ at["S"] \in {"pin", "reply", "verify"} => Trusted("S")
      /\ at["R"] = "verify" => Trusted("R")
      /\ at["R"] \in {"pin", "reply", "list"} => Demand("R")
      /\ listed => Demand("R") /\ at["R"] \notin {"nonce", "token", "verify"}
      /\ listed \/ Announced => Demand("S") /\ at["S"] \in Listing
  BY DemandIs
<1>3. config' = config
  BY <1>1 DEF Frame
<1>4. Grows("R", Quiet("R")) \/ Grows("R", {}) => (Announced' => Announced)
  BY DEF Grows, Quiet, Announced
<1>5. ASSUME NEW s \in Sides, guess' = guess
      PROVE  (Trusted(s)' <=> Trusted(s)) /\ (Demand(s)' <=> Demand(s))
  BY <1>3, <1>5, DemandKept
<1>6. CASE CheckSenderToken
  <2>1. /\ inbox["R"] # <<>> /\ at["R"] = "token" /\ at'["S"] = at["S"]
        /\ guess' = guess /\ listed' = listed
    <3>1. inbox["R"] # <<>> /\ at["R"] = "token"
      BY <1>6 DEF CheckSenderToken, Reads
    <3>2. UNCHANGED <<link, outcome, authVars, pinVars, fileVars>>
      BY <1>6 DEF CheckSenderToken
    <3>3. \E p, ms : Send("R", ms, p, "failed")
      BY <1>6 DEF CheckSenderToken
    <3>4. at'["S"] = at["S"]
      BY <1>0, <3>3, SendMoves
    <3>5. QED
      BY <3>1, <3>2, <3>4 DEF pinVars, fileVars
  <2>2. Head(inbox["R"]).kind = "token" /\ Own("R", Head(inbox["R"]))
    BY <1>0, <1>6, <2>1, HeadInPipe, OwnTokens DEF CheckSenderToken, Reads
  <2>3. PICK n \in Salts : Head(inbox["R"]).token = generate_token_nonce(KeyOf(Other("R")), n)
    BY <2>2 DEF Own
  <2>4. Trusts("R", Head(inbox["R"]).token) => Trusted("R")
    BY <1>0, <2>3, TrustedBy
  <2>5. /\ at'["R"] = "verify" => Trusted("R")
        /\ at'["R"] = "list" => Trusted("R") /\ config.pin["R"] \in {NoPin, ""}
        /\ at'["R"] \in {"verify", "list", "refusing", "failed"}
    <3>1. \/ \E ms : Send("R", ms, "refusing", "failed")
          \/ Trusts("R", Head(inbox["R"]).token) /\ \E ms : Send("R", ms, "verify", "failed")
          \/ /\ Trusts("R", Head(inbox["R"]).token) /\ config.pin["R"] \in {NoPin, ""}
             /\ \E ms : Send("R", ms, "list", "failed")
      BY <1>6 DEF CheckSenderToken
    <3>2. \A p, ms : Send("R", ms, p, "failed") => at'["R"] \in {p, "failed"}
      BY <1>0, SendMoves
    <3>3. \/ at'["R"] \in {"refusing", "failed"}
          \/ Trusts("R", Head(inbox["R"]).token) /\ at'["R"] \in {"verify", "failed"}
          \/ /\ Trusts("R", Head(inbox["R"]).token) /\ config.pin["R"] \in {NoPin, ""}
             /\ at'["R"] \in {"list", "failed"}
      BY <3>1, <3>2, Zenon
    <3>4. QED
      BY <2>4, <3>3
  <2>6. at'["R"] = "list" => Demand("R")
    BY <1>2, <2>1, <2>5 DEF Demand
  <2>7. Grows("R", {})
    <3>1. ReadsUp("R")
      BY <1>6 DEF CheckSenderToken, Reads, ReadsUp
    <3>2. net'["R"] = net["R"]
      <4>1. \E p, ms : Send("R", ms, p, "failed")
        BY <1>6 DEF CheckSenderToken
      <4>2. QED
        BY <1>0, <4>1, SendMoves
    <3>3. inbox'["R"] \in Seq(Message) /\ Range(inbox'["R"]) \subseteq Range(inbox["R"])
      BY <1>0, <3>1, RangeRead
    <3>4. \A p, q \in Seq(Message) : Range(p \o q) = Range(p) \cup Range(q)
      BY RangeOf
    <3>5. Range(Pipe("R")') = Range(inbox'["R"]) \cup Range(net["R"])
      BY <1>0, <3>2, <3>3, <3>4, PipeType DEF Pipe
    <3>6. QED
      BY <1>0, <3>3, <3>5, PipeRange DEF Grows
  <2>8. QED
    BY <1>0, <1>2, <1>4, <1>5, <2>1, <2>5, <2>6, <2>7, DemandIsNext DEF Asked, Listing, Filing, Over
<1>7. CASE CheckReceiverToken
  <2> DEFINE m == Head(inbox["S"])
  <2>1. /\ inbox["S"] # <<>> /\ at["S"] = "token" /\ m.kind = "tokenStatus"
        /\ guess' = guess /\ listed' = listed
    <3>1. UNCHANGED <<link, outcome, config, nonce, guess, tries, fileVars>>
      BY <1>7 DEF CheckReceiverToken
    <3>2. inbox["S"] # <<>> /\ at["S"] = "token" /\ m.kind = "tokenStatus"
      BY <1>7 DEF CheckReceiverToken, Reads
    <3>3. QED
      BY <3>1, <3>2 DEF fileVars
  <2>2. at'["R"] = at["R"] /\ at'["S"] \in {"failed", "pin", "verify", "list"}
        /\ (at'["S"] # "failed" => m.status # "InvalidSignature" /\ Trusts("S", m.token))
    <3>1. \/ GoTo("S", "failed")
          \/ m.status # "InvalidSignature" /\ Trusts("S", m.token) /\ (AskForPin("S") \/ ChallengeOrList)
      BY <1>7 DEF CheckReceiverToken
    <3>2. ASSUME ChallengeOrList
          PROVE  at'["S"] \in {"failed", "verify", "list"} /\ at'["R"] = at["R"]
      <4>1. PICK p \in {"verify", "list"} : \E ms : Send("S", ms, p, "failed")
        BY <3>2 DEF ChallengeOrList
      <4>2. at'["S"] \in {p, "failed"} /\ at'[Other("S")] = at[Other("S")]
        BY <1>0, <4>1, SendMoves
      <4>3. QED
        BY <1>0, <4>2
    <3>3. QED
      BY <1>0, <3>1, <3>2 DEF AskForPin, GoTo
  <2>3. at'["S"] # "failed" => Trusted("S")
    <3>1. Own("S", m)
      BY <1>0, <2>1, HeadInPipe, OwnTokens
    <3>2. ASSUME at'["S"] # "failed" PROVE Trusted("S")
      <4>1. PICK n \in Salts : m.token = generate_token_nonce(KeyOf(Other("S")), n)
        BY <2>1, <2>2, <3>1, <3>2 DEF Own
      <4>2. QED
        BY <1>0, <2>2, <3>2, <4>1, TrustedBy
    <3>3. QED
      BY <3>2
  <2>4. ~listed /\ ~Announced
    BY <1>2, <2>1 DEF Listing, Filing, Over
  <2>5. Announced' => at'["S"] = "list" /\ Demand("S")
    <3>1. ASSUME Announced' PROVE at'["S"] = "list" /\ Demand("S")
      <4>1. ~Grows("R", Quiet("R"))
        BY <1>4, <2>4, <3>1
      <4>2. at'["S"] = "list" /\ (config.pin["S"] \notin Guesses \/ CheckPin("S"))
        BY <1>7, <4>1, SenderTexts
      <4>3. ~CheckPin("S")
        BY <2>1 DEF CheckPin, Reads
      <4>4. Trusted("S") /\ guess["S"] = ""
        BY <1>2, <2>1, <2>3, <4>2 DEF Asked
      <4>5. QED
        BY <1>0, <4>2, <4>3, <4>4 DEF Demand
    <3>2. QED
      BY <3>1
  <2>6. QED
    BY <1>0, <1>2, <1>5, <2>1, <2>2, <2>3, <2>4, <2>5, DemandIsNext DEF Asked, Listing, Filing, Over
<1>8. CASE ReadPinStatus
  <2>1. /\ at["S"] = "reply" /\ guess' = guess /\ listed' = listed
    <3>1. UNCHANGED <<link, outcome, authVars, guess, tries, fileVars>>
      BY <1>8 DEF ReadPinStatus
    <3>2. QED
      BY <1>8, <3>1 DEF fileVars, ReadPinStatus, Reads
  <2>2. at'["R"] = at["R"] /\ at'["S"] \in {"failed", "pin", "verify", "list"}
    <3>1. GoTo("S", "failed") \/ AskForPin("S") \/ ChallengeOrList
      BY <1>8 DEF ReadPinStatus
    <3>2. ASSUME ChallengeOrList
          PROVE  at'["S"] \in {"failed", "verify", "list"} /\ at'["R"] = at["R"]
      <4>1. PICK p \in {"verify", "list"} : \E ms : Send("S", ms, p, "failed")
        BY <3>2 DEF ChallengeOrList
      <4>2. at'["S"] \in {p, "failed"} /\ at'[Other("S")] = at[Other("S")]
        BY <1>0, <4>1, SendMoves
      <4>3. QED
        BY <1>0, <4>2
    <3>3. QED
      BY <1>0, <3>1, <3>2 DEF AskForPin, GoTo
  <2>3. ~listed /\ ~Announced /\ Trusted("S") /\ guess["S"] = ""
    BY <1>2, <2>1 DEF Listing, Filing, Over, Asked
  <2>4. Announced' => at'["S"] = "list" /\ Demand("S")
    <3>1. ASSUME Announced' PROVE at'["S"] = "list" /\ Demand("S")
      <4>1. ~Grows("R", Quiet("R"))
        BY <1>4, <2>3, <3>1
      <4>2. at'["S"] = "list" /\ (config.pin["S"] \notin Guesses \/ CheckPin("S"))
        BY <1>8, <4>1, SenderTexts
      <4>3. ~CheckPin("S")
        BY <2>1 DEF CheckPin, Reads
      <4>4. QED
        BY <1>0, <2>3, <4>2, <4>3 DEF Demand
    <3>2. QED
      BY <3>1
  <2>5. QED
    BY <1>0, <1>2, <1>5, <2>1, <2>2, <2>3, <2>4, DemandIsNext DEF Asked, Listing, Filing, Over
<1>9. ASSUME NEW s \in Sides, CheckPin(s)
      PROVE  /\ at[s] = "verify" /\ at'[Other(s)] = at[Other(s)]
             /\ at'[s] \in {"list", "verify", "locked", "failed"}
             /\ at'[s] = "list" => Head(inbox[s]).pin = config.pin[s]
             /\ guess' = [guess EXCEPT ![s] = Head(inbox[s]).pin]
             /\ listed' = listed
  <2>1. at[s] = "verify" /\ guess' = [guess EXCEPT ![s] = Head(inbox[s]).pin]
    BY <1>9 DEF CheckPin, Reads
  <2>2. UNCHANGED <<link, outcome, authVars, slot, fileVars>>
    BY <1>9 DEF CheckPin
  <2>3. \/ Head(inbox[s]).pin = config.pin[s] /\ \E ms : Send(s, ms, "list", "failed")
        \/ \E ms : Send(s, ms, "verify", "failed")
        \/ \E ms : Send(s, ms, "locked", "locked")
    BY <1>9 DEF CheckPin
  <2>4. \A p, q, ms : Send(s, ms, p, q) => at'[s] \in {p, q} /\ at'[Other(s)] = at[Other(s)]
    BY SendMoves
  <2>5. QED
    BY <2>1, <2>2, <2>3, <2>4 DEF fileVars
<1>10. CASE CheckPin("S")
  <2>1. /\ at["S"] = "verify" /\ at'["R"] = at["R"] /\ listed' = listed
        /\ at'["S"] \in {"list", "verify", "locked", "failed"}
        /\ at'["S"] = "list" => Head(inbox["S"]).pin = config.pin["S"]
        /\ guess'["S"] = Head(inbox["S"]).pin /\ guess'["R"] = guess["R"]
    <3>1. /\ at["S"] = "verify" /\ at'[Other("S")] = at[Other("S")]
          /\ at'["S"] \in {"list", "verify", "locked", "failed"}
          /\ at'["S"] = "list" => Head(inbox["S"]).pin = config.pin["S"]
          /\ guess' = [guess EXCEPT !["S"] = Head(inbox["S"]).pin]
          /\ listed' = listed
      BY <1>0, <1>9, <1>10
    <3>2. QED
      BY <1>0, <3>1
  <2>2. ~listed /\ ~Announced /\ Trusted("S")
    BY <1>2, <2>1 DEF Listing, Filing, Over
  <2>3. Trusted("S")' /\ (Trusted("R")' <=> Trusted("R")) /\ (Demand("R")' <=> Demand("R"))
    BY <1>0, <1>3, <2>1, <2>2, DemandKept
  <2>4. at'["S"] = "list" => Demand("S")'
    BY <1>3, <2>1, <2>3 DEF Demand
  <2>5. Announced' => at'["S"] = "list"
    BY <1>4, <1>10, <2>2, SenderTexts
  <2>6. QED
    BY <1>2, <2>1, <2>2, <2>3, <2>4, <2>5, DemandIsNext DEF Asked, Listing, Filing, Over
<1>11. CASE CheckPin("R")
  <2>1. /\ at["R"] = "verify" /\ at'["S"] = at["S"] /\ listed' = listed
        /\ at'["R"] \in {"list", "verify", "locked", "failed"}
        /\ at'["R"] = "list" => Head(inbox["R"]).pin = config.pin["R"]
        /\ guess'["R"] = Head(inbox["R"]).pin /\ guess'["S"] = guess["S"]
    <3>1. /\ at["R"] = "verify" /\ at'[Other("R")] = at[Other("R")]
          /\ at'["R"] \in {"list", "verify", "locked", "failed"}
          /\ at'["R"] = "list" => Head(inbox["R"]).pin = config.pin["R"]
          /\ guess' = [guess EXCEPT !["R"] = Head(inbox["R"]).pin]
          /\ listed' = listed
      BY <1>0, <1>9, <1>11
    <3>2. QED
      BY <1>0, <3>1
  <2>2. ~listed /\ Trusted("R")
    BY <1>2, <2>1
  <2>3. Trusted("R")' /\ (Trusted("S")' <=> Trusted("S")) /\ (Demand("S")' <=> Demand("S"))
    BY <1>0, <1>3, <2>1, <2>2, DemandKept
  <2>4. at'["R"] = "list" => Demand("R")'
    BY <1>3, <2>1, <2>3 DEF Demand
  <2>5. Announced' => Announced
    <3>1. ~ReceiveNonce("S") \/ Grows("R", Quiet("R"))
      <4>1. ReceiveNonce("S") => at["S"] = "nonce" /\ at'["S"] \in {"token", "failed"}
        <5>1. ReceiveNonce("S") => at["S"] = "nonce" /\ \E ms : Send("S", ms, "token", "failed")
          BY DEF ReceiveNonce, Reads
        <5>2. QED
          BY <1>0, <5>1, SendMoves
      <4>2. QED
        BY <2>1, <4>1
    <3>2. ~CheckSenderToken /\ ~CheckReceiverToken /\ ~ReadPinStatus /\ ~CheckPin("S")
      <4>1. CheckSenderToken => at["R"] = "token"
        BY DEF CheckSenderToken, Reads
      <4>2. CheckReceiverToken \/ ReadPinStatus \/ CheckPin("S") => inbox'["R"] = inbox["R"]
        <5>1. CheckReceiverToken \/ ReadPinStatus \/ CheckPin("S") => inbox' = [inbox EXCEPT !["S"] = Tail(@)]
          BY DEF CheckReceiverToken, ReadPinStatus, CheckPin, Reads
        <5>2. QED
          BY <1>0, <5>1 DEF TypeOK
      <4>3. inbox'["R"] = Tail(inbox["R"]) /\ inbox["R"] # <<>>
        BY <1>0, <1>11, ZenonT(60) DEF CheckPin, Reads, TypeOK
      <4>4. inbox'["R"] # inbox["R"]
        <5>1. inbox["R"] \in Seq(Message)
          BY <1>0 DEF TypeOK
        <5>2. Len(Tail(inbox["R"])) = Len(inbox["R"]) - 1
          BY <4>3, <5>1, HeadTailProperties, Zenon
        <5>3. Len(inbox["R"]) \in Nat
          BY <5>1, LenProperties
        <5>4. \A l \in Nat : l - 1 # l
          OBVIOUS
        <5>5. QED
          BY <4>3, <5>2, <5>3, <5>4, Zenon
      <4>5. QED
        BY <2>1, <4>1, <4>2, <4>4
    <3>3. QED
      BY <1>0, <1>4, <3>1, <3>2, StepQuiet DEF AllQuiet
  <2>6. QED
    BY <1>2, <2>1, <2>2, <2>3, <2>4, <2>5, DemandIsNext DEF Asked, Listing, Filing, Over
<1>12. CASE /\ ~CheckSenderToken /\ ~CheckReceiverToken /\ ~ReadPinStatus
            /\ ~CheckPin("S") /\ ~CheckPin("R")
  <2>1. guess' = guess
    BY <1>1, <1>12 DEF Frame, Sides
  <2>2. Announced' => Announced
    <3>1. CASE ReceiveNonce("S")
      <4> DEFINE m == [kind |-> "token",
                       token |-> generate_token_nonce(KeyOf("S"), NonceFor("S", Head(inbox["S"]).nonce))]
      <4>1. ReadsUp("S") /\ Send("S", <<m>>, "token", "failed")
        BY <3>1 DEF ReceiveNonce, Reads, ReadsUp
      <4>2. m \in Message
        <5>1. inbox["S"] # <<>> /\ Head(inbox["S"]).kind = "nonce"
          BY <3>1 DEF ReceiveNonce, Reads
        <5>2. NonceFor("S", Head(inbox["S"]).nonce) \in Salts
          BY <1>0, <5>1, ReadType, MessageParts, TokenType
        <5> DEFINE n == NonceFor("S", Head(inbox["S"]).nonce)
        <5> HIDE DEF n
        <5>3. generate_token_nonce(KeyOf("S"), n) \in Tokens
          BY <1>0, <5>2, TokenType DEF n
        <5>4. QED
          BY <5>3 DEF Message, n
      <4>3. m.kind = "token"
        OBVIOUS
      <4> HIDE DEF m
      <4>4. Grows("R", {m})
        BY <1>0, <4>1, <4>2, OneMessage, RangeOne, GrowsBySend
      <4>5. QED
        BY <4>3, <4>4 DEF Grows, Announced
    <3>2. CASE ~ReceiveNonce("S")
      BY <1>0, <1>4, <1>12, <3>2, StepQuiet DEF AllQuiet
    <3>3. QED
      BY <3>1, <3>2
  <2>3. listed' # listed =>
           Announced /\ at["R"] \in {"pin", "reply", "list"} /\ at'["R"] = "select"
    <3>1. ASSUME listed' # listed
          PROVE  Announced /\ at["R"] \in {"pin", "reply", "list"} /\ at'["R"] = "select"
      <4>1. ReadList
        BY <1>1, <3>1 DEF Frame
      <4>2. /\ at["R"] \in {"list", "reply"}
            /\ Len(inbox["R"]) >= 2 /\ inbox["R"][1].kind = "part"
        BY <4>1 DEF ReadList, ReadsText
      <4>3. Head(inbox["R"]).status = "Ok" /\ GoTo("R", "select")
        BY <3>1, <4>1 DEF ReadList
      <4>4. inbox["R"] # <<>> /\ Head(inbox["R"]) = inbox["R"][1]
        BY <1>0, <4>2, ReadTextType
      <4>5. Head(inbox["R"]) \in Range(Pipe("R"))
        BY <1>0, <4>4, HeadInPipe
      <4>6. at'["R"] = "select"
        BY <1>0, <4>3 DEF GoTo
      <4>7. QED
        BY <4>2, <4>3, <4>4, <4>5, <4>6 DEF Announced
    <3>2. QED
      BY <3>1
  <2>4. /\ Trusted("S")' <=> Trusted("S")
        /\ Trusted("R")' <=> Trusted("R")
        /\ Demand("S")' <=> Demand("S")
        /\ Demand("R")' <=> Demand("R")
    BY <1>0, <1>5, <2>1
  <2>5. /\ at'["S"] \in Asked => at["S"] \in Asked
        /\ at'["S"] \in {"pin", "reply", "verify"} => at["S"] \in {"pin", "reply", "verify"}
        /\ at["S"] \in Listing => at'["S"] \in Listing
        /\ at'["R"] \in {"nonce", "token"} => at["R"] \in {"nonce", "token"}
        /\ at'["R"] = "verify" => at["R"] = "verify"
        /\ at'["R"] \in {"pin", "reply", "list"} => at["R"] \in {"pin", "reply", "list"}
        /\ at'["R"] \in {"nonce", "token", "verify"} => at["R"] \in {"nonce", "token", "verify"}
    BY <1>1, <1>12 DEF Stages
  <2>6. listed' =>
          Demand("R") /\ at'["R"] \notin {"nonce", "token", "verify"} /\ (listed \/ Announced)
    BY <1>2, <2>3, <2>5
  <2>7. QED
    BY <1>2, <2>1, <2>2, <2>4, <2>5, <2>6, DemandIsNext
<1>13. QED
  BY <1>6, <1>7, <1>8, <1>10, <1>11, <1>12

-----------------------------------------------------------------------------
(* The inductive invariant, without what is in the receiver's streams.     *)

CoreInv == TypeOK /\ TokenInv /\ DemandInv /\ HandedInv /\ ResultInv

LEMMA CoreInit == Init => CoreInv
<1> SUFFICES ASSUME Init PROVE CoreInv
  OBVIOUS
<1>1. TypeOK
  BY TypeInit
<1>2. "S" \in Sides /\ "R" \in Sides /\ at["S"] = "opening" /\ at["R"] = "nonce"
  BY DEF Sides, Init
<1>3. /\ handed = <<>> /\ streams = <<>> /\ results = <<>> /\ confirmed = {} /\ chosen = {}
      /\ ~listed /\ guess = [s \in Sides |-> ""]
  BY DEF Init
<1>4. \A s \in Sides : Pipe(s) = <<>> /\ Len(Pipe(s)) = 0
  <2>1. <<>> \in Seq(Message) /\ <<>> \o <<>> = <<>> /\ Len(<<>>) = 0
    BY ConcatEmptySeq, EmptySeq
  <2>2. \A s \in Sides : Pipe(s) = <<>>
    BY <2>1 DEF Init, Pipe
  <2>3. QED
    BY <2>1, <2>2
<1>5. TokenInv
  BY <1>4 DEF TokenInv
<1>6. DemandInv
  <2>1. \A k \in 1..Len(Pipe("R")) : FALSE
    BY <1>2, <1>4
  <2>2. QED
    BY <1>2, <1>3, <2>1 DEF DemandInv
<1>7. HandedInv
  <2>1. at["S"] # "chunks" /\ \A i \in 1..Len(handed) : FALSE
    <3>1. Len(handed) = 0
      BY <1>3
    <3>2. QED
      BY <1>2, <3>1
  <2>2. QED
    BY <1>3, <2>1 DEF HandedInv
<1>8. ResultInv
  <2>1. \A i \in 1..Len(streams) : FALSE
    <3>1. Len(streams) = 0
      BY <1>3
    <3>2. QED
      BY <3>1
  <2>2. QED
    BY <1>2, <1>3, <2>1 DEF ResultInv
<1>9. QED
  BY <1>1, <1>5, <1>6, <1>7, <1>8 DEF CoreInv

LEMMA CoreNext ==
    ASSUME CoreInv, [Next]_vars
    PROVE  CoreInv'
<1>1. TypeOK'
  BY TypeNext DEF CoreInv
<1>2. QED
  BY <1>1, HandedNext, ResultNext, TokenNext, DemandNext DEF CoreInv

LEMMA CoreHolds == Spec => []CoreInv
<1>1. Init => CoreInv
  BY CoreInit
<1>2. CoreInv /\ [Next]_vars => CoreInv'
  BY CoreNext
<1>3. QED
  BY <1>1, <1>2, PTL DEF Spec

-----------------------------------------------------------------------------
(* The theorems.                                                           *)

\* The state both tasks work on keeps its types, whatever the users have set,
\* however many files there are and whenever the connection is lost.
THEOREM TypeCorrect == Spec => []TypeOK
<1>1. CoreInv => TypeOK
  BY DEF CoreInv
<1>2. QED
  BY <1>1, CoreHolds, PTL

\* The receiver's app has the file list only when each side that expects a key
\* has checked a token of it and each side with a PIN has been sent that PIN:
\* the receiver's demands are met before it reads a text, and the sender's
\* before it sends the one text that bears "Ok".
THEOREM ListIsGuarded == Spec => []GuardedList
<1>1. CoreInv => GuardedList
  BY TwoSides DEF CoreInv, DemandInv, GuardedList
<1>2. QED
  BY <1>1, CoreHolds, PTL

LEMMA PromisedInit == Init => Promised!Init
<1> SUFFICES ASSUME Init PROVE Promised!Init
  OBVIOUS
<1>1. chosen = {} /\ confirmed = {} /\ streams = <<>>
  BY DEF Init
<1>2. Done = {}
  <2>1. DOMAIN <<>> = {}
    OBVIOUS
  <2>2. QED
    BY <1>1, <2>1 DEF Done
<1>3. QED
  BY <1>1, <1>2 DEF Promised!Init

\* What has a result of success stays so, and a report adds one file.
LEMMA PromisedStep ==
    ASSUME CoreInv, CoreInv', [Next]_vars
    PROVE  [Promised!Next]_(Promised!vars)
<1> DEFINE A == [t \in {"rtc"} |-> chosen]
           S == [t \in {"rtc"} |-> Done]
           C == [t \in {"rtc"} |-> confirmed]
<1>0. "S" \in Sides /\ "R" \in Sides /\ Other("R") = "S" /\ TypeOK /\ ResultInv /\ TypeOK'
  BY DEF Sides, Other, CoreInv
<1>1. Frame
  BY StepFrame
<1>2. ASSUME chosen' = chosen, Done' = Done, confirmed' = confirmed
      PROVE  [Promised!Next]_(Promised!vars)
  BY <1>2 DEF Promised!vars
<1>3. CASE Select
  <2>1. PICK files \in SUBSET Files : chosen' = files
    BY <1>3 DEF Select
  <2>2. at["R"] \in Early("R") /\ UNCHANGED <<streams, confirmed>>
    BY <1>3 DEF Select, Early
  <2>3. chosen = {} /\ Done' = Done
    BY <1>0, <2>2 DEF ResultInv, Done
  <2>4. CASE files = {}
    BY <1>2, <2>1, <2>2, <2>3, <2>4
  <2>5. CASE files # {}
    <3>1. Promised!Accept("rtc", files)
      BY <2>1, <2>2, <2>3, <2>5 DEF Promised!Accept
    <3>2. QED
      BY <3>1 DEF Promised!Next
  <2>6. QED
    BY <2>4, <2>5
<1>4. CASE Report
  <2>1. UNCHANGED <<chosen, confirmed>>
    BY <1>4 DEF Report
  <2>2. PICK i \in 1..Len(streams), e \in Stream :
           /\ Len(streams') = Len(streams)
           /\ \A j \in 1..Len(streams) : streams'[j] = IF j = i THEN e ELSE streams[j]
           /\ e.file = streams[i].file
           /\ streams[i].result = "none"
    <3>1. ~ReceiveChunk /\ ~EndStream
      <4>1. (ReceiveChunk => results' = results) /\ (EndStream => results' = results)
        BY DEF ReceiveChunk, EndStream
      <4>2. results' # results
        <5>1. PICK r \in {"success", "failure"} : results' = Append(results, r)
          BY <1>4 DEF Report
        <5>2. results \in Seq({"success", "failure"})
          BY <1>0 DEF TypeOK
        <5>3. Len(results') = Len(results) + 1 /\ Len(results) \in Nat
          BY <5>1, <5>2, AppendProperties, LenProperties
        <5>4. QED
          BY <5>3
      <4>3. QED
        BY <4>1, <4>2
    <3>2. QED
      BY <1>0, <1>4, <3>1, StreamStep
  <2>3. e.file \in Files
    BY DEF Stream
  <2>4. Done' = IF e.result = "success" THEN Done \cup {e.file} ELSE Done
    <3>1. \A f : f \in Done' <=> f \in Done \/ (e.result = "success" /\ f = e.file)
      BY <1>0, <2>2, DoneIs
    <3>2. QED
      BY <3>1
  <2>5. CASE e.result = "success"
    <3>1. e.file \in chosen
      BY <1>0, <2>2 DEF ResultInv
    <3>2. Promised!Save("rtc", e.file)
      BY <2>1, <2>4, <2>5, <3>1 DEF Promised!Save
    <3>3. QED
      BY <2>3, <3>2 DEF Promised!Next
  <2>6. CASE e.result # "success"
    BY <1>2, <2>1, <2>4, <2>6
  <2>7. QED
    BY <2>5, <2>6
<1>5. CASE Respond
  <2> DEFINE f == streams[Len(streams)].file
  <2>1. /\ UNCHANGED <<chosen, streams>> /\ at["R"] = "result" /\ results # <<>>
        /\ confirmed' = IF IsGood(Head(results)) THEN confirmed \cup {f} ELSE confirmed
    BY <1>5 DEF Respond
  <2>2. Done' = Done
    BY <2>1 DEF Done
  <2>3. CASE IsGood(Head(results))
    <3>1. streams # <<>> /\ results = IF streams[Len(streams)].result = "none" THEN <<>>
                                      ELSE <<streams[Len(streams)].result>>
      BY <1>0, <2>1 DEF ResultInv
    <3>2. streams[Len(streams)].result = "success"
      BY <2>1, <2>3, <3>1 DEF IsGood
    <3>3. Len(streams) \in DOMAIN streams /\ streams[Len(streams)] \in Stream
      <4>1. streams \in Seq(Stream) /\ Len(streams) \in Nat /\ Len(streams) # 0
        BY <1>0, <3>1, EmptySeq, LenProperties DEF TypeOK
      <4>2. Len(streams) \in 1..Len(streams) /\ DOMAIN streams = 1..Len(streams)
        BY <4>1, LenProperties
      <4>3. QED
        BY <4>1, <4>2, ElementOfSeq
    <3>4. f \in Done /\ f \in Files
      BY <3>2, <3>3 DEF Done, Stream
    <3>5. Promised!Acknowledge("rtc", f)
      BY <2>1, <2>2, <2>3, <3>4 DEF Promised!Acknowledge
    <3>6. QED
      BY <3>4, <3>5 DEF Promised!Next
  <2>4. CASE ~IsGood(Head(results))
    BY <1>2, <2>1, <2>2, <2>4
  <2>5. QED
    BY <2>3, <2>4
<1>6. CASE ~Select /\ ~Report /\ ~Respond
  <2>1. chosen' = chosen /\ confirmed' = confirmed
    BY <1>1, <1>6 DEF Frame
  <2>2. Done' = Done
    <3>1. CASE streams' = streams
      BY <3>1 DEF Done
    <3>2. CASE OpenStream
      <4>1. /\ Len(streams) \in Nat /\ Len(streams') = Len(streams) + 1
            /\ \A i \in 1..Len(streams) : streams'[i] = streams[i]
            /\ streams'[Len(streams) + 1].result = "none"
        BY <1>0, <3>2, OpenStep
      <4>2. \A f : f \in Done' <=> f \in Done
        BY <1>0, <4>1, DoneIs
      <4>3. QED
        BY <4>2
    <3>3. CASE ReceiveChunk \/ EndStream
      <4>1. PICK i \in 1..Len(streams), e \in Stream :
               /\ Len(streams') = Len(streams)
               /\ \A j \in 1..Len(streams) : streams'[j] = IF j = i THEN e ELSE streams[j]
               /\ e.file = streams[i].file
               /\ e.result = streams[i].result
        BY <1>0, <1>6, <3>3, StreamStep
      <4>2. \A f : f \in Done' <=> f \in Done
        BY <1>0, <4>1, DoneIs
      <4>3. QED
        BY <4>2
    <3>4. QED
      BY <1>1, <1>6, <3>1, <3>2, <3>3 DEF Frame
  <2>3. QED
    BY <1>2, <2>1, <2>2
<1>7. QED
  BY <1>3, <1>4, <1>5, <1>6

\* The transfer implements what FileTransfer promises: a file the sender is told
\* of is one the receiver's app has, and one its user selected.
THEOREM ImplementsPromise == Spec => ImplementsFileTransfer
<1>1. Init => Promised!Init
  BY PromisedInit
<1>2. CoreInv /\ CoreInv' /\ [Next]_vars => [Promised!Next]_(Promised!vars)
  BY PromisedStep
<1>3. QED
  BY <1>1, <1>2, CoreHolds, PTL DEF Spec, ImplementsFileTransfer, Promised!Spec

-----------------------------------------------------------------------------
(***************************************************************************)
(* The streams of the receiving app are the files of the sending one,      *)
(* StreamsMatch, for every set of files, sizes and settings.  What is on   *)
(* its way is numbered: each message of the receiver's pipe follows the    *)
(* one before it, the first one follows what the receiver has read, and    *)
(* the last one is the last the sender wrote.                              *)
(***************************************************************************)

(* What a step does to the receiver's pipe.                                *)

LEMMA TheSides ==
    "S" \in Sides /\ "R" \in Sides /\ Other("S") = "R" /\ Other("R") = "S"
    /\ \A s \in Sides : s = "S" \/ s = "R"
BY DEF Sides, Other

\* The receiver has read so many messages.
Takes(n) ==
    /\ Len(Pipe("R")') = Len(Pipe("R")) - n
    /\ \A k \in 1..(Len(Pipe("R")) - n) : Pipe("R")'[k] = Pipe("R")[k + n]

\* These messages have been sent to it.
Gets(ms) ==
    /\ Len(Pipe("R")') = Len(Pipe("R")) + Len(ms)
    /\ \A k \in 1..Len(Pipe("R")) : Pipe("R")'[k] = Pipe("R")[k]
    /\ \A k \in 1..Len(ms) : Pipe("R")'[Len(Pipe("R")) + k] = ms[k]

\* What was on its way is lost.
Loses ==
    /\ Len(Pipe("R")') <= Len(Pipe("R"))
    /\ \A k \in 1..Len(Pipe("R")') : Pipe("R")'[k] = Pipe("R")[k]

LEMMA TakesNone ==
    ASSUME TypeOK, Pipe("R")' = Pipe("R")
    PROVE  Takes(0)
<1>1. Len(Pipe("R")) \in Nat
  BY PipeType, TheSides
<1>2. QED
  BY <1>1 DEF Takes

LEMMA TakesOne ==
    ASSUME TypeOK, inbox["R"] # <<>>, inbox'["R"] = Tail(inbox["R"]), net'["R"] = net["R"]
    PROVE  /\ Takes(1) /\ Len(Pipe("R")) >= 1 /\ Pipe("R")[1] = Head(inbox["R"])
BY PipeRead, TheSides DEF Takes

LEMMA TailConcat ==
    ASSUME NEW T, NEW p \in Seq(T), NEW q \in Seq(T), p # <<>>
    PROVE  Tail(p) \o q = Tail(p \o q) /\ p \o q \in Seq(T) /\ p \o q # <<>>
<1> DEFINE pq == p \o q
           t == Tail(p)
<1>1. Len(p) \in Nat /\ Len(q) \in Nat /\ Len(p) # 0
  BY EmptySeq, LenProperties
<1>2. /\ t \in Seq(T) /\ Len(t) = Len(p) - 1
      /\ \A i \in 1..Len(t) : t[i] = p[i + 1]
  BY HeadTailProperties
<1>3. /\ pq \in Seq(T) /\ Len(pq) = Len(p) + Len(q)
      /\ \A i \in 1..(Len(p) + Len(q)) : pq[i] = IF i <= Len(p) THEN p[i] ELSE q[i - Len(p)]
  BY ConcatProperties
<1> DEFINE u == Tail(pq)
           v == t \o q
<1>4. pq # <<>>
  <2>1. Len(pq) # 0
    BY <1>1, <1>3
  <2>2. QED
    BY <2>1, EmptySeq
<1>5. /\ u \in Seq(T) /\ Len(u) = Len(pq) - 1
      /\ \A i \in 1..Len(u) : u[i] = pq[i + 1]
  BY <1>3, <1>4, HeadTailProperties
<1>6. /\ v \in Seq(T) /\ Len(v) = Len(t) + Len(q)
      /\ \A i \in 1..(Len(t) + Len(q)) : v[i] = IF i <= Len(t) THEN t[i] ELSE q[i - Len(t)]
  BY <1>2, ConcatProperties
<1> HIDE DEF pq, t, u, v
<1>7. Len(u) = Len(v)
  BY <1>1, <1>2, <1>3, <1>5, <1>6
<1>8. ASSUME NEW i \in 1..Len(v) PROVE v[i] = u[i]
  <2>1. i \in Nat /\ i >= 1 /\ i <= Len(p) + Len(q) - 1 /\ u[i] = pq[i + 1]
    BY <1>1, <1>2, <1>3, <1>5, <1>6
  <2>2. CASE i <= Len(p) - 1
    <3>1. v[i] = p[i + 1]
      BY <1>1, <1>2, <1>6, <2>1, <2>2
    <3>2. pq[i + 1] = p[i + 1]
      BY <1>1, <1>3, <2>1, <2>2
    <3>3. QED
      BY <2>1, <3>1, <3>2
  <2>3. CASE i > Len(p) - 1
    <3>1. v[i] = q[i - (Len(p) - 1)]
      BY <1>1, <1>2, <1>6, <2>1, <2>3
    <3>2. pq[i + 1] = q[i + 1 - Len(p)]
      BY <1>1, <1>3, <2>1, <2>3
    <3>3. i - (Len(p) - 1) = i + 1 - Len(p)
      BY <1>1, <2>1
    <3>4. QED
      BY <2>1, <3>1, <3>2, <3>3
  <2>4. QED
    BY <1>1, <2>1, <2>2, <2>3
<1>9. v = u
  BY <1>5, <1>6, <1>7, <1>8, SeqEqual
<1>10. QED
  BY <1>3, <1>4, <1>9 DEF pq, t, u, v

LEMMA TakesTwo ==
    ASSUME TypeOK, Len(inbox["R"]) >= 2, inbox'["R"] = Tail(Tail(inbox["R"])),
           net'["R"] = net["R"]
    PROVE  /\ Takes(2) /\ Len(Pipe("R")) >= 2
           /\ Pipe("R")[1] = inbox["R"][1] /\ Pipe("R")[2] = inbox["R"][2]
<1> DEFINE a == inbox["R"]
           b == net["R"]
           p == a \o b
<1>1. /\ a \in Seq(Message) /\ b \in Seq(Message) /\ Len(a) \in Nat /\ Len(b) \in Nat
      /\ Len(a) >= 2
  BY PipeType, TheSides, LenProperties
<1>2. a # <<>> /\ Tail(a) \in Seq(Message) /\ Len(Tail(a)) = Len(a) - 1
  <2>1. a # <<>>
    BY <1>1, EmptySeq
  <2>2. QED
    BY <1>1, <2>1, HeadTailProperties
<1>3. Tail(a) # <<>>
  <2> DEFINE ta == Tail(a)
  <2>1. Len(ta) >= 1
    <3>1. Len(ta) = Len(a) - 1
      BY <1>2
    <3> HIDE DEF a, ta
    <3>2. QED
      BY <1>1, <3>1
  <2> HIDE DEF ta
  <2>2. ta # <<>>
    BY <2>1, EmptySeq
  <2>3. QED
    BY <2>2 DEF ta
<1>4. /\ Tail(Tail(a)) \o b = Tail(Tail(a) \o b)
      /\ Tail(a) \o b = Tail(p) /\ Tail(a) \o b # <<>>
  BY <1>1, <1>2, <1>3, TailConcat
<1>5. p \in Seq(Message) /\ p # <<>> /\ Len(p) = Len(a) + Len(b) /\ p[1] = a[1] /\ p[2] = a[2]
  <2>1. p \in Seq(Message) /\ p # <<>>
    BY <1>1, <1>2, TailConcat
  <2>2. /\ Len(p) = Len(a) + Len(b)
        /\ \A i \in 1..(Len(a) + Len(b)) : p[i] = IF i <= Len(a) THEN a[i] ELSE b[i - Len(a)]
    BY <1>1, ConcatProperties
  <2> HIDE DEF p, a, b
  <2>3. p[1] = a[1] /\ p[2] = a[2]
    BY <1>1, <2>2
  <2>4. QED
    BY <2>1, <2>2, <2>3
<1> DEFINE t == Tail(p)
           u == Tail(t)
<1>6. /\ t \in Seq(Message) /\ Len(t) = Len(p) - 1 /\ \A i \in 1..Len(t) : t[i] = p[i + 1]
  BY <1>5, HeadTailProperties
<1>7. /\ Len(u) = Len(t) - 1 /\ \A i \in 1..Len(u) : u[i] = t[i + 1]
  BY <1>4, <1>6, HeadTailProperties
<1>8. Pipe("R") = p /\ Pipe("R")' = u
  BY <1>4 DEF Pipe
<1>10. Pipe("R")[1] = inbox["R"][1] /\ Pipe("R")[2] = inbox["R"][2]
  BY <1>5, <1>8
<1> HIDE DEF a, b, p, t, u
<1>9. Len(u) = Len(p) - 2 /\ \A k \in 1..(Len(p) - 2) : u[k] = p[k + 2]
  <2>1. Len(p) \in Nat
    BY <1>1, <1>5
  <2>2. QED
    BY <1>6, <1>7, <2>1
<1>11. Len(p) >= 2
  BY <1>1, <1>5
<1>12. QED
  BY <1>8, <1>9, <1>10, <1>11 DEF Takes

\* The sender's messages arrive at the end of the pipe, or never.
LEMMA SenderGives ==
    ASSUME TypeOK, NEW ms \in Seq(Message), NEW a, NEW b, Send("S", ms, a, b),
           inbox'["R"] = inbox["R"]
    PROVE  \/ link = "up" /\ at'["S"] = a /\ Gets(ms)
           \/ link = "down" /\ Takes(0)
<1>1. \/ link = "up" /\ net'["R"] = net["R"] \o ms /\ at'["S"] = a
      \/ link = "down" /\ net'["R"] = net["R"]
  <2>1. "S" \in Sides /\ "R" \in Sides /\ Other("S") = "R"
    BY TheSides
  <2>2. at \in [Sides -> Places] /\ net \in [Sides -> Seq(Message)]
    BY DEF TypeOK
  <2>3. QED
    BY <2>1, <2>2 DEF Send, GoTo
<1>2. CASE link = "up" /\ net'["R"] = net["R"] \o ms /\ at'["S"] = a
  BY <1>2, PipeSent, TheSides DEF Gets
<1>3. CASE link = "down" /\ net'["R"] = net["R"]
  <2>1. Pipe("R")' = Pipe("R")
    BY <1>3 DEF Pipe
  <2>2. QED
    BY <1>3, <2>1, TakesNone
<1>4. QED
  BY <1>1, <1>2, <1>3

LEMMA PipeLost ==
    ASSUME TypeOK, inbox' = inbox, net' = [s \in Sides |-> <<>>]
    PROVE  Loses
<1>1. inbox'["R"] = inbox["R"] /\ net'["R"] = <<>>
  BY TheSides
<1>2. QED
  BY <1>1, PipeCut, TheSides DEF Loses

-----------------------------------------------------------------------------
(* The kinds of steps, by what they do to the stream of files on its way.  *)

\* The receiver reads up to two messages, its tasks stop reading or go on after
\* the last one it read; the sender is where it was.
Advances ==
    \E n \in 0..2 :
        /\ n <= Len(Pipe("R")) /\ Takes(n)
        /\ at'["R"] \in Over("R") \/ Read' = Before(n + 1)
        /\ link = "up" => Written' = Written

\* What the sender sends before the files.
Preface(ms) ==
    \/ \E m \in Message : ms = <<m>> /\ m.kind \notin {"part", "header", "chunk"}
    \/ \E r \in Results, F \in SUBSET Files : ms = Text(r, F)

\* The sender sends, on a connection that is up: a preface, a header, a chunk
\* or the delimiter at the end.
Arrives ==
    /\ link = "up" /\ streams' = streams
    /\ \E ms \in Seq(Message) :
          /\ Gets(ms)
          /\ \/ Preface(ms) /\ at["S"] \in Early("S") /\ handed' = handed
             \/ /\ ms = <<Delimiter>> /\ handed' = handed
                /\ at["S"] = "draining" /\ at'["S"] = "last"
             \/ /\ at["S"] = "files"
                /\ \E f \in Files :
                      /\ ms = <<Header(Len(handed) + 1, f)>>
                      /\ handed' = Append(handed, [file |-> f, chunks |-> 0, ended |-> FALSE])
             \/ SendChunk /\ ms = Chunk(Len(handed), handed[Len(handed)].chunks + 1)

\* The connection ends.
Ends == Loses /\ link' = "down" /\ streams' = streams /\ handed' = handed

LEMMA NothingNew ==
    ASSUME CoreInv, Takes(0), Read' = Read, link = "up" => Written' = Written
    PROVE  Advances
<1>1. Len(Pipe("R")) \in Nat
  BY PipeType, TheSides DEF CoreInv
<1>2. Before(0 + 1) = Read
  BY DEF Before
<1>3. 0 \in 0..2 /\ 0 <= Len(Pipe("R"))
  BY <1>1
<1>4. QED
  BY <1>2, <1>3 DEF Advances

\* The receiver does not read.
LEMMA PipeKept ==
    ASSUME CoreInv, Pipe("R")' = Pipe("R"), streams' = streams, handed' = handed
    PROVE  Advances
<1>1. Takes(0)
  BY TakesNone DEF CoreInv
<1>2. Read' = Read /\ Written' = Written
  BY DEF Read, Written
<1>3. QED
  BY <1>1, <1>2, NothingNew

\* The sender sends a preface.
LEMMA PrefaceSent ==
    ASSUME CoreInv, inbox'["R"] = inbox["R"], streams' = streams, handed' = handed,
           at["S"] \in Early("S"), NEW ms \in Seq(Message), Preface(ms),
           NEW a, NEW b, Send("S", ms, a, b)
    PROVE  Advances \/ Arrives
<1>1. \/ link = "up" /\ Gets(ms)
      \/ link = "down" /\ Takes(0)
  BY SenderGives DEF CoreInv
<1>2. CASE link = "up" /\ Gets(ms)
  BY <1>2 DEF Arrives
<1>3. CASE link = "down" /\ Takes(0)
  <2>1. Read' = Read /\ Written' = Written
    BY DEF Read, Written
  <2>2. QED
    BY <1>3, <2>1, NothingNew
<1>4. QED
  BY <1>1, <1>2, <1>3

\* The receiver reads a message that is none of a file, before the files.
LEMMA EarlyRead ==
    ASSUME CoreInv, inbox["R"] # <<>>, inbox'["R"] = Tail(inbox["R"]), net'["R"] = net["R"],
           streams' = streams, handed' = handed,
           at["R"] \in Early("R"), ~Content(Head(inbox["R"]))
    PROVE  Advances
<1>1. /\ Takes(1) /\ Len(Pipe("R")) >= 1 /\ Pipe("R")[1] = Head(inbox["R"])
  BY TakesOne DEF CoreInv
<1>2. streams = <<>>
  BY DEF CoreInv, ResultInv
<1>3. Read' = <<0, 0>> /\ Written' = Written
  BY <1>2 DEF Read, Written
<1>4. Before(1 + 1) = <<0, 0>>
  BY <1>1 DEF Before, Mark
<1>5. 1 \in 0..2 /\ 1 <= Len(Pipe("R"))
  <2>1. Len(Pipe("R")) \in Nat
    BY PipeType, TheSides DEF CoreInv
  <2>2. QED
    BY <1>1, <2>1
<1>6. QED
  BY <1>1, <1>3, <1>4, <1>5 DEF Advances

\* The last thing the receiver reads.
LEMMA LastRead ==
    ASSUME CoreInv, inbox["R"] # <<>>, inbox'["R"] = Tail(inbox["R"]), net'["R"] = net["R"],
           handed' = handed, at'["R"] \in Over("R")
    PROVE  Advances
<1>1. /\ Takes(1) /\ Len(Pipe("R")) >= 1
  BY TakesOne DEF CoreInv
<1>2. Written' = Written
  BY DEF Written
<1>3. 1 \in 0..2 /\ 1 <= Len(Pipe("R"))
  <2>1. Len(Pipe("R")) \in Nat
    BY PipeType, TheSides DEF CoreInv
  <2>2. QED
    BY <1>1, <2>1
<1>4. QED
  BY <1>1, <1>2, <1>3 DEF Advances

\* A text is read with its delimiter.
LEMMA TextRead ==
    ASSUME CoreInv, TextInv, Len(inbox["R"]) >= 2, inbox["R"][1].kind = "part",
           inbox'["R"] = Tail(Tail(inbox["R"])), net'["R"] = net["R"],
           streams' = streams, handed' = handed, at["R"] \in Early("R")
    PROVE  Advances
<1>1. /\ Takes(2) /\ Len(Pipe("R")) >= 2
      /\ Pipe("R")[1] = inbox["R"][1]
  BY TakesTwo DEF CoreInv
<1>2. Len(Pipe("R")) \in Nat
  BY PipeType, TheSides DEF CoreInv
<1>3. Pipe("R")[1 + 1] = Delimiter
  BY <1>1, <1>2 DEF TextInv
<1>4. Read' = <<0, 0>> /\ Written' = Written
  <2>1. streams = <<>>
    BY DEF CoreInv, ResultInv
  <2>2. QED
    BY <2>1 DEF Read, Written
<1>5. Before(2 + 1) = <<0, 0>>
  <2>1. Pipe("R")[3 - 1] = Delimiter
    BY <1>3
  <2>2. QED
    BY <2>1 DEF Before, Mark, Content, Delimiter
<1>6. 2 \in 0..2 /\ 2 <= Len(Pipe("R"))
  BY <1>1, <1>2
<1>7. QED
  BY <1>1, <1>4, <1>5, <1>6 DEF Advances

\* Each step is of one of these kinds: first those of the sender.
LEMMA SenderPipe ==
    ASSUME CoreInv, CoreInv',
           \/ SendNonce \/ ReceiveNonce("S") \/ CheckReceiverToken \/ ReadPinStatus
           \/ SendPin("S") \/ CheckPin("S") \/ ReadSelection \/ ReadLast \/ Flush("S")
    PROVE  Advances \/ Arrives
<1>0. /\ inbox \in [Sides -> Seq(Message)] /\ net \in [Sides -> Seq(Message)]
      /\ "S" \in Sides /\ "R" \in Sides /\ "S" # "R" /\ TypeOK
  BY TheSides DEF CoreInv, TypeOK
<1>1. inbox'["R"] = inbox["R"]
  BY <1>0 DEF SendNonce, ReceiveNonce, CheckReceiverToken, ReadPinStatus, SendPin, CheckPin,
             ReadSelection, ReadLast, Flush, Reads, ReadsText
<1>2. streams' = streams /\ handed' = handed
  <2>1. CASE SendNonce \/ ReceiveNonce("S") \/ SendPin("S") \/ Flush("S")
    BY <2>1 DEF SendNonce, ReceiveNonce, SendPin, Flush, pinVars, fileVars
  <2>2. CASE CheckReceiverToken \/ CheckPin("S") \/ ReadPinStatus
    <3>1. UNCHANGED fileVars
      BY <2>2 DEF CheckReceiverToken, CheckPin, ReadPinStatus
    <3>2. QED
      BY <3>1 DEF fileVars
  <2>3. CASE ReadSelection
    BY <2>3 DEF ReadSelection
  <2>4. CASE ReadLast
    BY <2>4 DEF ReadLast, fileVars
  <2>5. QED
    BY <2>1, <2>2, <2>3, <2>4
<1>3. ASSUME net' = net PROVE Advances
  <2>1. Pipe("R")' = Pipe("R")
    BY <1>1, <1>3 DEF Pipe
  <2>2. QED
    BY <1>2, <2>1, PipeKept
<1>4. ASSUME NEW m \in Message, m.kind \notin {"part", "header", "chunk"}, at["S"] \in Early("S"),
             NEW a, NEW b, Send("S", <<m>>, a, b)
      PROVE  Advances \/ Arrives
  <2>1. <<m>> \in Seq(Message) /\ Preface(<<m>>)
    BY <1>4, OneMessage DEF Preface
  <2>2. QED
    BY <1>1, <1>2, <1>4, <2>1, PrefaceSent
<1>5. ASSUME NEW r \in Results, NEW F \in SUBSET Files, at["S"] \in Early("S"),
             NEW a, NEW b, Send("S", Text(r, F), a, b)
      PROVE  Advances \/ Arrives
  <2>1. Text(r, F) \in Seq(Message) /\ Preface(Text(r, F))
    BY TextType DEF Preface
  <2>2. QED
    BY <1>1, <1>2, <1>5, <2>1, PrefaceSent
<1>6. CASE SendNonce
  <2> DEFINE m == [kind |-> "nonce", nonce |-> generate_nonce("S")]
  <2>1. at["S"] = "opening" /\ Send("S", <<m>>, "nonce", "failed")
    BY <1>6 DEF SendNonce
  <2>2. m \in Message /\ m.kind = "nonce"
    BY <1>0, TokenType DEF Message
  <2> HIDE DEF m
  <2>3. QED
    BY <1>4, <2>1, <2>2 DEF Early
<1>7. CASE ReceiveNonce("S")
  <2> DEFINE n == NonceFor("S", Head(inbox["S"]).nonce)
             m == [kind |-> "token", token |-> generate_token_nonce(KeyOf("S"), n)]
  <2>1. /\ Send("S", <<m>>, "token", "failed") /\ inbox["S"] # <<>>
        /\ Head(inbox["S"]).kind = "nonce" /\ at["S"] = "nonce"
    BY <1>7 DEF ReceiveNonce, Reads
  <2>2. n \in Salts
    BY <1>0, <2>1, ReadType, MessageParts, TokenType
  <2>3. m \in Message /\ m.kind = "token"
    <3> HIDE DEF n
    <3>1. generate_token_nonce(KeyOf("S"), n) \in Tokens
      BY <1>0, <2>2, TokenType
    <3>2. QED
      BY <3>1 DEF Message
  <2> HIDE DEF m
  <2>4. QED
    BY <1>4, <2>1, <2>3 DEF Early
<1>8. ASSUME ChallengeOrList, at["S"] \in Early("S") PROVE Advances \/ Arrives
  <2>1. \E r \in Results, F \in SUBSET Files : \E a : Send("S", Text(r, F), a, "failed")
    <3>1. "PinRequired" \in Results /\ "Ok" \in Results /\ {} \in SUBSET Files /\ Files \in SUBSET Files
      BY DEF Results
    <3>2. \/ Send("S", Text("PinRequired", {}), "verify", "failed")
          \/ Send("S", Text("Ok", Files), "list", "failed")
      BY <1>8 DEF ChallengeOrList
    <3>3. QED
      BY <3>1, <3>2
  <2>2. QED
    BY <1>5, <1>8, <2>1
<1>9. CASE CheckReceiverToken
  <2>1. at["S"] = "token" /\ (net' = net \/ ChallengeOrList)
    BY <1>9 DEF CheckReceiverToken, Reads
  <2>2. QED
    BY <1>3, <1>8, <2>1 DEF Early
<1>10. CASE ReadPinStatus
  <2>1. at["S"] = "reply" /\ (net' = net \/ ChallengeOrList)
    BY <1>10 DEF ReadPinStatus, Reads
  <2>2. QED
    BY <1>3, <1>8, <2>1 DEF Early
<1>11. CASE SendPin("S")
  <2>1. at["S"] = "pin" /\ \E pin \in Guesses :
           Send("S", <<[kind |-> "pin", pin |-> pin]>>, "reply", "failed")
    BY <1>11 DEF SendPin
  <2>2. PICK pin \in Guesses : Send("S", <<[kind |-> "pin", pin |-> pin]>>, "reply", "failed")
    BY <2>1
  <2> DEFINE m == [kind |-> "pin", pin |-> pin]
  <2>3. m \in Message /\ m.kind = "pin" /\ Send("S", <<m>>, "reply", "failed")
    BY <2>2 DEF Message
  <2> HIDE DEF m
  <2>4. QED
    BY <1>4, <2>1, <2>3 DEF Early
<1>12. CASE CheckPin("S")
  <2>1. at["S"] = "verify"
    BY <1>12 DEF CheckPin, Reads
  <2>2. \E r \in Results, F \in SUBSET Files : \E a, b : Send("S", Text(r, F), a, b)
    <3>1. \/ Send("S", Text("Ok", Files), "list", "failed")
          \/ Send("S", Text("PinRequired", {}), "verify", "failed")
          \/ Send("S", Text("TooManyAttempts", {}), "locked", "locked")
      BY <1>12 DEF CheckPin, PinAnswer
    <3>2. /\ {"Ok", "PinRequired", "TooManyAttempts"} \subseteq Results
          /\ {} \in SUBSET Files /\ Files \in SUBSET Files
      BY DEF Results
    <3>3. QED
      BY <3>1, <3>2
  <2>3. QED
    BY <1>5, <2>1, <2>2 DEF Early
<1>13. CASE ReadSelection
  <2> DEFINE m == Status("pairStatus", "PairDeclined")
  <2>1. at["S"] = "list" /\ (net' = net \/ Send("S", <<m>>, "list", "failed"))
    BY <1>13 DEF ReadSelection, ReadsText
  <2>2. m \in Message /\ m.kind = "pairStatus"
    BY DEF Status, Message, Results
  <2> HIDE DEF m
  <2>3. QED
    BY <1>3, <1>4, <2>1, <2>2 DEF Early
<1>14. CASE ReadLast
  BY <1>3, <1>14 DEF ReadLast
<1>15. CASE Flush("S")
  <2>1. \/ net' = net
        \/ at["S"] = "draining" /\ Send("S", <<Delimiter>>, "last", "failed")
        \/ /\ at["S"] = "mistrusting"
           /\ Send("S", <<Status("pairStatus", "InvalidSignature")>>, "failed", "failed")
    BY <1>15 DEF Flush
  <2>2. CASE at["S"] = "draining" /\ Send("S", <<Delimiter>>, "last", "failed")
    <3>1. Delimiter \in Message
      BY DEF Message
    <3>2. <<Delimiter>> \in Seq(Message)
      BY <3>1, OneMessage
    <3>3. \/ link = "up" /\ at'["S"] = "last" /\ Gets(<<Delimiter>>)
          \/ link = "down" /\ Takes(0)
      BY <1>0, <1>1, <2>2, <3>2, SenderGives
    <3>4. Read' = Read /\ Written' = Written
      BY <1>2 DEF Read, Written
    <3>5. QED
      BY <1>2, <2>2, <3>2, <3>3, <3>4, NothingNew DEF Arrives
  <2>3. CASE /\ at["S"] = "mistrusting"
             /\ Send("S", <<Status("pairStatus", "InvalidSignature")>>, "failed", "failed")
    <3> DEFINE m == Status("pairStatus", "InvalidSignature")
    <3>1. m \in Message /\ m.kind = "pairStatus"
      BY DEF Status, Message, Results
    <3>2. Send("S", <<m>>, "failed", "failed")
      BY <2>3
    <3> HIDE DEF m
    <3>3. QED
      BY <1>4, <2>3, <3>1, <3>2 DEF Early
  <2>4. QED
    BY <1>3, <2>1, <2>2, <2>3
<1>16. QED
  BY <1>6, <1>7, <1>9, <1>10, <1>11, <1>12, <1>13, <1>14, <1>15

\* The receiver's tasks: what they read is theirs, what they send is for the other side.
LEMMA ReceiverPipe ==
    ASSUME CoreInv, CoreInv', TextInv, ChainInv,
           \/ ReceiveNonce("R") \/ CheckSenderToken \/ CheckPin("R") \/ ReadPairStatus
           \/ ReadList \/ SendPin("R") \/ Flush("R") \/ Respond \/ Deciding \/ ParseError("R")
    PROVE  Advances
<1>0. /\ inbox \in [Sides -> Seq(Message)] /\ net \in [Sides -> Seq(Message)]
      /\ at \in [Sides -> Places] /\ TypeOK
      /\ "S" \in Sides /\ "R" \in Sides /\ Other("R") = "S" /\ "S" # "R"
  BY TheSides DEF CoreInv, TypeOK
<1>1. ASSUME NEW ms, NEW a, NEW b, Send("R", ms, a, b)
      PROVE  net'["R"] = net["R"] /\ at'["R"] \in {a, b}
  BY <1>0, <1>1 DEF Send, GoTo
<1>2. ASSUME net'["R"] = net["R"], inbox'["R"] = inbox["R"], streams' = streams, handed' = handed
      PROVE  Advances
  <2>1. Pipe("R")' = Pipe("R")
    BY <1>2 DEF Pipe
  <2>2. QED
    BY <1>2, <2>1, PipeKept
<1>3. ASSUME NEW place, NEW kind, Reads("R", place, kind)
      PROVE  /\ at["R"] = place /\ inbox["R"] # <<>> /\ Head(inbox["R"]).kind = kind
             /\ inbox'["R"] = Tail(inbox["R"])
  BY <1>0, <1>3 DEF Reads
<1>4. CASE ReceiveNonce("R")
  <2>1. Reads("R", "nonce", "nonce") /\ streams' = streams /\ handed' = handed
    BY <1>4 DEF ReceiveNonce, pinVars, fileVars
  <2>2. PICK ms, a, b : Send("R", ms, a, b)
    BY <1>4 DEF ReceiveNonce
  <2>3. net'["R"] = net["R"]
    BY <1>1, <2>2
  <2>4. ~Content(Head(inbox["R"])) /\ at["R"] \in Early("R")
    BY <1>3, <2>1 DEF Content, Early
  <2>5. QED
    BY <1>3, <2>1, <2>3, <2>4, EarlyRead
<1>5. CASE CheckSenderToken
  <2>1. Reads("R", "token", "token") /\ streams' = streams /\ handed' = handed
    BY <1>5 DEF CheckSenderToken, pinVars, fileVars
  <2>2. PICK ms, a, b : Send("R", ms, a, b)
    BY <1>5 DEF CheckSenderToken
  <2>3. net'["R"] = net["R"]
    BY <1>1, <2>2
  <2>4. ~Content(Head(inbox["R"])) /\ at["R"] \in Early("R")
    BY <1>3, <2>1 DEF Content, Early
  <2>5. QED
    BY <1>3, <2>1, <2>3, <2>4, EarlyRead
<1>6. CASE CheckPin("R")
  <2>1. Reads("R", "verify", "pin") /\ streams' = streams /\ handed' = handed
    BY <1>6 DEF CheckPin, fileVars
  <2>2. PICK ms, a, b : Send("R", ms, a, b)
    BY <1>6 DEF CheckPin
  <2>3. net'["R"] = net["R"]
    BY <1>1, <2>2
  <2>4. ~Content(Head(inbox["R"])) /\ at["R"] \in Early("R")
    BY <1>3, <2>1 DEF Content, Early
  <2>5. QED
    BY <1>3, <2>1, <2>3, <2>4, EarlyRead
<1>7. CASE ReadPairStatus
  <2>1. /\ Reads("R", "pairing", "pairStatus") /\ streams' = streams /\ handed' = handed
        /\ net' = net
    BY <1>7 DEF ReadPairStatus, pinVars, fileVars
  <2>2. ~Content(Head(inbox["R"])) /\ at["R"] \in Early("R")
    BY <1>3, <2>1 DEF Content, Early
  <2>3. QED
    BY <1>3, <2>1, <2>2, EarlyRead
<1>8. CASE ReadList
  <2>1. /\ ReadsText("R", "list") \/ ReadsText("R", "reply")
        /\ streams' = streams /\ handed' = handed /\ net' = net
    BY <1>8 DEF ReadList
  <2>2. /\ Len(inbox["R"]) >= 2 /\ inbox["R"][1].kind = "part"
        /\ inbox'["R"] = Tail(Tail(inbox["R"])) /\ at["R"] \in Early("R")
    BY <1>0, <2>1 DEF ReadsText, Early
  <2>3. QED
    BY <2>1, <2>2, TextRead
<1>9. CASE SendPin("R")
  <2>1. PICK ms, a, b : Send("R", ms, a, b)
    BY <1>9 DEF SendPin
  <2>2. inbox'["R"] = inbox["R"] /\ streams' = streams /\ handed' = handed
    BY <1>9 DEF SendPin, fileVars
  <2>3. QED
    BY <1>1, <1>2, <2>1, <2>2
<1>10. CASE Flush("R")
  <2>1. net' = net \/ \E ms, a, b : Send("R", ms, a, b)
    BY <1>10 DEF Flush
  <2>2. inbox'["R"] = inbox["R"] /\ streams' = streams /\ handed' = handed
    BY <1>10 DEF Flush, fileVars
  <2>3. QED
    BY <1>1, <1>2, <2>1, <2>2
<1>11. CASE Respond
  <2>1. streams' = streams /\ handed' = handed
    BY <1>11 DEF Respond
  <2>2. CASE Head(inbox["R"]) = Delimiter
    <3>1. PICK ms : Send("R", ms, "flushing", "failed")
      BY <1>11, <2>2 DEF Respond
    <3>2. net'["R"] = net["R"] /\ at'["R"] \in Over("R")
      BY <1>1, <3>1 DEF Over
    <3>3. inbox["R"] # <<>>
      BY <1>11 DEF Respond, CoreInv, ResultInv
    <3>4. inbox'["R"] = Tail(inbox["R"])
      BY <1>0, <1>11, <2>2 DEF Respond
    <3>5. QED
      BY <2>1, <3>2, <3>3, <3>4, LastRead
  <2>3. CASE Head(inbox["R"]) # Delimiter
    <3>1. PICK ms, a, b : Send("R", ms, a, b)
      BY <1>11, <2>3 DEF Respond
    <3>2. inbox' = inbox
      BY <1>11, <2>3 DEF Respond
    <3>3. QED
      BY <1>1, <1>2, <2>1, <3>1, <3>2
  <2>4. QED
    BY <2>2, <2>3
<1>12. CASE Deciding
  <2>1. net' = net \/ \E ms, a, b : Send("R", ms, a, b)
    BY <1>12 DEF Deciding, Select, Decline, Abandon, AskToPair
  <2>2. inbox' = inbox /\ streams' = streams /\ handed' = handed
    BY <1>12 DEF Deciding, Select, Decline, Abandon, AskToPair, fileVars
  <2>3. QED
    BY <1>1, <1>2, <2>1, <2>2
<1>13. CASE ParseError("R")
  <2>1. /\ inbox["R"] # <<>> /\ inbox'["R"] = Tail(inbox["R"]) /\ net' = net
        /\ handed' = handed /\ at'["R"] = "failed"
    BY <1>0, <1>13 DEF ParseError, GoTo, fileVars
  <2>2. QED
    BY <2>1, LastRead DEF Over
<1>14. QED
  BY <1>4, <1>5, <1>6, <1>7, <1>8, <1>9, <1>10, <1>11, <1>12, <1>13

\* What the receiver has read of the stream, by the last stream of its app.
LEMMA ReadIs ==
    ASSUME TypeOK
    PROVE  /\ Len(streams) \in Nat
           /\ Len(streams) = 0 => Read = <<0, 0>>
           /\ Len(streams) # 0 => Read = <<Len(streams), Len(streams[Len(streams)].chunks)>>
           /\ Len(streams) # 0 => Len(streams[Len(streams)].chunks) \in Nat
           /\ Read = <<Read[1], Read[2]>> /\ Read[1] = Len(streams) /\ Read[2] \in Nat
<1>1. streams \in Seq(Stream) /\ Len(streams) \in Nat
  BY LenProperties DEF TypeOK
<1>2. streams = <<>> <=> Len(streams) = 0
  BY <1>1, EmptySeq
<1>3. ASSUME Len(streams) # 0 PROVE Len(streams[Len(streams)].chunks) \in Nat
  <2>1. streams[Len(streams)] \in Stream
    BY <1>1, <1>2, <1>3, SequenceType
  <2>2. streams[Len(streams)].chunks \in Seq(Nat \X Nat)
    BY <2>1 DEF Stream
  <2>3. QED
    BY <2>2, LenProperties
<1>4. QED
  BY <1>1, <1>2, <1>3 DEF Read

LEMMA WrittenIs ==
    ASSUME TypeOK
    PROVE  /\ Len(handed) \in Nat
           /\ Len(handed) = 0 => Written = <<0, 0>>
           /\ Len(handed) # 0 => /\ Written = <<Len(handed), handed[Len(handed)].chunks>>
                                 /\ handed[Len(handed)] \in Handed
<1>1. handed \in Seq(Handed) /\ Len(handed) \in Nat
  BY LenProperties DEF TypeOK
<1>2. handed = <<>> <=> Len(handed) = 0
  BY <1>1, EmptySeq
<1>3. Len(handed) # 0 => handed[Len(handed)] \in Handed
  BY <1>1, <1>2, SequenceType
<1>4. QED
  BY <1>1, <1>2, <1>3 DEF Written

\* A step that reads a header or a chunk goes to its mark.
LEMMA ContentRead ==
    ASSUME CoreInv, inbox["R"] # <<>>, inbox'["R"] = Tail(inbox["R"]), net'["R"] = net["R"],
           handed' = handed, Content(Head(inbox["R"])), Read' = Head(inbox["R"]).of
    PROVE  Advances
<1>1. /\ Takes(1) /\ Len(Pipe("R")) >= 1 /\ Pipe("R")[1] = Head(inbox["R"])
  BY TakesOne DEF CoreInv
<1>2. Written' = Written
  BY DEF Written
<1>3. Before(1 + 1) = Head(inbox["R"]).of
  BY <1>1 DEF Before, Mark
<1>4. 1 \in 0..2 /\ 1 <= Len(Pipe("R"))
  <2>1. Len(Pipe("R")) \in Nat
    BY PipeType, TheSides DEF CoreInv
  <2>2. QED
    BY <1>1, <2>1
<1>5. QED
  BY <1>1, <1>2, <1>3, <1>4 DEF Advances

\* The first message of the pipe follows what the receiver has read.
LEMMA FirstFollows ==
    ASSUME CoreInv, ChainInv, inbox["R"] # <<>>, at["R"] \in {"header", "data"}
    PROVE  /\ Follows(handed, Read, Head(inbox["R"]))
           /\ Head(inbox["R"]) \in Message
<1>1. TypeOK /\ "R" \in Sides /\ inbox["R"] \in Seq(Message) /\ net["R"] \in Seq(Message)
  BY PipeType, TheSides DEF CoreInv
<1>2. Head(inbox["R"]) \in Message
  BY <1>1, HeadTailProperties
<1>3. Len(Pipe("R")) \in Nat \ {0} /\ Pipe("R")[1] = Head(inbox["R"])
  <2>1. Len(inbox["R"]) \in Nat \ {0} /\ Len(net["R"]) \in Nat /\ Head(inbox["R"]) = inbox["R"][1]
    BY <1>1, EmptySeq, LenProperties
  <2> DEFINE p == inbox["R"]
             q == net["R"]
  <2>2. /\ Len(p \o q) = Len(p) + Len(q)
        /\ \A i \in 1..(Len(p) + Len(q)) : (p \o q)[i] = IF i <= Len(p) THEN p[i] ELSE q[i - Len(p)]
    BY <1>1, ConcatProperties
  <2>3. Pipe("R") = p \o q /\ Len(p) \in Nat \ {0} /\ Len(q) \in Nat /\ Head(inbox["R"]) = p[1]
    BY <2>1 DEF Pipe
  <2> HIDE DEF p, q
  <2>4. QED
    BY <2>2, <2>3
<1>4. Follows(handed, Before(1), Pipe("R")[1])
  BY <1>3 DEF ChainInv, Over
<1>5. QED
  BY <1>2, <1>3, <1>4 DEF Before

\* The receiver's files.
LEMMA StreamPipe ==
    ASSUME CoreInv, CoreInv', ChainInv, OpenStream \/ ReceiveChunk \/ EndStream \/ Report
    PROVE  Advances
<1>0. TypeOK /\ TypeOK' /\ ResultInv
  BY DEF CoreInv
<1>1. /\ inbox \in [Sides -> Seq(Message)] /\ "R" \in Sides
      /\ results \in Seq({"success", "failure"})
  BY <1>0, TheSides DEF TypeOK
<1>2. CASE OpenStream
  <2> DEFINE m == Head(inbox["R"])
  <2>1. /\ inbox["R"] # <<>> /\ inbox'["R"] = Tail(inbox["R"]) /\ net' = net /\ handed' = handed
        /\ m.kind = "header" /\ at["R"] = "header"
    BY <1>1, <1>2 DEF OpenStream, Reads
  <2>2. Len(streams') = Len(streams) + 1 /\ streams'[Len(streams) + 1].chunks = <<>>
    BY <1>0, <1>2, OpenStep
  <2>3. m.of = <<Len(streams) + 1, 0>>
    <3>1. m.of = <<Read[1] + 1, 0>>
      BY <2>1, FirstFollows DEF Follows, Content
    <3>2. QED
      BY <1>0, <3>1, ReadIs
  <2>4. Read' = <<Len(streams) + 1, 0>>
    <3>1. Len(streams) \in Nat
      BY <1>0, ReadIs
    <3>2. streams' # <<>>
      <4>1. Len(streams') # 0
        BY <2>2, <3>1
      <4>2. QED
        BY <4>1, EmptySeq
    <3>3. Len(streams'[Len(streams')].chunks) = 0
      BY <2>2, EmptySeq
    <3>4. QED
      BY <2>2, <3>2, <3>3 DEF Read
  <2>5. Content(m) /\ Read' = m.of
    BY <2>1, <2>3, <2>4 DEF Content
  <2> HIDE DEF m
  <2>6. QED
    BY <2>1, <2>5, ContentRead DEF m
<1>3. ASSUME NEW i \in 1..Len(streams), NEW e \in Stream,
             Len(streams') = Len(streams),
             \A j \in 1..Len(streams) : streams'[j] = IF j = i THEN e ELSE streams[j],
             e.chunks = streams[i].chunks
      PROVE  Read' = Read
  <2>1. Len(streams) \in Nat
    BY <1>0, ReadIs
  <2>2. streams # <<>> /\ streams' # <<>>
    BY <1>3, <2>1, EmptySeq
  <2>3. Len(streams) \in 1..Len(streams)
    BY <1>3, <2>1
  <2>4. streams'[Len(streams)].chunks = streams[Len(streams)].chunks
    BY <1>3, <2>3
  <2>5. QED
    BY <1>3, <2>2, <2>4 DEF Read
<1>4. CASE ReceiveChunk
  <2> DEFINE m == Head(inbox["R"])
             L == Len(streams)
             c == streams[L].chunks
  <2>1. /\ inbox["R"] # <<>> /\ inbox'["R"] = Tail(inbox["R"]) /\ net' = net /\ handed' = handed
        /\ m.kind = "chunk" /\ at["R"] = "data" /\ results' = results /\ at' = at
    BY <1>1, <1>4 DEF ReceiveChunk, Reads
  <2>2. \A x \in {"success", "failure"} : Append(results, x) # results
    BY <1>1
  <2>3. PICK e \in Stream : /\ Len(streams') = L /\ streams'[L] = e
                            /\ e.chunks = Append(c, m.of) /\ L \in 1..L
    <3>1. PICK i \in 1..Len(streams), e \in Stream :
              /\ Len(streams') = Len(streams)
              /\ \A j \in 1..Len(streams) : streams'[j] = IF j = i THEN e ELSE streams[j]
              /\ \/ i = Len(streams) /\ e.chunks = Append(streams[i].chunks, Head(inbox["R"]).of)
                 \/ at'["R"] = "result"
                 \/ \E x \in {"success", "failure"} : results' = Append(results, x)
      BY <1>0, <1>4, StreamStep
    <3>2. i = Len(streams) /\ e.chunks = Append(streams[i].chunks, Head(inbox["R"]).of)
      BY <2>1, <2>2, <3>1
    <3>3. QED
      BY <3>1, <3>2
  <2>4. L \in Nat /\ Read = <<L, Len(c)>> /\ Len(c) \in Nat /\ L # 0 /\ c \in Seq(Nat \X Nat)
    <3>1. L \in Nat /\ L # 0
      BY <1>0, <2>3, ReadIs
    <3>2. streams[L] \in Stream
      BY <1>0, <3>1, SequenceType, <2>3 DEF TypeOK
    <3>3. QED
      BY <1>0, <3>1, <3>2, ReadIs DEF Stream
  <2>5. m.of = <<L, Len(c) + 1>> /\ m \in Message
    <3>1. m.of = <<Read[1], Read[2] + 1>> /\ m \in Message
      BY <2>1, FirstFollows DEF Follows, Content
    <3>2. QED
      BY <2>4, <3>1
  <2>6. Len(Append(c, m.of)) = Len(c) + 1
    <3> HIDE DEF m, c, L
    <3>1. m.of \in Nat \X Nat
      BY <2>4, <2>5
    <3>2. QED
      BY <2>4, <3>1, AppendProperties
  <2>7. Read' = <<L, Len(c) + 1>>
    <3>1. streams' # <<>>
      BY <2>3, <2>4, EmptySeq
    <3>2. QED
      BY <2>3, <2>6, <3>1 DEF Read
  <2>8. Content(m) /\ Read' = m.of
    BY <2>1, <2>5, <2>7 DEF Content
  <2> HIDE DEF m, c, L
  <2>9. QED
    BY <2>1, <2>8, ContentRead DEF m
<1>5. CASE EndStream \/ Report
  <2>1. /\ inbox' = inbox /\ net' = net /\ handed' = handed
    BY <1>5 DEF EndStream, Report
  <2>2. Read' = Read
    <3>1. PICK i \in 1..Len(streams), e \in Stream :
              /\ Len(streams') = Len(streams)
              /\ \A j \in 1..Len(streams) : streams'[j] = IF j = i THEN e ELSE streams[j]
              /\ \/ ReceiveChunk
                 \/ e.chunks = streams[i].chunks
      BY <1>0, <1>5, StreamStep
    <3>2. ~ReceiveChunk
      <4>1. ReceiveChunk => inbox["R"] # <<>> /\ inbox'["R"] = Tail(inbox["R"])
        BY <1>1 DEF ReceiveChunk, Reads
      <4>2. ASSUME inbox["R"] # <<>> PROVE Tail(inbox["R"]) # inbox["R"]
        <5>0. inbox["R"] \in Seq(Message)
          BY <1>1
        <5>1. Len(Tail(inbox["R"])) = Len(inbox["R"]) - 1
          BY <4>2, <5>0, HeadTailProperties
        <5>2. Len(inbox["R"]) \in Nat
          BY <5>0, LenProperties
        <5>3. Len(inbox["R"]) - 1 # Len(inbox["R"])
          BY <5>2
        <5>4. QED
          BY <5>1, <5>3, Zenon
      <4>3. QED
        BY <2>1, <4>1, <4>2
    <3>3. QED
      BY <1>3, <3>1, <3>2
  <2>3. Takes(0)
    <3>1. Pipe("R")' = Pipe("R")
      BY <2>1 DEF Pipe
    <3>2. QED
      BY <1>0, <3>1, TakesNone
  <2>4. Written' = Written
    BY <2>1 DEF Written
  <2>5. QED
    BY <2>2, <2>3, <2>4, NothingNew
<1>6. QED
  BY <1>2, <1>4, <1>5

\* The sender's files.
LEMMA HandingPipe ==
    ASSUME CoreInv, CoreInv', Handing
    PROVE  Advances \/ Arrives
<1>0. TypeOK /\ TypeOK' /\ HandedInv /\ Len(handed) \in Nat /\ "R" \in Sides
  BY WrittenIs, TheSides DEF CoreInv
<1>1. inbox' = inbox /\ streams' = streams
  BY DEF Handing, SendFile, SendChunk, EndFile, EndFiles, fileVars
<1>2. ASSUME NEW ms \in Seq(Message), Send("S", ms, "chunks", "files")
      PROVE  (link = "up" /\ Gets(ms)) \/ Advances
  <2>1. \/ link = "up" /\ Gets(ms)
        \/ link = "down" /\ Takes(0)
    BY <1>0, <1>1, <1>2, SenderGives
  <2>2. Read' = Read
    BY <1>1 DEF Read
  <2>3. ASSUME link = "down", Takes(0) PROVE Advances
    BY <2>2, <2>3, NothingNew
  <2>4. QED
    BY <2>1, <2>3
<1>3. CASE SendFile
  <2>1. /\ at["S"] = "files"
        /\ \/ handed' = handed /\ net' = net
           \/ \E f \in Files :
                 /\ handed' = Append(handed, [file |-> f, chunks |-> 0, ended |-> FALSE])
                 /\ Send("S", <<Header(Len(handed) + 1, f)>>, "chunks", "files")
    BY <1>0, <1>3, SendFileStep
  <2>2. CASE handed' = handed /\ net' = net
    <3>1. Pipe("R")' = Pipe("R")
      BY <1>1, <2>2 DEF Pipe
    <3>2. QED
      BY <1>1, <2>2, <3>1, PipeKept
  <2>3. ASSUME NEW f \in Files,
               handed' = Append(handed, [file |-> f, chunks |-> 0, ended |-> FALSE]),
               Send("S", <<Header(Len(handed) + 1, f)>>, "chunks", "files")
        PROVE  Advances \/ Arrives
    <3> DEFINE m == Header(Len(handed) + 1, f)
    <3>1. m \in Message
      <4>1. Len(handed) + 1 \in Nat
        BY <1>0
      <4>2. QED
        BY <4>1 DEF Header, Message
    <3> HIDE DEF m
    <3>2. <<m>> \in Seq(Message)
      BY <3>1, OneMessage
    <3>3. (link = "up" /\ Gets(<<m>>)) \/ Advances
      BY <1>2, <2>3, <3>2 DEF m
    <3>4. link = "up" /\ Gets(<<m>>) => Arrives
      BY <1>1, <2>1, <2>3, <3>2 DEF Arrives, m
    <3>5. QED
      BY <3>3, <3>4
  <2>4. QED
    BY <2>1, <2>2, <2>3
<1>4. CASE SendChunk
  <2> DEFINE i == Len(handed)
             n == handed[i].chunks + 1
             ms == Chunk(i, n)
  <2>1. Send("S", ms, "chunks", "files")
    BY <1>4 DEF SendChunk
  <2>2. i \in Nat /\ n \in Nat
    BY <1>0, <1>4, LastFileStep DEF Handed
  <2>3. ms \in Seq(Message)
    <3> HIDE DEF i, n
    <3>1. [kind |-> "chunk", of |-> <<i, n>>] \in Message
      BY <2>2 DEF Message
    <3>2. QED
      BY <3>1, OneMessage DEF Chunk
  <2>4. (link = "up" /\ Gets(ms)) \/ Advances
    <3> HIDE DEF ms
    <3>1. QED
      BY <1>2, <2>1, <2>3
  <2>5. link = "up" /\ Gets(ms) => Arrives
    BY <1>1, <1>4, <2>3 DEF Arrives
  <2>6. QED
    BY <2>4, <2>5
<1>5. CASE EndFile \/ EndFiles
  <2>1. Takes(0)
    <3>1. net' = net
      BY <1>5 DEF EndFile, EndFiles
    <3>2. Pipe("R")' = Pipe("R")
      BY <1>1, <3>1 DEF Pipe
    <3>3. QED
      BY <1>0, <3>2, TakesNone
  <2>2. Read' = Read
    BY <1>1 DEF Read
  <2>3. Written' = Written
    <3>1. CASE EndFile
      <4>1. /\ Len(handed) \in 1..Len(handed) /\ Len(handed') = Len(handed)
            /\ handed'[Len(handed)].chunks = handed[Len(handed)].chunks
        BY <1>0, <3>1, LastFileStep
      <4>2. handed # <<>> /\ handed' # <<>>
        <5>1. Len(handed) # 0 /\ Len(handed') # 0
          BY <1>0, <4>1
        <5>2. QED
          BY <5>1, EmptySeq
      <4>3. QED
        BY <4>1, <4>2 DEF Written
    <3>2. CASE EndFiles
      BY <3>2 DEF EndFiles, fileVars, Written
    <3>3. QED
      BY <1>5, <3>1, <3>2
  <2>4. QED
    BY <2>1, <2>2, <2>3, NothingNew
<1>6. QED
  BY <1>3, <1>4, <1>5 DEF Handing

\* Every step.
LEMMA StepPipe ==
    ASSUME CoreInv, CoreInv', TextInv, ChainInv, [Next]_vars
    PROVE  Advances \/ Arrives \/ Ends
<1>0. TypeOK /\ \A s \in Sides : s = "S" \/ s = "R"
  BY TheSides DEF CoreInv
<1>1. ASSUME inbox' = inbox, net' = net, UNCHANGED fileVars PROVE Advances
  <2>1. Pipe("R")' = Pipe("R")
    BY <1>1 DEF Pipe
  <2>2. QED
    BY <1>1, <2>1, PipeKept DEF fileVars
<1>2. ASSUME NEW s \in Sides, Deliver(s) PROVE Advances
  <2>1. net[s] # <<>> /\ net' = [net EXCEPT ![s] = Tail(@)]
        /\ inbox' = [inbox EXCEPT ![s] = Append(@, Head(net[s]))] /\ UNCHANGED fileVars
    BY <1>2 DEF Deliver
  <2>2. Pipe("R")' = Pipe("R")
    <3>1. CASE s = "R"
      <4>1. net'["R"] = Tail(net["R"]) /\ inbox'["R"] = Append(inbox["R"], Head(net["R"]))
        BY <1>0, <2>1, <3>1 DEF TypeOK
      <4>2. QED
        BY <1>0, <2>1, <3>1, <4>1, PipeDelivered
    <3>2. CASE s # "R"
      <4>1. net'["R"] = net["R"] /\ inbox'["R"] = inbox["R"]
        BY <1>0, <2>1, <3>2, TheSides DEF TypeOK
      <4>2. QED
        BY <4>1 DEF Pipe
    <3>3. QED
      BY <3>1, <3>2
  <2>3. QED
    BY <2>1, <2>2, PipeKept DEF fileVars
<1>3. CASE ParseError("S")
  <2>1. inbox'["R"] = inbox["R"] /\ net' = net /\ UNCHANGED fileVars
    BY <1>0, <1>3, TheSides DEF ParseError, TypeOK
  <2>2. Pipe("R")' = Pipe("R")
    BY <2>1 DEF Pipe
  <2>3. QED
    BY <2>1, <2>2, PipeKept DEF fileVars
<1>4. ASSUME NEW s \in Sides, StoreSlot(s) \/ Fail(s) PROVE Advances
  BY <1>1, <1>4 DEF StoreSlot, Fail
<1>5. ASSUME Close, inbox' = inbox, UNCHANGED fileVars PROVE Ends
  BY <1>0, <1>5, PipeLost DEF Close, Ends, fileVars
<1>6. ASSUME NEW s \in Sides, Finish(s) PROVE Ends
  BY <1>5, <1>6 DEF Finish
<1>7. CASE LinkLost
  BY <1>5, <1>7 DEF LinkLost
<1>8. CASE UNCHANGED vars
  BY <1>1, <1>8 DEF vars
<1>9. ASSUME NEW s \in Sides, Step(s) PROVE Advances \/ Arrives \/ Ends
  <2>1. CASE s = "S"
    BY <1>2, <1>3, <1>4, <1>6, <1>9, <2>1, SenderPipe DEF Step
  <2>2. CASE s = "R"
    BY <1>2, <1>4, <1>6, <1>9, <2>2, ReceiverPipe DEF Step
  <2>3. QED
    BY <1>0, <2>1, <2>2
<1>10. CASE Sender
  BY <1>10, SenderPipe DEF Sender
<1>11. CASE Receiver \/ Report \/ Deciding
  BY <1>11, ReceiverPipe, StreamPipe DEF Receiver
<1>12. CASE Typing
  BY <1>0, <1>12, SenderPipe, ReceiverPipe DEF Typing
<1>13. CASE Handing
  BY <1>13, HandingPipe
<1>14. QED
  BY <1>7, <1>8, <1>9, <1>10, <1>11, <1>12, <1>13 DEF Next

-----------------------------------------------------------------------------
(* What follows what, when the sender's files get more.                    *)

Extends(g, h) ==
    /\ Len(h) <= Len(g)
    /\ \A i \in 1..Len(h) :
          /\ g[i].file = h[i].file /\ h[i].chunks <= g[i].chunks
          /\ h[i].ended => g[i] = h[i]

LEMMA HandedExtends ==
    ASSUME CoreInv, CoreInv', [Next]_vars
    PROVE  Extends(handed', handed)
<1>0. /\ TypeOK /\ TypeOK' /\ HandedInv
      /\ handed \in Seq(Handed) /\ handed' \in Seq(Handed) /\ Len(handed) \in Nat
      /\ \A i \in 1..Len(handed) : handed[i] \in Handed
  BY LenProperties, ElementOfSeq DEF CoreInv, TypeOK
<1>1. ASSUME handed' = handed PROVE Extends(handed', handed)
  <2>1. \A i \in 1..Len(handed) : handed[i].chunks <= handed[i].chunks
    BY <1>0 DEF Handed
  <2>2. QED
    BY <1>0, <1>1, <2>1 DEF Extends
<1>2. CASE SendFile /\ handed' # handed
  <2>1. PICK f \in Files : handed' = Append(handed, [file |-> f, chunks |-> 0, ended |-> FALSE])
    BY <1>0, <1>2, SendFileStep
  <2>2. [file |-> f, chunks |-> 0, ended |-> FALSE] \in Handed
    BY DEF Handed
  <2>3. /\ Len(handed') = Len(handed) + 1
        /\ \A i \in 1..Len(handed) : handed'[i] = handed[i]
    BY <1>0, <2>1, <2>2, AppendProperties
  <2>4. \A i \in 1..Len(handed) : handed[i].chunks <= handed[i].chunks
    BY <1>0 DEF Handed
  <2>5. QED
    BY <1>0, <2>3, <2>4 DEF Extends
<1>3. CASE SendChunk \/ EndFile
  <2>1. /\ Len(handed) \in 1..Len(handed)
        /\ ~handed[Len(handed)].ended
        /\ Len(handed') = Len(handed)
        /\ \A i \in 1..Len(handed) : i # Len(handed) => handed'[i] = handed[i]
        /\ handed'[Len(handed)].file = handed[Len(handed)].file
        /\ \/ handed'[Len(handed)].chunks = handed[Len(handed)].chunks + 1
           \/ handed'[Len(handed)].chunks = handed[Len(handed)].chunks
    BY <1>0, <1>3, LastFileStep
  <2>2. ASSUME NEW i \in 1..Len(handed)
        PROVE  /\ handed'[i].file = handed[i].file /\ handed[i].chunks <= handed'[i].chunks
               /\ handed[i].ended => handed'[i] = handed[i]
    <3>1. handed[i].chunks \in Nat
      BY <1>0 DEF Handed
    <3>2. CASE i = Len(handed)
      BY <2>1, <3>1, <3>2
    <3>3. CASE i # Len(handed)
      BY <2>1, <3>1, <3>3
    <3>4. QED
      BY <3>2, <3>3
  <2>3. QED
    BY <1>0, <2>1, <2>2 DEF Extends
<1>4. Frame
  BY <1>0, StepFrame
<1>5. QED
  BY <1>1, <1>2, <1>3, <1>4 DEF Frame

LEMMA FollowsOn ==
    ASSUME NEW h \in Seq(Handed), NEW g \in Seq(Handed), Extends(g, h),
           NEW p \in Nat \X Nat, NEW m, Follows(h, p, m)
    PROVE  Follows(g, p, m)
<1> DEFINE a == p[1]
           b == p[2]
<1>1. a \in Nat /\ b \in Nat /\ Len(h) \in Nat /\ Len(g) \in Nat
  BY LenProperties
<1>2. \A i \in 1..Len(h) : h[i] \in Handed /\ h[i].chunks \in Nat
  <2>1. \A i \in 1..Len(h) : h[i] \in Handed
    BY ElementOfSeq
  <2>2. QED
    BY <2>1 DEF Handed
<1>3. \A i \in 1..Len(g) : g[i].chunks \in Nat
  <2>1. \A i \in 1..Len(g) : g[i] \in Handed
    BY ElementOfSeq
  <2>2. QED
    BY <2>1 DEF Handed
<1>4. Complete(h, p) => Complete(g, p)
  <2> SUFFICES ASSUME Complete(h, p), a > 0
               PROVE  a <= Len(g) /\ g[a].ended /\ g[a].chunks = b
    BY DEF Complete
  <2> HIDE DEF a, b
  <2>1. a <= Len(h) /\ h[a].ended /\ h[a].chunks = b
    BY DEF Complete, a, b
  <2>2. a \in 1..Len(h)
    BY <1>1, <2>1
  <2>3. g[a] = h[a] /\ Len(h) <= Len(g)
    BY <2>1, <2>2 DEF Extends
  <2>4. QED
    BY <1>1, <2>1, <2>3
<1>5. CASE /\ m.kind = "header" /\ m.of = <<a + 1, 0>>
           /\ a < Len(h) /\ m.file = h[a + 1].file
           /\ Complete(h, p)
  <2>1. a < Len(g) /\ g[a + 1].file = h[a + 1].file
    <3> HIDE DEF a, b
    <3>1. a + 1 \in 1..Len(h)
      BY <1>1, <1>5
    <3>2. QED
      BY <1>1, <1>5, <3>1 DEF Extends
  <2>2. QED
    BY <1>4, <1>5, <2>1 DEF Follows
<1>6. CASE /\ m.kind = "chunk" /\ m.of = <<a, b + 1>>
           /\ a \in 1..Len(h) /\ b < h[a].chunks
  <2>1. a \in 1..Len(g) /\ b < g[a].chunks
    <3> HIDE DEF a, b
    <3>1. h[a].chunks <= g[a].chunks /\ Len(h) <= Len(g)
      BY <1>6 DEF Extends
    <3>2. a \in 1..Len(g)
      BY <1>1, <1>6, <3>1
    <3>3. QED
      BY <1>1, <1>2, <1>3, <1>6, <3>1, <3>2
  <2>2. QED
    BY <1>6, <2>1 DEF Follows
<1>7. CASE ~Content(m) /\ (a > 0 => m = Delimiter) /\ Complete(h, p)
  BY <1>4, <1>7 DEF Follows
<1>8. QED
  BY <1>5, <1>6, <1>7 DEF Follows

\* Marks are pairs of numbers.
LEMMA BeforeType ==
    ASSUME TypeOK
    PROVE  /\ \A m \in Message : Mark(m) \in Nat \X Nat
           /\ \A k \in 1..(Len(Pipe("R")) + 1) : Before(k) \in Nat \X Nat
<1>1. \A m \in Message : Mark(m) \in Nat \X Nat
  <2> SUFFICES ASSUME NEW m \in Message PROVE Mark(m) \in Nat \X Nat
    OBVIOUS
  <2>1. CASE m.kind = "header"
    <3>1. m.of \in Nat \X {0}
      BY <2>1, MessageParts
    <3>2. QED
      BY <2>1, <3>1 DEF Mark, Content
  <2>2. CASE m.kind = "chunk"
    <3>1. m.of \in Nat \X Nat
      BY <2>2, MessageParts
    <3>2. QED
      BY <2>2, <3>1 DEF Mark, Content
  <2>3. CASE ~Content(m)
    BY <2>3 DEF Mark
  <2>4. QED
    BY <2>1, <2>2, <2>3 DEF Content
<1>2. Read \in Nat \X Nat
  BY ReadIs
<1>3. Len(Pipe("R")) \in Nat /\ \A k \in 1..Len(Pipe("R")) : Pipe("R")[k] \in Message
  BY PipeType, TheSides
<1>4. ASSUME NEW k \in 1..(Len(Pipe("R")) + 1) PROVE Before(k) \in Nat \X Nat
  <2>1. CASE k = 1
    BY <1>2, <2>1 DEF Before
  <2>2. CASE k # 1
    <3>1. k - 1 \in 1..Len(Pipe("R"))
      BY <1>3, <2>2
    <3>2. Mark(Pipe("R")[k - 1]) \in Nat \X Nat
      BY <1>1, <1>3, <3>1
    <3>3. QED
      BY <2>2, <3>2 DEF Before
  <2>3. QED
    BY <2>1, <2>2
<1>5. QED
  BY <1>1, <1>4

\* The marks of the next state.
LEMMA BeforeNext ==
    ASSUME NEW k
    PROVE  Before(k)' = IF k = 1 THEN Read' ELSE Mark(Pipe("R")'[k - 1])
BY DEF Before

\* The mark at the end of the pipe.
AtEnd == Before(Len(Pipe("R")) + 1)

LEMMA AtEndNext ==
    ASSUME TypeOK'
    PROVE  AtEnd' = IF Len(Pipe("R")') = 0 THEN Read' ELSE Mark(Pipe("R")'[Len(Pipe("R")')])
<1>1. Len(Pipe("R")') \in Nat
  BY PipeRangeNext, TheSides
<1>2. AtEnd' = IF Len(Pipe("R")') + 1 = 1 THEN Read'
               ELSE Mark(Pipe("R")'[Len(Pipe("R")') + 1 - 1])
  BY DEF AtEnd, Before
<1> DEFINE Q == Pipe("R")'
<1>3. (Len(Q) + 1 = 1 <=> Len(Q) = 0) /\ Len(Q) + 1 - 1 = Len(Q)
  <2> HIDE DEF Q
  <2>1. Len(Q) \in Nat
    BY <1>1 DEF Q
  <2>2. QED
    BY <2>1
<1>4. QED
  BY <1>2, <1>3

\* On a connection that is up, the sender writes after the end of the pipe.
LEMMA EndIs ==
    ASSUME CoreInv, ChainInv, at["R"] \notin Over("R"), link = "up",
           at["S"] \in Filing("S") \cup Early("S")
    PROVE  AtEnd = Written
<1> USE DEF AtEnd
<1>1. CASE at["S"] \in Filing("S")
  BY <1>1 DEF ChainInv
<1>2. CASE at["S"] \in Early("S")
  <2>1. handed = <<>>
    BY <1>2 DEF CoreInv, HandedInv
  <2>2. streams = <<>> /\ \A k \in 1..Len(Pipe("R")) : ~Content(Pipe("R")[k])
    BY <2>1 DEF ChainInv
  <2>3. Read = <<0, 0>> /\ Written = <<0, 0>>
    BY <2>1, <2>2 DEF Read, Written
  <2>4. Len(Pipe("R")) \in Nat
    BY PipeType, TheSides DEF CoreInv
  <2> DEFINE L == Len(Pipe("R"))
  <2>5. CASE L = 0
    BY <2>3, <2>5 DEF Before
  <2>6. CASE L # 0
    <3>1. L + 1 # 1 /\ L + 1 - 1 = L /\ L \in 1..L
      BY <2>4, <2>6
    <3>2. Mark(Pipe("R")[L]) = <<0, 0>>
      BY <2>2, <3>1 DEF Mark
    <3>3. QED
      BY <2>3, <3>1, <3>2 DEF Before
  <2>7. QED
    BY <2>5, <2>6
<1>3. QED
  BY <1>1, <1>2

-----------------------------------------------------------------------------
(* The invariants of the pipe and of the streams.                          *)

\* A part is sent with the delimiter after it, and a preface is none of a file.
LEMMA PrefaceParts ==
    ASSUME NEW ms \in Seq(Message), Preface(ms)
    PROVE  /\ \A j \in 1..Len(ms) : ms[j].kind = "part" => j < Len(ms) /\ ms[j + 1] = Delimiter
           /\ \A j \in 1..Len(ms) : ~Content(ms[j])
<1>1. ASSUME NEW m \in Message, ms = <<m>>, m.kind \notin {"part", "header", "chunk"}
      PROVE  /\ \A j \in 1..Len(ms) : ms[j].kind = "part" => j < Len(ms) /\ ms[j + 1] = Delimiter
             /\ \A j \in 1..Len(ms) : ~Content(ms[j])
  <2>1. Len(ms) = 1 /\ ms[1] = m
    BY <1>1, OneMessage
  <2>2. QED
    BY <1>1, <2>1 DEF Content
<1>2. ASSUME NEW r \in Results, NEW F \in SUBSET Files, ms = Text(r, F)
      PROVE  /\ \A j \in 1..Len(ms) : ms[j].kind = "part" => j < Len(ms) /\ ms[j + 1] = Delimiter
             /\ \A j \in 1..Len(ms) : ~Content(ms[j])
  <2>1. Len(ms) = 2 /\ ms[1] = Part(r, F, NoKey) /\ ms[2] = Delimiter
    BY <1>2, TextType
  <2>2. Part(r, F, NoKey).kind = "part" /\ Delimiter.kind = "delimiter"
    BY DEF Part, Delimiter
  <2>3. QED
    BY <2>1, <2>2 DEF Content
<1>3. QED
  BY <1>1, <1>2 DEF Preface

\* What is sent, one way or another.
LEMMA SentParts ==
    ASSUME CoreInv, Arrives
    PROVE  \E ms \in Seq(Message) :
              /\ Gets(ms) /\ Len(ms) \in Nat
              /\ \A j \in 1..Len(ms) : ms[j].kind = "part" => j < Len(ms) /\ ms[j + 1] = Delimiter
<1>1. PICK ms \in Seq(Message) :
         /\ Gets(ms)
         /\ \/ Preface(ms)
            \/ ms = <<Delimiter>>
            \/ \E f \in Files : ms = <<Header(Len(handed) + 1, f)>>
            \/ ms = Chunk(Len(handed), handed[Len(handed)].chunks + 1)
  BY DEF Arrives
<1>2. ASSUME NEW m, ms = <<m>>, m.kind # "part"
      PROVE  \A j \in 1..Len(ms) : ms[j].kind = "part" => j < Len(ms) /\ ms[j + 1] = Delimiter
  <2>1. Len(ms) = 1 /\ ms[1] = m
    BY <1>2
  <2>2. QED
    BY <1>2, <2>1
<1>3. \A j \in 1..Len(ms) : ms[j].kind = "part" => j < Len(ms) /\ ms[j + 1] = Delimiter
  <2>1. CASE Preface(ms)
    BY <2>1, PrefaceParts
  <2>2. CASE ms = <<Delimiter>>
    BY <1>2, <2>2 DEF Delimiter
  <2>3. CASE \E f \in Files : ms = <<Header(Len(handed) + 1, f)>>
    BY <1>2, <2>3 DEF Header
  <2>4. CASE ms = Chunk(Len(handed), handed[Len(handed)].chunks + 1)
    BY <1>2, <2>4 DEF Chunk
  <2>5. QED
    BY <1>1, <2>1, <2>2, <2>3, <2>4
<1>4. QED
  BY <1>1, <1>3, LenProperties

LEMMA TextNext ==
    ASSUME CoreInv, CoreInv', TextInv, ChainInv, [Next]_vars
    PROVE  TextInv'
<1> DEFINE P == Pipe("R")
           Q == Pipe("R")'
<1>0. /\ Len(P) \in Nat /\ Len(Q) \in Nat
      /\ link' = link \/ link' = "down"
  <2>1. Len(P) \in Nat
    BY PipeType, TheSides DEF CoreInv
  <2>2. Len(Q) \in Nat
    BY PipeRangeNext, TheSides DEF CoreInv
  <2>3. QED
    BY <2>1, <2>2, StepFrame DEF Frame
<1>1. SUFFICES ASSUME NEW k \in 1..Len(Q), Q[k].kind = "part"
               PROVE  IF k < Len(Q) THEN Q[k + 1] = Delimiter ELSE link' = "down"
  BY DEF TextInv
<1>2. \A i \in 1..Len(P) : P[i].kind = "part" =>
          IF i < Len(P) THEN P[i + 1] = Delimiter ELSE link = "down"
  BY DEF TextInv
<1>3. CASE Advances
  <2>1. PICK n \in 0..2 : Takes(n)
    BY <1>3 DEF Advances
  <2>2. Len(Q) = Len(P) - n /\ \A i \in 1..(Len(P) - n) : Q[i] = P[i + n]
    BY <2>1 DEF Takes
  <2> HIDE DEF P, Q
  <2>3. k + n \in 1..Len(P) /\ Q[k] = P[k + n]
    BY <1>0, <2>2
  <2>4. k < Len(Q) => k + n < Len(P) /\ Q[k + 1] = P[k + n + 1]
    <3>1. k < Len(Q) => k + 1 \in 1..(Len(P) - n) /\ k + 1 + n = k + n + 1 /\ k + n < Len(P)
      BY <1>0, <2>2
    <3>2. k < Len(Q) => Q[k + 1] = P[k + 1 + n]
      BY <2>2, <3>1
    <3>3. QED
      BY <3>1, <3>2
  <2>5. ~(k < Len(Q)) => ~(k + n < Len(P))
    BY <1>0, <2>2
  <2>6. QED
    BY <1>0, <1>1, <1>2, <2>3, <2>4, <2>5
<1>4. CASE Arrives
  <2>1. PICK ms \in Seq(Message) :
           /\ Gets(ms) /\ Len(ms) \in Nat
           /\ \A j \in 1..Len(ms) : ms[j].kind = "part" => j < Len(ms) /\ ms[j + 1] = Delimiter
    BY <1>4, SentParts
  <2>2. /\ Len(Q) = Len(P) + Len(ms)
        /\ \A i \in 1..Len(P) : Q[i] = P[i]
        /\ \A i \in 1..Len(ms) : Q[Len(P) + i] = ms[i]
    BY <2>1 DEF Gets
  <2>3. link # "down"
    BY <1>4 DEF Arrives
  <2>a. Len(ms) \in Nat /\ Len(Q) = Len(P) + Len(ms)
    BY <2>1, <2>2
  <2> HIDE DEF P, Q
  <2>4. CASE k <= Len(P)
    <3>1. k \in 1..Len(P) /\ P[k].kind = "part"
      BY <1>0, <1>1, <2>2, <2>4
    <3>2. k < Len(P) /\ P[k + 1] = Delimiter
      BY <1>2, <2>3, <3>1
    <3>3. k < Len(Q) /\ k + 1 \in 1..Len(P)
      BY <1>0, <2>a, <3>1, <3>2
    <3>4. Q[k + 1] = P[k + 1]
      BY <2>2, <3>3
    <3>5. QED
      BY <3>2, <3>3, <3>4
  <2>5. CASE k > Len(P)
    <3> DEFINE j == k - Len(P)
    <3>1. j \in 1..Len(ms) /\ Len(P) + j = k
      BY <1>0, <2>a, <2>5
    <3>2. ms[j].kind = "part"
      <4>1. Q[Len(P) + j] = ms[j]
        BY <2>2, <3>1
      <4>2. QED
        BY <1>1, <3>1, <4>1
    <3>3. j < Len(ms) /\ ms[j + 1] = Delimiter
      BY <2>1, <3>1, <3>2
    <3> HIDE DEF j
    <3>4. j + 1 \in 1..Len(ms) /\ Len(P) + (j + 1) = k + 1 /\ k < Len(Q)
      BY <1>0, <2>a, <3>1, <3>3
    <3>5. Q[k + 1] = ms[j + 1]
      BY <2>2, <3>4
    <3>6. QED
      BY <3>3, <3>4, <3>5
  <2>6. QED
    BY <1>0, <2>4, <2>5
<1>5. CASE Ends
  <2>1. link' = "down" /\ Len(Q) <= Len(P) /\ \A i \in 1..Len(Q) : Q[i] = P[i]
    BY <1>5 DEF Ends, Loses
  <2> HIDE DEF P, Q
  <2>2. ASSUME k < Len(Q) PROVE Q[k + 1] = Delimiter
    <3>1. k \in 1..Len(P) /\ k < Len(P) /\ k + 1 \in 1..Len(Q)
      BY <1>0, <2>1, <2>2
    <3>2. P[k].kind = "part" /\ Q[k + 1] = P[k + 1]
      BY <1>1, <2>1, <3>1
    <3>3. QED
      BY <1>2, <3>1, <3>2
  <2>3. QED
    BY <2>1, <2>2
<1>6. QED
  BY <1>3, <1>4, <1>5, StepPipe

\* Where the tasks come from: the receiver's has not ended before, and the
\* sender's was at the files or before them.
LEMMA FilesGoOn ==
    ASSUME TypeOK, [Next]_vars
    PROVE  /\ at'["R"] \notin Over("R") => at["R"] \notin Over("R")
           /\ link' = "up" => link = "up"
           /\ at'["S"] \in Filing("S") => at["S"] \in Filing("S") \cup Early("S")
BY StepMoves, StepFrame DEF Moves, Frame

\* The receiver moves on: the rest of the pipe is as it was.
LEMMA ChainAdvances ==
    ASSUME CoreInv, CoreInv', ChainInv, [Next]_vars, Advances, at'["R"] \notin Over("R")
    PROVE  /\ \A k \in 1..Len(Pipe("R")') : Follows(handed', Before(k)', Pipe("R")'[k])
           /\ link' = "up" /\ at'["S"] \in Filing("S") => AtEnd' = Written'
<1> DEFINE P == Pipe("R")
           Q == Pipe("R")'
<1>1. /\ at["R"] \notin Over("R") /\ (link' = "up" => link = "up")
      /\ at'["S"] \in Filing("S") => at["S"] \in Filing("S") \cup Early("S")
  BY FilesGoOn DEF CoreInv
<1>2. PICK n \in 0..2 : /\ n <= Len(P) /\ Takes(n) /\ Read' = Before(n + 1)
                        /\ link = "up" => Written' = Written
  BY DEF Advances
<1>3. /\ Len(P) \in Nat /\ Len(Q) = Len(P) - n /\ \A i \in 1..(Len(P) - n) : Q[i] = P[i + n]
      /\ \A i \in 1..Len(P) : P[i] \in Message
  BY <1>2, PipeType, TheSides DEF CoreInv, Takes
<1>4. handed \in Seq(Handed) /\ handed' \in Seq(Handed) /\ Extends(handed', handed)
  BY HandedExtends DEF CoreInv, TypeOK
<1>5. \A i \in 1..Len(P) : Follows(handed, Before(i), P[i])
  BY <1>1 DEF ChainInv
<1>6. \A i \in 1..(Len(P) + 1) : Before(i) \in Nat \X Nat
  BY BeforeType DEF CoreInv
<1>7. ASSUME NEW k \in 1..(Len(Q) + 1) PROVE Before(k)' = Before(k + n)
  <2>1. CASE k = 1
    <3>1. Before(k)' = Read'
      BY <2>1, BeforeNext
    <3>2. k + n = n + 1
      BY <2>1
    <3>3. QED
      BY <1>2, <3>1, <3>2
  <2>2. CASE k # 1
    <3>1. Before(k)' = Mark(Q[k - 1])
      BY <2>2, BeforeNext
    <3> HIDE DEF P, Q
    <3>2. k - 1 \in 1..(Len(P) - n) /\ k - 1 + n = k + n - 1 /\ k + n # 1
      BY <1>3, <2>2
    <3>3. Q[k - 1] = P[k + n - 1]
      BY <1>3, <3>2
    <3>4. Before(k + n) = Mark(P[k + n - 1])
      BY <3>2 DEF Before, P
    <3>5. QED
      BY <3>1, <3>3, <3>4
  <2>3. QED
    BY <2>1, <2>2
<1>8. ASSUME NEW k \in 1..Len(Q) PROVE Follows(handed', Before(k)', Q[k])
  <2>1. k \in 1..(Len(Q) + 1) /\ k + n \in 1..Len(P) /\ k + n \in 1..(Len(P) + 1)
        /\ k \in 1..(Len(P) - n)
    <3> HIDE DEF P, Q
    <3>1. QED
      BY <1>3
  <2>2. Before(k)' = Before(k + n) /\ Q[k] = P[k + n]
    BY <1>3, <1>7, <2>1
  <2>3. Follows(handed, Before(k + n), P[k + n]) /\ Before(k + n) \in Nat \X Nat
    BY <1>5, <1>6, <2>1
  <2>4. Follows(handed', Before(k + n), P[k + n])
    BY <1>4, <2>3, FollowsOn
  <2>5. QED
    BY <2>2, <2>4
<1>9. ASSUME link' = "up", at'["S"] \in Filing("S") PROVE AtEnd' = Written'
  <2>1. AtEnd = Written /\ Written' = Written
    BY <1>1, <1>2, <1>9, EndIs
  <2>2. AtEnd' = IF Len(Q) = 0 THEN Read' ELSE Mark(Q[Len(Q)])
    BY AtEndNext DEF CoreInv
  <2>3. CASE Len(Q) = 0
    <3>1. n + 1 = Len(P) + 1
      <4> HIDE DEF P, Q
      <4>1. QED
        BY <1>2, <1>3, <2>3
    <3>2. Before(n + 1) = AtEnd
      BY <3>1 DEF AtEnd
    <3>3. QED
      BY <1>2, <2>1, <2>2, <2>3, <3>2
  <2>4. CASE Len(Q) # 0
    <3>1. Len(Q) \in 1..(Len(P) - n) /\ Len(Q) + n = Len(P) /\ Len(P) + 1 # 1
          /\ Len(P) + 1 - 1 = Len(P)
      <4> HIDE DEF P, Q
      <4>1. QED
        BY <1>2, <1>3, <2>4
    <3>2. Q[Len(Q)] = P[Len(P)]
      BY <1>3, <3>1
    <3>3. AtEnd = Mark(P[Len(P)])
      BY <3>1 DEF AtEnd, Before
    <3>4. QED
      BY <2>1, <2>2, <2>4, <3>2, <3>3
  <2>5. QED
    BY <2>3, <2>4
<1>10. QED
  BY <1>8, <1>9

\* What was on its way is lost, what has arrived is not.
LEMMA ChainEnds ==
    ASSUME CoreInv, CoreInv', ChainInv, [Next]_vars, Ends, at'["R"] \notin Over("R")
    PROVE  \A k \in 1..Len(Pipe("R")') : Follows(handed', Before(k)', Pipe("R")'[k])
<1> DEFINE P == Pipe("R")
           Q == Pipe("R")'
<1>1. at["R"] \notin Over("R")
  BY FilesGoOn DEF CoreInv
<1>2. /\ Len(P) \in Nat /\ Len(Q) \in Nat /\ Len(Q) <= Len(P)
      /\ \A i \in 1..Len(Q) : Q[i] = P[i]
      /\ streams' = streams /\ handed' = handed
  BY PipeType, PipeRangeNext, TheSides DEF CoreInv, Ends, Loses
<1>3. Read' = Read
  BY <1>2 DEF Read
<1> SUFFICES ASSUME NEW k \in 1..Len(Q) PROVE Follows(handed', Before(k)', Q[k])
  OBVIOUS
<1>4. Before(k)' = Before(k)
  <2>1. CASE k = 1
    BY <1>3, <2>1, BeforeNext DEF Before
  <2>2. CASE k # 1
    <3> HIDE DEF P, Q
    <3>1. k - 1 \in 1..Len(Q)
      BY <1>2, <2>2
    <3>2. Q[k - 1] = P[k - 1]
      BY <1>2, <3>1
    <3>3. QED
      BY <2>2, <3>2, BeforeNext DEF Before, P, Q
  <2>3. QED
    BY <2>1, <2>2
<1>5. k \in 1..Len(P)
  <2> HIDE DEF P, Q
  <2>1. QED
    BY <1>2
<1>6. Follows(handed, Before(k), P[k])
  BY <1>1, <1>5 DEF ChainInv
<1>7. QED
  BY <1>2, <1>4, <1>6

\* Nothing of a file is in the pipe, nor has been read.
LEMMA ChainPreface ==
    ASSUME CoreInv, CoreInv', handed' = <<>>, streams' = <<>>,
           \A k \in 1..Len(Pipe("R")') : ~Content(Pipe("R")'[k])
    PROVE  /\ \A k \in 1..Len(Pipe("R")') : Follows(handed', Before(k)', Pipe("R")'[k])
           /\ AtEnd' = Written'
<1> DEFINE Q == Pipe("R")'
<1>1. Read' = <<0, 0>> /\ Written' = <<0, 0>>
  BY DEF Read, Written
<1>2. Len(Q) \in Nat
  BY PipeRangeNext, TheSides DEF CoreInv
<1>3. \A k \in 1..Len(Q) : Mark(Q[k]) = <<0, 0>>
  BY DEF Mark
<1>4. ASSUME NEW k \in 1..Len(Q) PROVE Before(k)' = <<0, 0>>
  <2>1. k # 1 => k - 1 \in 1..Len(Q)
    <3> HIDE DEF Q
    <3>1. QED
      BY <1>2
  <2>2. k # 1 => Mark(Q[k - 1]) = <<0, 0>>
    BY <1>3, <2>1
  <2>3. QED
    BY <1>1, <2>2, BeforeNext
<1>5. ASSUME NEW k \in 1..Len(Q) PROVE Follows(handed', Before(k)', Q[k])
  <2>1. Follows(handed', <<0, 0>>, Q[k])
    BY <1>5 DEF Follows, Complete
  <2>2. QED
    BY <1>4, <2>1
<1>6. AtEnd' = Written'
  <2>1. Len(Q) # 0 => Len(Q) \in 1..Len(Q)
    <3> HIDE DEF Q
    <3>1. QED
      BY <1>2
  <2>2. Len(Q) # 0 => Mark(Q[Len(Q)]) = <<0, 0>>
    BY <1>3, <2>1
  <2>3. QED
    BY <1>1, <2>2, AtEndNext DEF CoreInv
<1>7. QED
  BY <1>5, <1>6

\* One message is sent, and it follows what the sender wrote before.
LEMMA ChainSent ==
    ASSUME CoreInv, CoreInv', ChainInv, [Next]_vars, at'["R"] \notin Over("R"), link = "up",
           at["S"] \in Filing("S"), streams' = streams,
           NEW m \in Message, Gets(<<m>>), Follows(handed', Written, m)
    PROVE  /\ \A k \in 1..Len(Pipe("R")') : Follows(handed', Before(k)', Pipe("R")'[k])
           /\ AtEnd' = Mark(m)
<1> DEFINE P == Pipe("R")
           Q == Pipe("R")'
<1>1. at["R"] \notin Over("R") /\ Read' = Read
  BY FilesGoOn DEF CoreInv, Read
<1>2. /\ Len(P) \in Nat /\ Len(Q) = Len(P) + 1
      /\ \A i \in 1..Len(P) : Q[i] = P[i]
      /\ Q[Len(P) + 1] = m
  <2>1. Len(<<m>>) = 1 /\ <<m>>[1] = m
    BY OneMessage
  <2>2. Len(P) \in Nat
    BY PipeType, TheSides DEF CoreInv
  <2>3. QED
    BY <2>1, <2>2 DEF Gets
<1>3. handed \in Seq(Handed) /\ handed' \in Seq(Handed) /\ Extends(handed', handed)
  BY HandedExtends DEF CoreInv, TypeOK
<1>4. \A i \in 1..Len(P) : Follows(handed, Before(i), P[i])
  BY <1>1 DEF ChainInv
<1>5. \A i \in 1..(Len(P) + 1) : Before(i) \in Nat \X Nat
  BY BeforeType DEF CoreInv
<1>6. ASSUME NEW k \in 1..(Len(P) + 1) PROVE Before(k)' = Before(k)
  <2>1. CASE k = 1
    BY <1>1, <2>1, BeforeNext DEF Before
  <2>2. CASE k # 1
    <3> HIDE DEF P, Q
    <3>1. k - 1 \in 1..Len(P)
      BY <1>2, <2>2
    <3>2. Q[k - 1] = P[k - 1]
      BY <1>2, <3>1
    <3>3. QED
      BY <2>2, <3>2, BeforeNext DEF Before, P, Q
  <2>3. QED
    BY <2>1, <2>2
<1>7. Len(P) + 1 \in 1..(Len(P) + 1) /\ Before(Len(P) + 1) = Written
  <2>1. Len(P) + 1 \in 1..(Len(P) + 1)
    <3> HIDE DEF P, Q
    <3>1. QED
      BY <1>2
  <2>2. QED
    BY <1>1, <2>1, EndIs DEF AtEnd
<1>8. ASSUME NEW k \in 1..Len(Q) PROVE Follows(handed', Before(k)', Q[k])
  <2>1. CASE k = Len(P) + 1
    <3>1. k \in 1..(Len(P) + 1)
      BY <1>7, <2>1
    <3>2. Before(k)' = Written
      BY <1>6, <1>7, <2>1, <3>1
    <3>3. QED
      BY <1>2, <2>1, <3>2
  <2>2. CASE k # Len(P) + 1
    <3>1. k \in 1..Len(P) /\ k \in 1..(Len(P) + 1)
      <4> HIDE DEF P, Q
      <4>1. QED
        BY <1>2, <2>2
    <3>2. Before(k)' = Before(k) /\ Q[k] = P[k] /\ Before(k) \in Nat \X Nat
      BY <1>2, <1>5, <1>6, <3>1
    <3>3. Follows(handed, Before(k), P[k])
      BY <1>4, <3>1
    <3>4. Follows(handed', Before(k), P[k])
      BY <1>3, <3>2, <3>3, FollowsOn
    <3>5. QED
      BY <3>2, <3>4
  <2>3. QED
    BY <2>1, <2>2
<1>9. AtEnd' = Mark(m)
  <2>1. Len(Q) # 0 /\ Q[Len(Q)] = m
    <3> HIDE DEF P, Q
    <3>1. QED
      BY <1>2
  <2>2. QED
    BY <2>1, AtEndNext DEF CoreInv
<1>10. QED
  BY <1>8, <1>9

\* What the sender sends of its files follows what it wrote before.
LEMMA ChainArrives ==
    ASSUME CoreInv, CoreInv', ChainInv, [Next]_vars, Arrives
    PROVE  /\ handed' = <<>> => \A k \in 1..Len(Pipe("R")') : ~Content(Pipe("R")'[k])
           /\ at'["R"] \notin Over("R") =>
                 /\ \A k \in 1..Len(Pipe("R")') : Follows(handed', Before(k)', Pipe("R")'[k])
                 /\ link' = "up" /\ at'["S"] \in Filing("S") => AtEnd' = Written'
<1> DEFINE P == Pipe("R")
           Q == Pipe("R")'
           L == Len(handed)
<1>0. /\ TypeOK /\ HandedInv /\ Len(P) \in Nat /\ handed \in Seq(Handed) /\ L \in Nat
      /\ link = "up" /\ streams' = streams
  BY PipeType, TheSides, WrittenIs DEF CoreInv, TypeOK, Arrives
<1>1. PICK ms \in Seq(Message) :
         /\ Gets(ms)
         /\ \/ Preface(ms) /\ at["S"] \in Early("S") /\ handed' = handed
            \/ /\ ms = <<Delimiter>> /\ handed' = handed
               /\ at["S"] = "draining" /\ at'["S"] = "last"
            \/ /\ at["S"] = "files"
               /\ \E f \in Files :
                     /\ ms = <<Header(L + 1, f)>>
                     /\ handed' = Append(handed, [file |-> f, chunks |-> 0, ended |-> FALSE])
            \/ SendChunk /\ ms = Chunk(L, handed[L].chunks + 1)
  BY DEF Arrives
<1>2. ASSUME handed = <<>>, \A j \in 1..Len(ms) : ~Content(ms[j])
      PROVE  \A k \in 1..Len(Q) : ~Content(Q[k])
  <2>1. \A k \in 1..Len(P) : ~Content(P[k])
    BY <1>2 DEF ChainInv
  <2>2. /\ Len(Q) = Len(P) + Len(ms) /\ Len(ms) \in Nat
        /\ \A i \in 1..Len(P) : Q[i] = P[i]
        /\ \A i \in 1..Len(ms) : Q[Len(P) + i] = ms[i]
    BY <1>1, LenProperties DEF Gets
  <2> SUFFICES ASSUME NEW k \in 1..Len(Q) PROVE ~Content(Q[k])
    OBVIOUS
  <2> HIDE DEF P, Q
  <2>3. CASE k <= Len(P)
    <3>1. k \in 1..Len(P)
      BY <1>0, <2>2, <2>3
    <3>2. QED
      BY <2>1, <2>2, <3>1
  <2>4. CASE k > Len(P)
    <3>1. k - Len(P) \in 1..Len(ms) /\ Len(P) + (k - Len(P)) = k
      BY <1>0, <2>2, <2>4
    <3>2. Q[k] = ms[k - Len(P)]
      BY <2>2, <3>1
    <3>3. QED
      BY <1>2, <3>1, <3>2
  <2>5. QED
    BY <1>0, <2>2, <2>3, <2>4
<1>3. CASE Preface(ms) /\ at["S"] \in Early("S") /\ handed' = handed
  <2>1. handed = <<>> /\ streams = <<>>
    BY <1>0, <1>3 DEF HandedInv, ChainInv
  <2>2. \A k \in 1..Len(Q) : ~Content(Q[k])
    BY <1>2, <1>3, <2>1, PrefaceParts
  <2>3. QED
    BY <1>0, <1>3, <2>1, <2>2, ChainPreface
<1>4. CASE /\ ms = <<Delimiter>> /\ handed' = handed
           /\ at["S"] = "draining" /\ at'["S"] = "last"
  <2>1. Delimiter \in Message /\ ~Content(Delimiter)
    BY DEF Message, Content, Delimiter
  <2>2. handed' = <<>> => \A k \in 1..Len(Q) : ~Content(Q[k])
    <3>1. \A j \in 1..Len(ms) : ~Content(ms[j])
      <4>1. Len(ms) = 1 /\ ms[1] = Delimiter
        BY <1>4, <2>1, OneMessage
      <4>2. QED
        BY <2>1, <4>1
    <3>2. QED
      BY <1>2, <1>4, <3>1
  <2>3. Follows(handed', Written, Delimiter)
    <3>1. CASE L = 0
      BY <1>0, <2>1, <3>1, WrittenIs DEF Follows, Complete
    <3>2. CASE L # 0
      <4>1. handed[L].ended
        <5>1. L \in 1..L
          BY <1>0, <3>2
        <5>2. QED
          BY <1>0, <1>4, <5>1 DEF HandedInv
      <4>2. Written = <<L, handed[L].chunks>>
        BY <1>0, <3>2, WrittenIs
      <4>3. QED
        BY <1>0, <1>4, <2>1, <4>1, <4>2 DEF Follows, Complete
    <3>3. QED
      BY <3>1, <3>2
  <2>4. at["S"] \in Filing("S") /\ at'["S"] \notin Filing("S")
    BY <1>4 DEF Filing
  <2>5. QED
    BY <1>0, <1>1, <1>4, <2>1, <2>2, <2>3, <2>4, ChainSent
<1>5. ASSUME NEW f \in Files, at["S"] = "files", ms = <<Header(L + 1, f)>>,
             handed' = Append(handed, [file |-> f, chunks |-> 0, ended |-> FALSE])
      PROVE  /\ handed' # <<>>
             /\ at'["R"] \notin Over("R") =>
                   /\ \A k \in 1..Len(Q) : Follows(handed', Before(k)', Q[k])
                   /\ AtEnd' = Written'
  <2> DEFINE m == Header(L + 1, f)
             new == [file |-> f, chunks |-> 0, ended |-> FALSE]
  <2>1. m \in Message /\ m.kind = "header" /\ m.of = <<L + 1, 0>> /\ m.file = f
    <3>1. L + 1 \in Nat
      BY <1>0
    <3>2. QED
      BY <3>1 DEF Header, Message
  <2>2. /\ Len(handed') = L + 1 /\ handed' # <<>>
        /\ \A i \in 1..L : handed'[i] = handed[i]
        /\ handed'[L + 1] = new
    <3>1. new \in Handed
      BY DEF Handed
    <3>2. QED
      BY <1>0, <1>5, <3>1, AppendProperties
  <2>3. Follows(handed', Written, m)
    <3>1. Complete(handed', Written) /\ Written[1] = L
      <4>1. CASE L = 0
        BY <1>0, <4>1, WrittenIs DEF Complete
      <4>2. CASE L # 0
        <5>1. L \in 1..L
          BY <1>0, <4>2
        <5>2. handed[L].ended /\ handed'[L] = handed[L]
          BY <1>0, <1>5, <2>2, <5>1 DEF HandedInv
        <5>3. Written = <<L, handed[L].chunks>>
          BY <1>0, <4>2, WrittenIs
        <5>4. QED
          BY <1>0, <2>2, <5>2, <5>3 DEF Complete
      <4>3. QED
        BY <4>1, <4>2
    <3>2. L < Len(handed') /\ handed'[L + 1].file = f
      BY <1>0, <2>2
    <3>3. QED
      BY <2>1, <3>1, <3>2 DEF Follows
  <2>4. Written' = m.of /\ Mark(m) = m.of
    <3>1. Written' = <<L + 1, 0>>
      BY <2>2 DEF Written
    <3>2. QED
      BY <2>1, <3>1 DEF Mark, Content
  <2>5. at["S"] \in Filing("S") /\ Gets(<<m>>)
    BY <1>1, <1>5 DEF Filing
  <2> HIDE DEF m, new
  <2>6. QED
    BY <1>0, <2>1, <2>2, <2>3, <2>4, <2>5, ChainSent
<1>6. CASE SendChunk /\ ms = Chunk(L, handed[L].chunks + 1)
  <2> DEFINE n == handed[L].chunks
             m == [kind |-> "chunk", of |-> <<L, n + 1>>]
  <2>1. /\ L \in 1..L /\ handed[L] \in Handed /\ Len(handed') = L
        /\ handed'[L].chunks = n + 1 /\ at["S"] = "chunks"
    BY <1>0, <1>6, LastFileStep
  <2>2. n \in Nat
    BY <2>1 DEF Handed
  <2>3. Written = <<L, n>> /\ Written' = <<L, n + 1>> /\ handed' # <<>>
    <3>1. L # 0
      BY <1>0, <2>1
    <3>2. handed' # <<>>
      BY <2>1, <3>1, EmptySeq
    <3>3. QED
      BY <1>0, <2>1, <3>1, <3>2, WrittenIs DEF Written
  <2> HIDE DEF n, L
  <2>4. m \in Message /\ m.kind = "chunk" /\ m.of = <<L, n + 1>> /\ Mark(m) = m.of
    BY <1>0, <2>2 DEF Message, Mark, Content
  <2>5. Follows(handed', Written, m)
    <3>1. n < handed'[L].chunks /\ L \in 1..Len(handed')
      BY <2>1, <2>2
    <3>2. QED
      BY <2>3, <2>4, <3>1 DEF Follows
  <2>6. at["S"] \in Filing("S") /\ Gets(<<m>>)
    BY <1>1, <1>6, <2>1 DEF Filing, Chunk, n
  <2> HIDE DEF m
  <2>7. QED
    BY <1>0, <2>3, <2>4, <2>5, <2>6, ChainSent
<1>7. QED
  BY <1>1, <1>3, <1>4, <1>5, <1>6

-----------------------------------------------------------------------------
(* The streams are the files.                                              *)

\* The i-th stream e is the i-th file of h.
Matched(h, e, i) ==
    /\ e.file = h[i].file
    /\ Len(e.chunks) <= h[i].chunks
    /\ \A n \in DOMAIN e.chunks : e.chunks[n] = <<i, n>>
    /\ e.ended => h[i].ended /\ Len(e.chunks) = h[i].chunks

LEMMA MatchIs ==
    /\ TypeOK => (StreamsMatch <=> /\ Len(streams) <= Len(handed)
                                   /\ \A i \in 1..Len(streams) : Matched(handed, streams[i], i))
    /\ TypeOK' => (StreamsMatch' <=>
                      /\ Len(streams') <= Len(handed')
                      /\ \A i \in 1..Len(streams') : Matched(handed', streams'[i], i))
<1>1. TypeOK => DOMAIN streams = 1..Len(streams)
  BY LenProperties DEF TypeOK
<1>2. TypeOK' => DOMAIN streams' = 1..Len(streams')
  BY LenProperties DEF TypeOK
<1>3. QED
  BY <1>1, <1>2 DEF StreamsMatch, Matched

LEMMA MatchedOn ==
    ASSUME NEW h \in Seq(Handed), NEW g \in Seq(Handed), Extends(g, h), Len(h) <= Len(g),
           NEW i \in 1..Len(h), NEW e \in Stream, Matched(h, e, i)
    PROVE  Matched(g, e, i)
<1>1. /\ g[i].file = h[i].file /\ h[i].chunks <= g[i].chunks
      /\ h[i].ended => g[i] = h[i]
  BY DEF Extends
<1>2. h[i].chunks \in Nat /\ g[i].chunks \in Nat
  <2>1. Len(h) \in Nat /\ Len(g) \in Nat
    BY LenProperties
  <2>2. i \in 1..Len(g)
    BY <2>1
  <2>3. h[i] \in Handed /\ g[i] \in Handed
    BY <2>2, ElementOfSeq
  <2>4. QED
    BY <2>3 DEF Handed
<1>3. Len(e.chunks) \in Nat
  <2>1. e.chunks \in Seq(Nat \X Nat)
    BY DEF Stream
  <2>2. QED
    BY <2>1, LenProperties
<1>4. QED
  BY <1>1, <1>2, <1>3 DEF Matched

\* A stream opens with the next file's header, takes the next chunk of it, and
\* ends when all of them have come.
LEMMA MatchNext ==
    ASSUME CoreInv, CoreInv', ChainInv, StreamsMatch, [Next]_vars
    PROVE  StreamsMatch'
<1> DEFINE L == Len(streams)
<1>0. /\ TypeOK /\ TypeOK' /\ ResultInv /\ L \in Nat /\ L <= Len(handed)
      /\ handed \in Seq(Handed) /\ handed' \in Seq(Handed)
      /\ Len(handed) \in Nat /\ Len(handed') \in Nat
      /\ streams \in Seq(Stream) /\ streams' \in Seq(Stream)
      /\ \A i \in 1..L : streams[i] \in Stream
      /\ \A i \in 1..L : Matched(handed, streams[i], i)
  BY MatchIs, LenProperties, ElementOfSeq DEF CoreInv, TypeOK
<1>1. Extends(handed', handed) /\ Len(handed) <= Len(handed')
  BY HandedExtends DEF Extends
<1>2. L <= Len(handed') /\ \A i \in 1..L : Matched(handed', streams[i], i)
  <2>1. L <= Len(handed') /\ \A i \in 1..L : i \in 1..Len(handed)
    BY <1>0, <1>1
  <2>2. QED
    BY <1>0, <1>1, <2>1, MatchedOn
<1>3. SUFFICES Len(streams') <= Len(handed')
               /\ \A i \in 1..Len(streams') : Matched(handed', streams'[i], i)
  BY <1>0, MatchIs
<1>4. CASE streams' = streams
  BY <1>2, <1>4
<1>5. CASE OpenStream
  <2> DEFINE m == Head(inbox["R"])
             new == [file |-> m.file, chunks |-> <<>>, ended |-> FALSE, result |-> "none"]
  <2>1. /\ at["R"] = "header" /\ inbox["R"] # <<>> /\ m.kind = "header"
        /\ Len(streams') = L + 1
        /\ \A i \in 1..L : streams'[i] = streams[i]
        /\ streams'[L + 1] = new
        /\ handed' = handed
    BY <1>0, <1>5, OpenStep
  <2>2. L < Len(handed) /\ m.file = handed[L + 1].file
    <3>1. Read[1] < Len(handed) /\ m.file = handed[Read[1] + 1].file
      BY <2>1, FirstFollows DEF Follows, Content
    <3>2. QED
      BY <1>0, <3>1, ReadIs
  <2>3. Matched(handed', new, L + 1)
    <3>1. handed[L + 1].chunks \in Nat
      <4>1. L + 1 \in 1..Len(handed)
        BY <1>0, <2>2
      <4>2. handed[L + 1] \in Handed
        BY <1>0, <4>1, ElementOfSeq
      <4>3. QED
        BY <4>2 DEF Handed
    <3>2. Len(<<>>) = 0 /\ DOMAIN <<>> = {}
      OBVIOUS
    <3>3. QED
      BY <2>1, <2>2, <3>1, <3>2 DEF Matched
  <2> HIDE DEF m, new
  <2>4. Len(streams') <= Len(handed')
    BY <1>0, <2>1, <2>2
  <2>5. ASSUME NEW i \in 1..(L + 1) PROVE Matched(handed', streams'[i], i)
    <3>1. CASE i \in 1..L
      BY <1>2, <2>1, <3>1
    <3>2. CASE i = L + 1
      BY <2>1, <2>3, <3>2
    <3>3. QED
      BY <1>0, <3>1, <3>2
  <2>6. QED
    BY <2>1, <2>4, <2>5
<1>6. CASE ReceiveChunk \/ EndStream \/ Report
  <2>0. handed' = handed
    BY <1>6 DEF ReceiveChunk, EndStream, Report
  <2>1. PICK i \in 1..Len(streams), e \in Stream :
          /\ Len(streams') = Len(streams)
          /\ \A j \in 1..Len(streams) : streams'[j] = IF j = i THEN e ELSE streams[j]
          /\ e.file = streams[i].file
          /\ \/ /\ ReceiveChunk /\ i = Len(streams)
                /\ at["R"] = "data"
                /\ e.chunks = Append(streams[i].chunks, Head(inbox["R"]).of)
                /\ e.ended = streams[i].ended
             \/ /\ EndStream /\ i = Len(streams)
                /\ at["R"] = "data"
                /\ e.chunks = streams[i].chunks /\ e.ended
             \/ e.chunks = streams[i].chunks /\ e.ended = streams[i].ended
    BY <1>0, <1>6, StreamStep, SMTT(60)
  <2> DEFINE c == streams[i].chunks
             m == Head(inbox["R"])
  <2>2. c \in Seq(Nat \X Nat) /\ Len(c) \in Nat /\ DOMAIN c = 1..Len(c)
    <3>1. c \in Seq(Nat \X Nat)
      BY <1>0 DEF Stream
    <3>2. QED
      BY <3>1, LenProperties
  <2>3. /\ streams[i].file = handed[i].file /\ Len(c) <= handed[i].chunks
        /\ \A n \in DOMAIN c : c[n] = <<i, n>>
        /\ streams[i].ended => handed[i].ended /\ Len(c) = handed[i].chunks
    BY <1>0 DEF Matched
  <2>4. ASSUME i = L
        PROVE  Read = <<i, Len(c)>> /\ i \in Nat /\ i > 0
    BY <1>0, <2>4, ReadIs
  <2>5. CASE /\ ReceiveChunk /\ i = Len(streams)
             /\ at["R"] = "data"
             /\ e.chunks = Append(streams[i].chunks, Head(inbox["R"]).of)
             /\ e.ended = streams[i].ended
    <3>1. inbox["R"] # <<>> /\ m.kind = "chunk"
      BY <2>5 DEF ReceiveChunk, Reads
    <3>2. /\ m.of = <<Read[1], Read[2] + 1>>
          /\ Read[1] \in 1..Len(handed) /\ Read[2] < handed[Read[1]].chunks
      BY <2>5, <3>1, FirstFollows DEF Follows, Content
    <3>3. m.of = <<i, Len(c) + 1>> /\ Len(c) < handed[i].chunks
      BY <2>4, <2>5, <3>2
    <3>4. ~streams[i].ended
      BY <1>0, <2>5 DEF ResultInv
    <3> DEFINE x == m.of
    <3>5. x \in Nat \X Nat
      BY <2>2, <2>4, <2>5, <3>3
    <3>6. handed[i].chunks \in Nat
      <4>1. i \in 1..Len(handed)
        BY <1>0
      <4>2. handed[i] \in Handed
        BY <1>0, <4>1, ElementOfSeq
      <4>3. QED
        BY <4>2 DEF Handed
    <3>7. x = <<i, Len(c) + 1>> /\ e.chunks = Append(c, x)
      BY <2>5, <3>3
    <3> HIDE DEF x, c, m
    <3>8. /\ Len(e.chunks) = Len(c) + 1
          /\ \A n \in 1..Len(c) : e.chunks[n] = c[n]
          /\ e.chunks[Len(c) + 1] = x
          /\ DOMAIN e.chunks = 1..(Len(c) + 1)
      BY <2>2, <3>5, <3>7, AppendProperties, LenProperties
    <3>9. ASSUME NEW n \in 1..(Len(c) + 1) PROVE e.chunks[n] = <<i, n>>
      <4>1. CASE n \in 1..Len(c)
        BY <2>2, <2>3, <3>8, <4>1
      <4>2. CASE n = Len(c) + 1
        BY <3>7, <3>8, <4>2
      <4>3. QED
        BY <2>2, <4>1, <4>2
    <3>10. Len(e.chunks) <= handed[i].chunks
      BY <2>2, <3>3, <3>6, <3>8
    <3>11. Matched(handed', e, i)
      BY <2>0, <2>1, <2>3, <2>5, <3>4, <3>8, <3>9, <3>10 DEF Matched
    <3>12. QED
      BY <1>2, <2>1, <3>11
  <2>6. CASE /\ EndStream /\ i = Len(streams)
             /\ at["R"] = "data"
             /\ e.chunks = streams[i].chunks /\ e.ended
    <3>1. inbox["R"] # <<>> /\ m.kind # "chunk"
      BY <2>6 DEF EndStream, EndsFile, IsString
    <3>2. Complete(handed, Read)
      BY <2>6, <3>1, FirstFollows DEF Follows
    <3>3. handed[i].ended /\ handed[i].chunks = Len(c)
      BY <2>4, <2>6, <3>2 DEF Complete
    <3>4. Matched(handed', e, i)
      BY <2>0, <2>1, <2>3, <2>6, <3>3 DEF Matched
    <3>5. QED
      BY <1>2, <2>1, <3>4
  <2>7. CASE e.chunks = streams[i].chunks /\ e.ended = streams[i].ended
    <3>1. Matched(handed', e, i)
      BY <2>0, <2>1, <2>3, <2>7 DEF Matched
    <3>2. QED
      BY <1>2, <2>1, <3>1
  <2>8. QED
    BY <2>1, <2>5, <2>6, <2>7
<1>7. QED
  BY <1>4, <1>5, <1>6, StepFrame DEF Frame

\* No file has been handed over: no stream and none of a file on its way.
LEMMA NoFileNext ==
    ASSUME CoreInv, CoreInv', TextInv, ChainInv, StreamsMatch', [Next]_vars, handed' = <<>>
    PROVE  streams' = <<>> /\ \A k \in 1..Len(Pipe("R")') : ~Content(Pipe("R")'[k])
<1> DEFINE P == Pipe("R")
           Q == Pipe("R")'
<1>1. streams' = <<>>
  <2>1. Len(streams') <= Len(handed') /\ streams' \in Seq(Stream) /\ Len(streams') \in Nat
    BY MatchIs, LenProperties DEF CoreInv, TypeOK
  <2>2. Len(handed') = 0
    BY EmptySeq
  <2>3. Len(streams') = 0
    BY <2>1, <2>2
  <2>4. QED
    BY <2>1, <2>3, EmptySeq
<1>2. handed = <<>>
  <2>1. Len(handed) <= Len(handed') /\ handed \in Seq(Handed) /\ Len(handed) \in Nat
    BY HandedExtends, LenProperties DEF Extends, CoreInv, TypeOK
  <2>2. Len(handed') = 0
    BY EmptySeq
  <2>3. Len(handed) = 0
    BY <2>1, <2>2
  <2>4. QED
    BY <2>1, <2>3, EmptySeq
<1>3. \A k \in 1..Len(P) : ~Content(P[k])
  BY <1>2 DEF ChainInv
<1>4. Len(P) \in Nat /\ Len(Q) \in Nat
  BY PipeType, PipeRangeNext, TheSides DEF CoreInv
<1>5. CASE Advances
  <2>1. PICK n \in 0..2 : Takes(n)
    BY <1>5 DEF Advances
  <2>2. Len(Q) = Len(P) - n /\ \A i \in 1..(Len(P) - n) : Q[i] = P[i + n]
    BY <2>1 DEF Takes
  <2> HIDE DEF P, Q
  <2>3. ASSUME NEW k \in 1..Len(Q) PROVE ~Content(Q[k])
    <3>1. k + n \in 1..Len(P) /\ k \in 1..(Len(P) - n)
      BY <1>4, <2>2
    <3>2. Q[k] = P[k + n]
      BY <2>2, <3>1
    <3>3. QED
      BY <1>3, <3>1, <3>2
  <2>4. QED
    BY <1>1, <2>3 DEF Q
<1>6. CASE Ends
  <2>1. Len(Q) <= Len(P) /\ \A i \in 1..Len(Q) : Q[i] = P[i]
    BY <1>6 DEF Ends, Loses
  <2> HIDE DEF P, Q
  <2>2. ASSUME NEW k \in 1..Len(Q) PROVE ~Content(Q[k])
    <3>1. k \in 1..Len(P)
      BY <1>4, <2>1
    <3>2. QED
      BY <1>3, <2>1, <3>1
  <2>3. QED
    BY <1>1, <2>2 DEF Q
<1>7. CASE Arrives
  BY <1>1, <1>7, ChainArrives
<1>8. QED
  BY <1>5, <1>6, <1>7, StepPipe

LEMMA ChainNext ==
    ASSUME CoreInv, CoreInv', TextInv, ChainInv, StreamsMatch', [Next]_vars
    PROVE  ChainInv'
<1>1. handed' = <<>> =>
         streams' = <<>> /\ \A k \in 1..Len(Pipe("R")') : ~Content(Pipe("R")'[k])
  BY NoFileNext
<1>2. ASSUME at'["R"] \notin Over("R")
      PROVE  /\ \A k \in 1..Len(Pipe("R")') : Follows(handed', Before(k)', Pipe("R")'[k])
             /\ link' = "up" /\ at'["S"] \in Filing("S") => AtEnd' = Written'
  <2>1. CASE Advances
    BY <1>2, <2>1, ChainAdvances
  <2>2. CASE Ends
    BY <1>2, <2>2, ChainEnds DEF Ends
  <2>3. CASE Arrives
    BY <1>2, <2>3, ChainArrives
  <2>4. QED
    BY <2>1, <2>2, <2>3, StepPipe
<1>3. QED
  BY <1>1, <1>2 DEF ChainInv, AtEnd

-----------------------------------------------------------------------------
(* The inductive invariant.                                                *)

LEMMA IndIs == IndInv <=> CoreInv /\ TextInv /\ ChainInv /\ StreamsMatch
BY DEF IndInv, CoreInv

LEMMA IndInit == Init => IndInv
<1> SUFFICES ASSUME Init PROVE IndInv
  OBVIOUS
<1>1. CoreInv
  BY CoreInit
<1>2. /\ handed = <<>> /\ streams = <<>> /\ at["S"] = "opening" /\ at["R"] = "nonce"
      /\ inbox["R"] = <<>> /\ net["R"] = <<>>
  BY TheSides DEF Init
<1>3. Pipe("R") = <<>> /\ Len(Pipe("R")) = 0
  <2>1. <<>> \in Seq(Message) /\ <<>> \o <<>> = <<>> /\ Len(<<>>) = 0
    BY ConcatEmptySeq, EmptySeq
  <2>2. QED
    BY <1>2, <2>1 DEF Pipe
<1>4. \A k \in 1..Len(Pipe("R")) : FALSE
  BY <1>3
<1>5. TextInv
  BY <1>4 DEF TextInv
<1>6. at["S"] \notin Filing("S")
  BY <1>2 DEF Filing
<1>7. ChainInv
  BY <1>2, <1>4, <1>6 DEF ChainInv
<1>8. StreamsMatch
  <2>1. Len(streams) = 0 /\ Len(handed) = 0 /\ DOMAIN streams = {}
    BY <1>2
  <2>2. QED
    BY <2>1 DEF StreamsMatch
<1>9. QED
  BY <1>1, <1>5, <1>7, <1>8, IndIs

LEMMA IndNext ==
    ASSUME IndInv, [Next]_vars
    PROVE  IndInv'
<1>1. CoreInv /\ TextInv /\ ChainInv /\ StreamsMatch
  BY IndIs
<1>2. CoreInv'
  BY <1>1, CoreNext
<1>3. TextInv'
  BY <1>1, <1>2, TextNext
<1>4. StreamsMatch'
  BY <1>1, <1>2, MatchNext
<1>5. ChainInv'
  BY <1>1, <1>2, <1>4, ChainNext
<1>6. QED
  BY <1>2, <1>3, <1>4, <1>5 DEF IndInv, CoreInv

\* What is in the pipe of send_offer and accept_offer, who has had which of the
\* other's demands met, and which files are open and answered at either end: the
\* invariant every step of the two tasks, the apps and the connection keeps.
THEOREM PipeInOrder == Spec => []IndInv
<1>1. Init => IndInv
  BY IndInit
<1>2. IndInv /\ [Next]_vars => IndInv'
  BY IndNext
<1>3. QED
  BY <1>1, <1>2, PTL DEF Spec

\* Whatever the receiving app is streamed is the sending app's: its files in
\* order, each with its own chunks from the first on and none missing at the end
\* that receive_file reports, also when the connection is lost or a file given up.
THEOREM StreamsAreFiles == Spec => []StreamsMatch
<1>1. IndInv => StreamsMatch
  BY DEF IndInv
<1>2. QED
  BY <1>1, PipeInOrder, PTL
=============================================================================
