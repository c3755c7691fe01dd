------------------------------ MODULE RtcTransfer ------------------------------
(***************************************************************************)
(* A transfer over a WebRTC data channel (core/src/webrtc/webrtc.rs), from *)
(* the open channel on: the task of the sending side "S" (send_offer), the *)
(* task of the receiving side "R" (accept_offer), what each of the two     *)
(* functions does when its task ends or the connection is lost, and the    *)
(* controllers the app drives them with (app/rust/src/api/webrtc.rs).      *)
(*                                                                         *)
(* The tasks speak in turns: nonces, tokens, the receiver's PIN, the       *)
(* sender's PIN, the file list, the selection; then the sender streams the *)
(* files its app hands over, and the receiver answers for each of them.    *)
(* What a task does between two awaits on the channel or on the app is one *)
(* action.  A JSON text sent in chunks is one "part" and the delimiter.    *)
(***************************************************************************)
EXTENDS Crypto, FiniteSets

CONSTANTS
    Files,      \* the files of the offer
    Size,       \* the chunks of a file
    Configs,    \* what the two users have set, see Config
    Guesses,    \* the PINs a user may type
    MaxTries,   \* PinConfig::max_tries
    MaxCalls    \* bound: files the sender's app hands over

Sides == {"S", "R"}
Other(s) == IF s = "S" THEN "R" ELSE "S"

NoPin == "no PIN"
KeyOf(s) == generate_key(s)

\* A PIN and an expected public key, or none, per side; pairs: the receiver
\* asks to pair, which the sender understands and this receiver never does.
Config == [pin : [Sides -> Guesses \cup {NoPin, ""}],
           expect : [Sides -> {NoKey} \cup {generate_key(d) : d \in Sides \cup {"X"}}],
           pairs : BOOLEAN]

ASSUME ConfigsAssumption == Configs \subseteq Config
ASSUME PinsAssumption == NoPin \notin Guesses
ASSUME BoundsAssumption ==
    /\ Size \in [Files -> Nat]
    /\ MaxTries \in Nat \ {0}
    /\ MaxCalls \in Nat

VARIABLES
    config,     \* what the users have set
    at,         \* where a side's task is
    net,        \* buffered_amount: messages on their way to a side
    inbox,      \* receive_rx: messages that have arrived at a side
    link,       \* the peer connection
    nonce,      \* sender_nonce || receiver_nonce as a side computes it
    remote,     \* the receiver's token, as the sender got it
    guess,      \* remote_pin in a side's verify_pin
    tries,      \* pin_try in a side's verify_pin
    slot,       \* pin_tx: a PIN request on its way to a side's controller
    listed,     \* the receiver's app has the file list
    chosen,     \* the files its user selected
    granted,    \* file_map: the files the sender has tokens for
    calls,      \* send_file calls so far
    handed,     \* the files the sender's app has streamed
    streams,    \* the files the receiver's app was streamed
    results,    \* user_error_tx: its result for the last one, capacity 1
    confirmed,  \* files the receiver has told the sender it has
    status,     \* the last RTCStatus a side's app was told
    outcome     \* how send_offer or accept_offer returned

pinVars  == <<guess, tries, slot>>
fileVars == <<listed, chosen, granted, calls, handed, streams, results, confirmed>>
authVars == <<config, nonce, remote>>
vars == <<at, net, inbox, link, status, outcome, authVars, pinVars, fileVars>>

Delimiter == [kind |-> "delimiter"]
Part(result, files, key) ==
    [kind |-> "part", status |-> result, files |-> files, key |-> key]
Text(result, files) == <<Part(result, files, NoKey), Delimiter>>
Status(kind, result) == [kind |-> kind, status |-> result]

IsString(m) == m.kind \notin {"part", "chunk"}

Init ==
    /\ config \in Configs
    /\ at = [s \in Sides |-> IF s = "S" THEN "opening" ELSE "nonce"]
    /\ net = [s \in Sides |-> <<>>]
    /\ inbox = [s \in Sides |-> <<>>]
    /\ link = "up"
    /\ nonce = [s \in Sides |-> <<>>]
    /\ remote = <<>>
    /\ guess = [s \in Sides |-> ""]
    /\ tries = [s \in Sides |-> 0]
    /\ slot = [s \in Sides |-> "empty"]
    /\ listed = FALSE
    /\ chosen = {}
    /\ granted = {}
    /\ calls = 0
    /\ handed = <<>>
    /\ streams = <<>>
    /\ results = <<>>
    /\ confirmed = {}
    /\ status = [s \in Sides |-> "SdpExchanged"]
    /\ outcome = [s \in Sides |-> "none"]

-----------------------------------------------------------------------------
(* The data channel: ordered, reliable while the connection lives.         *)

GoTo(s, place) == at' = [at EXCEPT ![s] = place]

Tell(s, news) == status' = [status EXCEPT ![s] = news]

\* data_channel.send: on a dead connection the data is lost or the call fails.
Send(s, messages, next, failed) ==
    \/ /\ link = "up"
       /\ net' = [net EXCEPT ![Other(s)] = @ \o messages]
       /\ GoTo(s, next)
    \/ /\ link = "down"
       /\ GoTo(s, next) \/ GoTo(s, failed)
       /\ UNCHANGED net

\* A task at this place reads a message of this kind.
Reads(s, place, kind) ==
    /\ at[s] = place
    /\ inbox[s] # <<>> /\ Head(inbox[s]).kind = kind
    /\ inbox' = [inbox EXCEPT ![s] = Tail(@)]

\* receive_string_from_chunks: up to the first string, which is dropped.
ReadsText(s, place) ==
    /\ at[s] = place
    /\ Len(inbox[s]) >= 2 /\ inbox[s][1].kind = "part" /\ IsString(inbox[s][2])
    /\ inbox' = [inbox EXCEPT ![s] = Tail(Tail(@))]

Deliver(s) ==
    /\ link = "up" /\ net[s] # <<>>
    /\ net' = [net EXCEPT ![s] = Tail(@)]
    /\ inbox' = [inbox EXCEPT ![s] = Append(@, Head(net[s]))]
    /\ UNCHANGED <<at, link, status, outcome, authVars, pinVars, fileVars>>

\* Mutant: peer_connection.close() is left out.
KeepOpen == UNCHANGED <<link, net>>

\* What has not arrived when the connection ends never does.
Close ==
    /\ link' = "down"
    /\ net' = [s \in Sides |-> <<>>]

LinkLost ==
    /\ link = "up"
    /\ Close
    /\ UNCHANGED <<at, inbox, status, outcome, authVars, pinVars, fileVars>>

\* The message a task waits for, by the place it is at.
Awaited(s) ==
    [nonce  |-> "nonce",
     token  |-> IF s = "S" THEN "tokenStatus" ELSE "token",
     verify |-> "pin",
     reply  |-> IF s = "S" THEN "pinStatus" ELSE "part",
     list   |-> "part",
     header |-> "header"]

\* Another message does not parse: a string where chunks are awaited is the
\* end of an empty text, and a delimiter is not a file header.
ParseError(s) ==
    /\ at[s] \in DOMAIN Awaited(s)
    /\ inbox[s] # <<>> /\ Head(inbox[s]).kind # Awaited(s)[at[s]]
    /\ at[s] = "header" => IsString(Head(inbox[s]))
    /\ inbox' = [inbox EXCEPT ![s] = Tail(@)]
    /\ GoTo(s, "failed")
    /\ UNCHANGED <<net, link, status, outcome, authVars, pinVars, fileVars>>

-----------------------------------------------------------------------------
(* Nonces and tokens.                                                      *)

SendNonce ==
    /\ at["S"] = "opening"
    /\ Send("S", <<[kind |-> "nonce", nonce |-> generate_nonce("S")]>>,
            "nonce", "failed")
    /\ UNCHANGED <<inbox, link, status, outcome, authVars, pinVars, fileVars>>

\* Both compute the sender's nonce followed by the receiver's.
NonceFor(s, received) ==
    IF s = "S" THEN <<generate_nonce("S"), received>>
               ELSE <<received, generate_nonce("R")>>

\* receive_nonce; the receiver answers with its own, the sender with its token.
ReceiveNonce(s) ==
    LET n == NonceFor(s, Head(inbox[s]).nonce)
        answer == IF s = "S"
                  THEN [kind |-> "token", token |-> generate_token_nonce(KeyOf("S"), n)]
                  ELSE [kind |-> "nonce", nonce |-> generate_nonce("R")]
    IN  /\ Reads(s, "nonce", "nonce")
        /\ validate_nonce(Head(inbox[s]).nonce)
        /\ nonce' = [nonce EXCEPT ![s] = n]
        /\ Send(s, <<answer>>, "token", "failed")
        /\ UNCHANGED <<link, status, outcome, config, remote, pinVars, fileVars>>

\* Mutant: the signature is checked, and not whose it is.
TrustsSigned(s, token) == verify_token_nonce(token[5][2], token, nonce[s])

\* A side that expects a public key takes only a token of that key.
Trusts(s, token) ==
    \/ config.expect[s] = NoKey
    \/ verify_token_nonce(config.expect[s], token, nonce[s])

\* The receiver checks the sender's token before it sends its own.
CheckSenderToken ==
    LET token == generate_token_nonce(KeyOf("R"), nonce["R"])
        Answer(result) == [kind |-> "tokenStatus", status |-> result, token |-> token]
    IN  /\ Reads("R", "token", "token")
        /\ \/ /\ ~Trusts("R", Head(inbox["R"]).token)
              /\ Send("R", <<[kind |-> "tokenStatus", status |-> "InvalidSignature",
                             token |-> <<>>]>>, "refusing", "failed")
              /\ UNCHANGED status
           \/ /\ Trusts("R", Head(inbox["R"]).token)
              /\ config.pin["R"] = NoPin
              /\ Send("R", <<Answer("Ok")>>, "list", "failed")
              /\ UNCHANGED status
           \/ /\ Trusts("R", Head(inbox["R"]).token)
              /\ config.pin["R"] \in Guesses
              /\ Send("R", <<Answer("PinRequired")>>, "verify", "failed")
              /\ Tell("R", "PinRequired")
           \/ \* verify_pin starts from an empty PIN
              /\ Trusts("R", Head(inbox["R"]).token)
              /\ config.pin["R"] = ""
              /\ Send("R", <<Answer("PinRequired"), Status("pinStatus", "Ok")>>,
                      "list", "failed")
              /\ Tell("R", "PinRequired")
    /\ UNCHANGED <<link, outcome, authVars, pinVars, fileVars>>

\* The sender asks for its own PIN, if it has one, and sends the file list.
ChallengeOrList ==
    IF config.pin["S"] \in Guesses
    THEN /\ Send("S", Text("PinRequired", {}), "verify", "failed")
         /\ Tell("S", "PinRequired")
    ELSE /\ Send("S", Text("Ok", Files), "list", "failed")
         /\ Tell("S", "Connected")

\* handle_pin: the app is told, and a request for a PIN is on its way to it.
AskForPin(s) ==
    /\ GoTo(s, "pin")
    /\ slot' = [slot EXCEPT ![s] = "asked"]
    /\ Tell(s, "PinRequired")

CheckReceiverToken ==
    LET m == Head(inbox["S"])
        refused == m.status = "InvalidSignature" \/ ~Trusts("S", m.token)
    IN  /\ Reads("S", "token", "tokenStatus")
        /\ remote' = m.token
        /\ \/ /\ refused
              /\ GoTo("S", "failed")
              /\ UNCHANGED <<net, status, slot>>
           \/ /\ m.status = "PinRequired" /\ ~refused
              /\ AskForPin("S")
              /\ UNCHANGED net
           \/ /\ m.status = "Ok" /\ ~refused
              /\ ChallengeOrList
              /\ UNCHANGED slot
    /\ UNCHANGED <<link, outcome, config, nonce, guess, tries, fileVars>>

-----------------------------------------------------------------------------
(* PINs: handle_pin on the side that types them, verify_pin on the other.  *)

\* The controller's task stores the request where send_pin looks for it.
StoreSlot(s) ==
    /\ slot[s] = "asked"
    /\ slot' = [slot EXCEPT ![s] = "stored"]
    /\ UNCHANGED <<at, net, inbox, link, status, outcome, authVars, guess, tries,
                   fileVars>>

\* send_pin takes the request: a second call fails until there is another.
SendPin(s) ==
    /\ at[s] = "pin" /\ slot[s] = "stored"
    /\ slot' = [slot EXCEPT ![s] = "empty"]
    /\ \E pin \in Guesses :
          Send(s, <<[kind |-> "pin", pin |-> pin]>>, "reply", "failed")
    /\ UNCHANGED <<inbox, link, status, outcome, authVars, guess, tries, fileVars>>

\* The receiver answers with one string, the sender with a text in chunks.
PinAnswer(s, result) ==
    IF s = "R" THEN <<Status("pinStatus", result)>> ELSE Text(result, {})

CheckPin(s) ==
    LET pin == Head(inbox[s]).pin
        n == tries[s] + 1
    IN  /\ Reads(s, "verify", "pin")
        /\ guess' = [guess EXCEPT ![s] = pin]
        /\ tries' = [tries EXCEPT ![s] = n]
        /\ \/ /\ pin = config.pin[s] /\ s = "R"
              /\ Send(s, PinAnswer(s, "Ok"), "list", "failed")
              /\ UNCHANGED status
           \/ /\ pin = config.pin[s] /\ s = "S"
              /\ Send(s, Text("Ok", Files), "list", "failed")
              /\ Tell(s, "Connected")
           \/ /\ pin # config.pin[s] /\ n < MaxTries
              /\ Send(s, PinAnswer(s, "PinRequired"), "verify", "failed")
              /\ UNCHANGED status
           \/ /\ pin # config.pin[s] /\ n >= MaxTries
              /\ Send(s, PinAnswer(s, "TooManyAttempts"), "locked", "locked")
              /\ UNCHANGED status
    /\ UNCHANGED <<link, outcome, authVars, slot, fileVars>>

\* The answer to the PIN the sending user typed.
ReadPinStatus ==
    /\ Reads("S", "reply", "pinStatus")
    /\ \/ /\ Head(inbox["S"]).status = "Ok"
          /\ ChallengeOrList
          /\ UNCHANGED slot
       \/ /\ Head(inbox["S"]).status = "PinRequired"
          /\ AskForPin("S")
          /\ UNCHANGED net
       \/ /\ Head(inbox["S"]).status = "TooManyAttempts"
          /\ Tell("S", "TooManyAttempts")
          /\ GoTo("S", "failed")
          /\ UNCHANGED <<net, slot>>
    /\ UNCHANGED <<link, outcome, authVars, guess, tries, fileVars>>

\* What the sender says of its PIN, at first or to the PIN the user typed.
ReadList ==
    /\ ReadsText("R", "list") \/ ReadsText("R", "reply")
    /\ \/ /\ Head(inbox["R"]).status = "Ok"
          /\ GoTo("R", "select")
          /\ Tell("R", "Connected")
          /\ listed' = TRUE
          /\ UNCHANGED slot
       \/ /\ Head(inbox["R"]).status = "PinRequired"
          /\ AskForPin("R")
          /\ UNCHANGED listed
       \/ /\ Head(inbox["R"]).status = "TooManyAttempts"
          /\ Tell("R", "TooManyAttempts")
          /\ GoTo("R", "failed")
          /\ UNCHANGED <<slot, listed>>
    /\ UNCHANGED <<net, link, outcome, authVars, guess, tries, chosen, granted,
                   calls, handed, streams, results, confirmed>>

-----------------------------------------------------------------------------
(* The selection, and the request to pair that comes before it.            *)

\* send_selection
Select ==
    /\ at["R"] \in {"select", "choose"}
    /\ \E files \in SUBSET Files :
          /\ chosen' = files
          /\ Send("R", Text("Ok", files), "header", "failed")
    /\ UNCHANGED <<inbox, link, status, outcome, authVars, pinVars, listed,
                   granted, calls, handed, streams, results, confirmed>>

\* decline; the task ends without waiting for what it sent.
Decline ==
    /\ at["R"] \in {"select", "choose"}
    /\ Send("R", Text("Declined", {}), "done", "failed")
    /\ UNCHANGED <<inbox, link, status, outcome, authVars, pinVars, fileVars>>

\* The app drops its controller.
Abandon ==
    /\ at["R"] \in {"select", "choose"}
    /\ GoTo("R", "done")
    /\ UNCHANGED <<net, inbox, link, status, outcome, authVars, pinVars, fileVars>>

\* A receiver that wants to pair first presents its public key.
AskToPair ==
    /\ config.pairs /\ at["R"] = "select"
    /\ \E key \in {KeyOf("R"), generate_key("X")} :
          Send("R", <<Part("Pair", {}, key), Delimiter>>, "pairing", "failed")
    /\ UNCHANGED <<inbox, link, status, outcome, authVars, pinVars, fileVars>>

ReadPairStatus ==
    /\ Reads("R", "pairing", "pairStatus")
    /\ GoTo("R", "choose")
    /\ UNCHANGED <<net, link, status, outcome, authVars, pinVars, fileVars>>

\* The token the receiver sent, checked with the key it presents now.
Presented(key) ==
    verify_token_nonce(parse_public_key(key, extract_signature_identifier(remote)),
                       remote, nonce["S"])

\* The controllers answer every request to pair with no.
ReadSelection ==
    LET m == Head(inbox["S"])
    IN  /\ ReadsText("S", "list")
        /\ \/ /\ m.status = "Ok"
              /\ granted' = m.files
              /\ GoTo("S", "files")
              /\ UNCHANGED <<net, status>>
           \/ /\ m.status = "Declined"
              /\ Tell("S", "Declined")
              /\ GoTo("S", "done")
              /\ UNCHANGED <<net, granted>>
           \/ /\ m.status = "Pair" /\ ~Presented(m.key)
              /\ GoTo("S", "mistrusting")
              /\ UNCHANGED <<net, status, granted>>
           \/ /\ m.status = "Pair" /\ Presented(m.key)
              /\ Send("S", <<Status("pairStatus", "PairDeclined")>>, "list", "failed")
              /\ UNCHANGED <<status, granted>>
    /\ UNCHANGED <<link, outcome, authVars, pinVars, listed, chosen, calls, handed,
                   streams, results, confirmed>>

-----------------------------------------------------------------------------
(* The files.                                                              *)

\* A header and a chunk bear the number of the file handed over and their place
\* in it: what the bytes are, which the receiver cannot look at.
Header(i, f) == [kind |-> "header", file |-> f, of |-> <<i, 0>>]

\* send_file: a file without a token is an error for the app and no more.
SendFile ==
    /\ at["S"] = "files" /\ calls < MaxCalls
    /\ calls' = calls + 1
    /\ \E f \in Files :
          \/ /\ f \notin granted
             /\ UNCHANGED <<at, net, handed>>
          \/ /\ f \in granted
             /\ Send("S", <<Header(Len(handed) + 1, f)>>, "chunks", "files")
             /\ handed' = IF at'["S"] = "chunks"
                          THEN Append(handed, [file |-> f, chunks |-> 0, ended |-> FALSE])
                          ELSE handed
    /\ UNCHANGED <<inbox, link, status, outcome, authVars, pinVars, listed, chosen,
                   granted, streams, results, confirmed>>

\* Mutant: what is left in the buffer at the end of the file is not sent.
WholeChunks(i, n) ==
    IF n = Size[handed[i].file] THEN <<>> ELSE <<[kind |-> "chunk", of |-> <<i, n>>]>>

Chunk(i, n) == <<[kind |-> "chunk", of |-> <<i, n>>]>>

SendChunk ==
    LET i == Len(handed)
        n == handed[i].chunks + 1
    IN  /\ at["S"] = "chunks" /\ n <= Size[handed[i].file]
        /\ Send("S", Chunk(i, n), "chunks", "files")
        /\ handed' = [handed EXCEPT ![i].chunks = n]
        /\ UNCHANGED <<inbox, link, status, outcome, authVars, pinVars, listed, chosen,
                       granted, calls, streams, results, confirmed>>

\* The app drops its RTCFileSender, at the end of the file or before.
EndFile ==
    /\ at["S"] = "chunks"
    /\ handed' = [handed EXCEPT ![Len(handed)].ended = TRUE]
    /\ GoTo("S", "files")
    /\ UNCHANGED <<net, inbox, link, status, outcome, authVars, pinVars, listed, chosen,
                   granted, calls, streams, results, confirmed>>

\* The app drops send_tx.
EndFiles ==
    /\ at["S"] = "files"
    /\ GoTo("S", "draining")
    /\ UNCHANGED <<net, inbox, link, status, outcome, authVars, pinVars, fileVars>>

\* The last thing the sender's task does: read one message, whatever it says.
ReadLast ==
    /\ at["S"] = "last" /\ inbox["S"] # <<>>
    /\ inbox' = [inbox EXCEPT !["S"] = Tail(@)]
    /\ GoTo("S", "done")
    /\ UNCHANGED <<net, link, status, outcome, authVars, pinVars, fileVars>>

OpenStream ==
    LET f == Head(inbox["R"]).file
    IN  /\ Reads("R", "header", "header")
        /\ f \in chosen
        /\ streams' = Append(streams, [file |-> f, chunks |-> <<>>, ended |-> FALSE,
                                       result |-> "none"])
        /\ GoTo("R", "data")
        /\ UNCHANGED <<net, link, status, outcome, authVars, pinVars, listed, chosen,
                       granted, calls, handed, results, confirmed>>

ReceiveChunk ==
    /\ Reads("R", "data", "chunk")
    /\ streams' = [streams EXCEPT ![Len(streams)].chunks =
                       Append(@, Head(inbox["R"]).of)]
    /\ UNCHANGED <<at, net, link, status, outcome, authVars, pinVars, listed, chosen,
                   granted, calls, handed, results, confirmed>>

\* Mutant: only the delimiter ends a file.
EndsAtDelimiter(m) == m = Delimiter
EndsFile(m) == IsString(m)

\* Any string ends the file; the task keeps it until the app has answered.
EndStream ==
    /\ at["R"] = "data"
    /\ inbox["R"] # <<>> /\ EndsFile(Head(inbox["R"]))
    /\ streams' = [streams EXCEPT ![Len(streams)].ended = TRUE]
    /\ GoTo("R", "result")
    /\ UNCHANGED <<net, inbox, link, status, outcome, authVars, pinVars, listed, chosen,
                   granted, calls, handed, results, confirmed>>

\* send_file_status, once the app has read a stream to its end.
Report ==
    /\ Len(results) < 1
    /\ \E i \in DOMAIN streams, result \in {"success", "failure"} :
          /\ streams[i].ended /\ streams[i].result = "none"
          /\ streams' = [streams EXCEPT ![i].result = result]
          /\ results' = Append(results, result)
    /\ UNCHANGED <<at, net, inbox, link, status, outcome, authVars, pinVars, listed,
                   chosen, granted, calls, handed, confirmed>>

\* Mutant: the error is not looked at.
AlwaysGood(result) == TRUE
IsGood(result) == result = "success"

\* The answer bears the id of the last file, and the result that came next.
Respond ==
    LET f == streams[Len(streams)].file
        last == Head(inbox["R"]) = Delimiter
    IN  /\ at["R"] = "result" /\ results # <<>>
        /\ results' = Tail(results)
        /\ Send("R", <<[kind |-> "response", file |-> f, status |-> Head(results)]>>,
                IF last THEN "flushing" ELSE "header", "failed")
        /\ inbox' = IF last THEN [inbox EXCEPT !["R"] = Tail(@)] ELSE inbox
        /\ confirmed' = IF IsGood(Head(results)) THEN confirmed \cup {f}
                                                     ELSE confirmed
        /\ UNCHANGED <<link, status, outcome, authVars, pinVars, listed, chosen,
                       granted, calls, handed, streams>>

\* wait_buffer_empty, which two places give up after 5 seconds, and what comes
\* after it.
Flush(s) ==
    /\ \/ /\ at[s] = "draining" /\ net[Other(s)] = <<>>
          /\ Send(s, <<Delimiter>>, "last", "failed")
          /\ UNCHANGED status
       \/ /\ at[s] = "mistrusting" /\ net[Other(s)] = <<>>
          /\ Send(s, <<Status("pairStatus", "InvalidSignature")>>, "failed", "failed")
          /\ UNCHANGED status
       \/ /\ at[s] = "refusing" /\ net[Other(s)] = <<>>
          /\ GoTo(s, "failed")
          /\ UNCHANGED <<net, status>>
       \/ /\ at[s] = "locked"
          /\ GoTo(s, "failed")
          /\ Tell(s, "TooManyAttempts")
          /\ UNCHANGED net
       \/ /\ at[s] = "flushing"
          /\ GoTo(s, "done")
          /\ UNCHANGED <<net, status>>
    /\ UNCHANGED <<inbox, link, outcome, authVars, pinVars, fileVars>>

-----------------------------------------------------------------------------
(* send_offer and accept_offer: whichever comes first, the end of the task *)
(* or the end of the connection.                                           *)

Finish(s) ==
    /\ outcome[s] = "none"
    /\ at[s] = "done" \/ link = "down"
    /\ outcome' = [outcome EXCEPT ![s] = "Finished"]
    /\ Tell(s, "Finished")
    /\ Close
    /\ UNCHANGED <<at, inbox, authVars, pinVars, fileVars>>

\* An error is returned as it is, and reported by the controller's task.
Fail(s) ==
    /\ outcome[s] = "none" /\ at[s] = "failed"
    /\ outcome' = [outcome EXCEPT ![s] = "Error"]
    /\ Tell(s, "Error")
    /\ UNCHANGED <<at, net, inbox, link, authVars, pinVars, fileVars>>

-----------------------------------------------------------------------------

\* The steps of the program, and what the connection does for it.
Step(s) == Deliver(s) \/ ParseError(s) \/ ReceiveNonce(s) \/ StoreSlot(s)
           \/ CheckPin(s) \/ Flush(s) \/ Finish(s) \/ Fail(s)
Sender == SendNonce \/ CheckReceiverToken \/ ReadPinStatus \/ ReadSelection \/ ReadLast
Receiver == CheckSenderToken \/ ReadList \/ ReadPairStatus \/ OpenStream
            \/ ReceiveChunk \/ EndStream \/ Respond

\* The apps: the sending one hands over files, the receiving one answers.
Typing == \E s \in Sides : SendPin(s)
Deciding == Select \/ Decline \/ Abandon \/ AskToPair
Handing == SendFile \/ SendChunk \/ EndFile \/ EndFiles

Next == \/ \E s \in Sides : Step(s)
        \/ Sender \/ Receiver
        \/ Typing \/ Deciding \/ Handing \/ Report
        \/ LinkLost

Spec == Init /\ [][Next]_vars

\* The tasks run.  The receiving app reads each file to its end and answers;
\* nobody has to type a PIN, to decide, or to hand a file over.
Fairness ==
    /\ \A s \in Sides :
          /\ WF_vars(Deliver(s)) /\ WF_vars(ParseError(s)) /\ WF_vars(ReceiveNonce(s))
          /\ WF_vars(StoreSlot(s)) /\ WF_vars(CheckPin(s)) /\ WF_vars(Flush(s))
          /\ WF_vars(Finish(s)) /\ WF_vars(Fail(s))
    /\ WF_vars(Sender) /\ WF_vars(Receiver) /\ WF_vars(Report)
FairSpec == Spec /\ Fairness

-----------------------------------------------------------------------------
(* Types, and the inductive invariant of the proofs.                       *)

Nonces == {generate_nonce(s) : s \in Sides}
Salts == {<<>>} \cup (Nonces \X Nonces)
Tokens == {generate_token_nonce(KeyOf(s), n) : s \in Sides, n \in Salts}
Results == {"Ok", "InvalidSignature", "PinRequired", "TooManyAttempts", "Declined",
            "Pair", "PairDeclined"}

Statuses == {"SdpExchanged", "PinRequired", "TooManyAttempts", "Connected", "Declined",
             "Finished", "Error"}

Message ==
    {Delimiter}
    \cup [kind : {"nonce"}, nonce : Nonces]
    \cup [kind : {"token"}, token : Tokens]
    \cup [kind : {"tokenStatus"}, status : Results, token : Tokens \cup {<<>>}]
    \cup [kind : {"pin"}, pin : Guesses]
    \cup [kind : {"pinStatus", "pairStatus"}, status : Results]
    \cup [kind : {"part"}, status : Results, files : SUBSET Files,
          key : {NoKey, KeyOf("R"), generate_key("X")}]
    \cup [kind : {"header"}, file : Files, of : Nat \X {0}]
    \cup [kind : {"chunk"}, of : Nat \X Nat]
    \cup [kind : {"response"}, file : Files, status : {"success", "failure"}]

\* Where the tasks are: before the files, at them, and after the last message a
\* receiver reads.
Early(s) == IF s = "S" THEN {"opening", "nonce", "token", "pin", "reply", "verify", "list",
                             "mistrusting", "locked"}
            ELSE {"nonce", "token", "verify", "pin", "reply", "list", "select", "choose",
                  "pairing"}
Filing(s) == IF s = "S" THEN {"files", "chunks", "draining"} ELSE {"header", "data", "result"}
Over(s) == IF s = "S" THEN {"last", "done", "failed"}
           ELSE {"refusing", "locked", "flushing", "done", "failed"}

Places == UNION {Early(s) \cup Filing(s) \cup Over(s) : s \in Sides}

Handed == [file : Files, chunks : Nat, ended : BOOLEAN]
Stream == [file : Files, chunks : Seq(Nat \X Nat), ended : BOOLEAN,
           result : {"none", "success", "failure"}]

TypeOK ==
    /\ config \in Config
    /\ at \in [Sides -> Places]
    /\ net \in [Sides -> Seq(Message)] /\ inbox \in [Sides -> Seq(Message)]
    /\ link \in {"up", "down"}
    /\ nonce \in [Sides -> Salts]
    /\ remote \in Tokens \cup {<<>>}
    /\ guess \in [Sides -> Guesses \cup {""}] /\ tries \in [Sides -> Nat]
    /\ slot \in [Sides -> {"empty", "asked", "stored"}]
    /\ listed \in BOOLEAN /\ chosen \subseteq Files /\ granted \subseteq Files
    /\ calls \in Nat
    /\ handed \in Seq(Handed) /\ streams \in Seq(Stream)
    /\ results \in Seq({"success", "failure"}) /\ confirmed \subseteq Files
    /\ status \in [Sides -> Statuses]
    /\ outcome \in [Sides -> {"none", "Finished", "Error"}]

\* What the other side has sent and a side has not read.
Pipe(s) == inbox[s] \o net[s]

\* What a side demands of the other one: a token of the key it expects, its PIN.
Trusted(s) == config.expect[s] \in {NoKey, KeyOf(Other(s))}
Demand(s) == Trusted(s) /\ (config.pin[s] # NoPin => guess[s] = config.pin[s])

\* A token on its way is its sender's own; without one there is a refusal.
TokenInv ==
    \A s \in Sides : \A k \in 1..Len(Pipe(s)) :
        LET m == Pipe(s)[k]
        IN  m.kind \in {"token", "tokenStatus"} =>
                \/ m.kind = "tokenStatus" /\ m.status = "InvalidSignature"
                \/ \E n \in Salts : m.token = generate_token_nonce(KeyOf(Other(s)), n)

\* Where the demands of the sides are met: the receiver's before it reads the
\* list, the sender's before it sends the list, and nobody asks again.
DemandInv ==
    /\ at["S"] \in {"opening", "nonce", "token", "pin", "reply"} => guess["S"] = ""
    /\ at["R"] \in {"nonce", "token"} => guess["R"] = ""
    /\ at["S"] \in {"pin", "reply", "verify"} => Trusted("S")
    /\ at["R"] = "verify" => Trusted("R")
    /\ at["R"] \in {"pin", "reply", "list"} => Demand("R")
    /\ listed => Demand("R") /\ at["R"] \notin {"nonce", "token", "verify"}
    /\ (listed \/ \E k \in 1..Len(Pipe("R")) :
                       Pipe("R")[k].kind = "part" /\ Pipe("R")[k].status = "Ok")
          => Demand("S") /\ at["S"] \in {"list", "mistrusting"} \cup Filing("S") \cup Over("S")

\* A text is followed by its delimiter, unless the connection was lost in between.
TextInv ==
    \A k \in 1..Len(Pipe("R")) : Pipe("R")[k].kind = "part" =>
        IF k < Len(Pipe("R")) THEN Pipe("R")[k + 1] = Delimiter ELSE link = "down"

\* The stream of files: a mark is a file and how many of its chunks have gone by.
\* Read is the receiver's, Written the sender's, Before(k) the k-th message's.
Content(m) == m.kind \in {"header", "chunk"}
Mark(m) == IF Content(m) THEN m.of ELSE <<0, 0>>
Read == IF streams = <<>> THEN <<0, 0>>
        ELSE <<Len(streams), Len(streams[Len(streams)].chunks)>>
Written == IF handed = <<>> THEN <<0, 0>> ELSE <<Len(handed), handed[Len(handed)].chunks>>
Before(k) == IF k = 1 THEN Read ELSE Mark(Pipe("R")[k - 1])

\* The files h of the sender end at this mark.
Complete(h, p) == p[1] > 0 => p[1] <= Len(h) /\ h[p[1]].ended /\ h[p[1]].chunks = p[2]

\* A header comes after a complete file, a chunk after the one before it, and
\* after the content of a file no other message but the delimiter at its end.
Follows(h, p, m) ==
    \/ /\ m.kind = "header" /\ m.of = <<p[1] + 1, 0>>
       /\ p[1] < Len(h) /\ m.file = h[p[1] + 1].file
       /\ Complete(h, p)
    \/ /\ m.kind = "chunk" /\ m.of = <<p[1], p[2] + 1>>
       /\ p[1] \in 1..Len(h) /\ p[2] < h[p[1]].chunks
    \/ ~Content(m) /\ (p[1] > 0 => m = Delimiter) /\ Complete(h, p)

ChainInv ==
    /\ handed = <<>> => streams = <<>> /\ \A k \in 1..Len(Pipe("R")) : ~Content(Pipe("R")[k])
    /\ at["R"] \notin Over("R") =>
          /\ \A k \in 1..Len(Pipe("R")) : Follows(handed, Before(k), Pipe("R")[k])
          /\ link = "up" /\ at["S"] \in Filing("S") => Before(Len(Pipe("R")) + 1) = Written

\* Only the last file is open, and only while its bytes are handed over; a lost
\* connection takes the sender away from it.
HandedInv ==
    /\ at["S"] \in Early("S") => handed = <<>>
    /\ at["S"] = "chunks" => handed # <<>> /\ ~handed[Len(handed)].ended
    /\ link = "up" => \A i \in 1..Len(handed) :
          handed[i].ended \/ (i = Len(handed) /\ at["S"] \notin {"files", "draining"})

\* The files the receiving app has.
Done == {streams[i].file : i \in {j \in DOMAIN streams : streams[j].result = "success"}}

\* Every file but the last has ended and has its result, and the result that
\* waits for the task is the last file's.
ResultInv ==
    /\ \A i \in 1..Len(streams) :
          /\ streams[i].file \in chosen
          /\ streams[i].result # "none" => streams[i].ended
    /\ confirmed \subseteq Done
    /\ at["R"] \in Early("R") => streams = <<>> /\ chosen = {}
    /\ at["R"] \in Early("R") \cup {"header", "data"} => results = <<>>
    /\ at["R"] = "header" => \A i \in 1..Len(streams) : streams[i].result # "none"
    /\ at["R"] \in {"data", "result"} =>
          /\ streams # <<>>
          /\ \A i \in 1..(Len(streams) - 1) : streams[i].result # "none"
    /\ at["R"] = "data" => ~streams[Len(streams)].ended
    /\ at["R"] = "result" =>
          /\ streams[Len(streams)].ended
          /\ inbox["R"] # <<>> /\ Head(inbox["R"]).kind # "chunk"
          /\ results = IF streams[Len(streams)].result = "none" THEN <<>>
                       ELSE <<streams[Len(streams)].result>>

-----------------------------------------------------------------------------
(* Correctness.                                                            *)

\* Both users' demands are met before the receiver's app sees the file list
\* (send_offer, accept_offer): each side that expects a public key has had a
\* token of that key over both nonces, each side with a PIN has been sent it.
GuardedList == listed => \A s \in Sides : Demand(s)

\* The receiving app's files are the sending app's, in order, each with its own
\* chunks from the first on and none missing once it has ended: no chunk goes
\* to another file, whatever was lost when the connection ended and whichever
\* file the sender gave up.
StreamsMatch ==
    /\ Len(streams) <= Len(handed)
    /\ \A i \in DOMAIN streams :
          /\ streams[i].file = handed[i].file
          /\ Len(streams[i].chunks) <= handed[i].chunks
          /\ \A n \in DOMAIN streams[i].chunks : streams[i].chunks[n] = <<i, n>>
          /\ streams[i].ended => /\ handed[i].ended
                                 /\ Len(streams[i].chunks) = handed[i].chunks

\* The inductive invariant of the proofs: where the demands are met, what is in
\* the pipe, and which file is open and has its result at either end.
IndInv == /\ TypeOK /\ TokenInv /\ DemandInv /\ TextInv /\ ChainInv
          /\ HandedInv /\ ResultInv /\ StreamsMatch

\* The transfer is one as FileTransfer has it: the receiver has files its user
\* selected and no others, and tells the sender of those its app has.
Promised == INSTANCE FileTransfer WITH
    Transfers <- {"rtc"}, accepted <- [t \in {"rtc"} |-> chosen],
    saved <- [t \in {"rtc"} |-> Done], acknowledged <- [t \in {"rtc"} |-> confirmed]
ImplementsFileTransfer == Promised!Spec

\* A side that reports Finished ends the transfer of the other one too, wherever
\* that one's task waits (the select! of send_offer and accept_offer).
FinishedEndsBoth ==
    (\E s \in Sides : outcome[s] = "Finished") ~> (\A s \in Sides : outcome[s] # "none")

\* Once the sender's app has handed over its files, one or more of them selected,
\* send_offer and accept_offer both return.
FilesEnd ==
    (at["S"] = "draining" /\ handed # <<>>) ~> (\A s \in Sides : outcome[s] # "none")
=============================================================================
