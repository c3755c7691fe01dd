------------------------------ MODULE LanTransfer ------------------------------
(***************************************************************************)
(* A file transfer over HTTP between two devices of a network: the send    *)
(* session of the sender (send_provider.dart) and the one receive session  *)
(* of the receiver's server (receive_controller.dart).                     *)
(*                                                                         *)
(*   - prepareUpload asks the receiver; its handler looks for a session,   *)
(*     awaits the PIN check, the body and two directories, stores a        *)
(*     session of its own and answers when the user has decided;           *)
(*   - the sender uploads the accepted files over at most Concurrency      *)
(*     connections and starts a failed file over when its user says so;    *)
(*   - an upload's handler looks at the session, awaits the file, looks    *)
(*     again, awaits the history entry and answers;                        *)
(*   - either user may cancel, which tells the other device.               *)
(*                                                                         *)
(* What runs between two awaits of an isolate is one action.  Every        *)
(* device sends and receives: From and To say between whom the transfers   *)
(* are.  A session id is its transfer.                                     *)
(***************************************************************************)
EXTENDS Integers, FiniteSets

CONSTANTS
    Devices,
    Transfers,
    Files,          \* the files of every transfer
    From, To,       \* the sender and the receiver of a transfer
    Nobody,         \* not a transfer: the receiver has no session
    Messages,       \* transfers of a single text, which is not uploaded
    QuickSave,      \* transfers accepted without asking: by the setting, or from a favorite
    PinDevices,     \* devices with a receive PIN
    Concurrency,    \* upload isolates, 2 in the code
    MaxAttempts,    \* bound: uploads of a file, the first one included
    MaxFaults       \* bound: lost connections and failed writes

ASSUME TransfersAssumption ==
    /\ From \in [Transfers -> Devices]
    /\ To \in [Transfers -> Devices]
    /\ \A t \in Transfers : From[t] # To[t]     \* 412 otherwise
    /\ Nobody \notin Transfers
    /\ Messages \subseteq Transfers
ASSUME BoundsAssumption ==
    /\ IsFiniteSet(Files) /\ Files # {}               \* 400 otherwise
    /\ Concurrency \in Nat \ {0}
    /\ MaxAttempts \in Nat \ {0}
    /\ MaxFaults \in Nat

\* An upload of a file: the first is the send loop's, the others are retries.
Connections == Transfers \X Files \X (1..MaxAttempts)

VARIABLES
    session,      \* SendSessionState::status, "closed" once it is removed
    sent,         \* the sender's status of a file
    queue,        \* the files the send loop has not taken yet
    prepare,      \* where the prepareUpload exchange of a transfer is
    pin,          \* the PIN its request has
    code,         \* the status code of its response
    granted,      \* the files its response has tokens for
    abandoned,    \* the transfers whose request failed at the sender
    client,       \* the sender's end of a connection
    server,       \* the handler at the receiver's end
    owner,        \* the transfer of a device's receive session
    status,       \* ReceiveSessionState::status
    got,          \* the receiver's status of a file
    closing,      \* devices on which quick save has scheduled a close
    pinAttempts,  \* wrong PINs a device got from another one
    cancels,      \* cancel requests on their way
    accepted,     \* history: the files the receiver agreed to
    saved,        \* the files the receiver has on disk
    faults        \* faults so far

senderVars   == <<session, sent, queue>>
receiverVars == <<owner, status, got, closing>>
diskVars     == <<accepted, saved>>
exchange     == <<prepare, pin, code, granted, abandoned>>
vars == <<senderVars, receiverVars, diskVars, exchange, client, server,
          pinAttempts, cancels, faults>>

Uploadable == {"sending", "finishedWithErrors"}     \* allowedStates

NotSent == [f \in Files |-> "queue"]

Init ==
    /\ session = [t \in Transfers |-> "none"]
    /\ sent = [t \in Transfers |-> NotSent]
    /\ queue = [t \in Transfers |-> {}]
    /\ prepare = [t \in Transfers |-> "idle"]
    /\ pin = [t \in Transfers |-> "none"]
    /\ code = [t \in Transfers |-> 0]
    /\ granted = [t \in Transfers |-> {}]
    /\ abandoned = {}
    /\ client = [c \in Connections |-> "idle"]
    /\ server = [c \in Connections |-> "idle"]
    /\ owner = [d \in Devices |-> Nobody]
    /\ status = [d \in Devices |-> "none"]
    /\ got = [t \in Transfers |-> NotSent]
    /\ closing = {}
    /\ pinAttempts = [d \in Devices |-> [s \in Devices |-> 0]]
    /\ cancels = {}
    /\ accepted = [t \in Transfers |-> {}]
    /\ saved = [t \in Transfers |-> {}]
    /\ faults = 0

-----------------------------------------------------------------------------
(* Helpers.                                                                *)

Fault == faults < MaxFaults /\ faults' = faults + 1

\* Mutant: the session is written back after it was removed.
StatusAlways(t, s) == s

\* updateSession(.., (s) => s?.copyWith(status: ..)): a session that was
\* removed stays removed.
Status(t, s) == IF session[t] = "closed" THEN "closed" ELSE s
SetSession(t, s) == session' = [session EXCEPT ![t] = Status(t, s)]

\* isFinishedOrError
AllDone(files) == \A f \in Files : files[f] \in {"skipped", "failed", "finished"}
HasError(files) == \E f \in Files : files[f] = "failed"

\* The receiver's closeSession.
CloseReceive(d) ==
    /\ owner' = [owner EXCEPT ![d] = Nobody]
    /\ status' = [status EXCEPT ![d] = "none"]
    /\ got' = [t \in Transfers |-> IF owner[d] = t THEN NotSent ELSE got[t]]

\* The exchange moves on; the receiver answers it; it answers with tokens.
Moves(t, at) ==
    /\ prepare' = [prepare EXCEPT ![t] = at]
    /\ UNCHANGED <<pin, code, granted, abandoned>>
Answers(t, c) ==
    /\ prepare' = [prepare EXCEPT ![t] = "reply"]
    /\ code' = [code EXCEPT ![t] = c]
    /\ UNCHANGED <<pin, granted, abandoned>>
Grants(t, files) ==
    /\ prepare' = [prepare EXCEPT ![t] = "reply"]
    /\ code' = [code EXCEPT ![t] = 200]
    /\ granted' = [granted EXCEPT ![t] = files]
    /\ UNCHANGED <<pin, abandoned>>

-----------------------------------------------------------------------------
(* Asking: prepareUpload.                                                  *)

\* startSession with a target that has an HTTP endpoint.
StartSession(t) ==
    /\ session[t] = "none"
    /\ session' = [session EXCEPT ![t] = "waiting"]
    /\ Moves(t, "request")
    /\ UNCHANGED <<sent, queue, client, server, receiverVars, diskVars,
                   pinAttempts, cancels, faults>>

\* The handler up to its first await: the session check and checkPin.
PrepareArrives(t) ==
    LET d == To[t]
        wrongPins == pinAttempts[d][From[t]]
        wrong == pin[t] = "wrong"
    IN  /\ prepare[t] = "request"
        /\ \/ /\ owner[d] # Nobody
              /\ Answers(t, 409)
              /\ UNCHANGED pinAttempts
           \/ /\ owner[d] = Nobody
              /\ d \in PinDevices /\ wrongPins >= 3
              /\ Answers(t, 429)
              /\ UNCHANGED pinAttempts
           \/ /\ owner[d] = Nobody
              /\ d \in PinDevices /\ wrongPins < 3 /\ pin[t] # "right"
              /\ Answers(t, IF wrong /\ wrongPins = 2 THEN 429 ELSE 401)
              /\ pinAttempts' =
                    IF wrong THEN [pinAttempts EXCEPT ![d][From[t]] = wrongPins + 1]
                    ELSE pinAttempts
           \/ /\ owner[d] = Nobody
              /\ d \in PinDevices => wrongPins < 3 /\ pin[t] = "right"
              /\ Moves(t, "checked")
              /\ UNCHANGED pinAttempts
        /\ UNCHANGED <<senderVars, client, server, receiverVars, diskVars,
                       cancels, faults>>

\* The handler after its awaits: it stores its session over whatever is
\* there now, and asks the user, or accepts every file at once.
StoreSession(t) ==
    LET d == To[t]
        quick == t \in QuickSave /\ t \notin Messages
    IN  /\ prepare[t] = "checked"
        /\ owner' = [owner EXCEPT ![d] = t]
        /\ got' = [u \in Transfers |->
                      IF u \in {t, owner[d]} THEN NotSent ELSE got[u]]
        /\ \/ /\ quick
              /\ status' = [status EXCEPT ![d] = "sending"]
              /\ accepted' = [accepted EXCEPT ![t] = Files]
              /\ Grants(t, Files)
           \/ /\ ~quick
              /\ status' = [status EXCEPT ![d] = "waiting"]
              /\ Moves(t, "asked")
              /\ UNCHANGED accepted
        /\ UNCHANGED <<senderVars, client, server, closing, saved, pinAttempts,
                       cancels, faults>>

\* The answer goes to the handler whose session is stored, which sets the
\* tokens and answers without an await.
Grant(d, selection, tokens) ==
    LET t == owner[d]
    IN  /\ t # Nobody /\ status[d] = "waiting"
        /\ t \notin Messages /\ selection # {}
        /\ status' = [status EXCEPT ![d] = "sending"]
        /\ got' = [got EXCEPT ![t] =
                      [f \in Files |-> IF f \in tokens THEN "queue" ELSE "skipped"]]
        /\ accepted' = [accepted EXCEPT ![t] = selection]
        /\ Grants(t, tokens)
        /\ UNCHANGED <<senderVars, client, server, owner, closing, saved,
                       pinAttempts, cancels, faults>>

\* Mutant: a file that was not selected gets a token as well.
AcceptAllTokens(d, selection) == Grant(d, selection, Files)

\* The user accepts some of the files.
Accept(d, selection) == Grant(d, selection, selection)

\* A message is accepted with nothing selected; a request is declined.
Dismiss(d) ==
    /\ owner[d] # Nobody /\ status[d] = "waiting"
    /\ \/ owner[d] \in Messages /\ Answers(owner[d], 204)
       \/ Answers(owner[d], 403)
    /\ CloseReceive(d)
    /\ UNCHANGED <<senderVars, client, server, closing, diskVars, pinAttempts,
                   cancels, faults>>

\* Every answer but 200.  The pipeline does not look whether its session
\* was removed meanwhile; the PIN dialog opens either way.
PrepareRefused(t) ==
    /\ prepare[t] = "reply" /\ t \notin abandoned /\ code[t] # 200
    /\ session' = [session EXCEPT ![t] =
          CASE code[t] = 204 -> "closed"
            [] code[t] = 401 -> session[t]
            [] code[t] = 403 -> Status(t, "declined")
            [] code[t] = 409 -> Status(t, "recipientBusy")
            [] OTHER -> Status(t, "tooManyAttempts")]             \* 429
    /\ Moves(t, IF code[t] = 401 THEN "pin" ELSE "done")
    /\ UNCHANGED <<sent, queue, client, server, receiverVars, diskVars,
                   pinAttempts, cancels, faults>>

EnterPin(t) ==
    /\ prepare[t] = "pin"
    /\ prepare' = [prepare EXCEPT ![t] = "request"]
    /\ \E p \in {"none", "right", "wrong"} : pin' = [pin EXCEPT ![t] = p]
    /\ UNCHANGED <<code, granted, abandoned, senderVars, client, server,
                   receiverVars, diskVars, pinAttempts, cancels, faults>>

DismissPinDialog(t) ==
    /\ prepare[t] = "pin"
    /\ SetSession(t, "canceledBySender")
    /\ Moves(t, "done")
    /\ UNCHANGED <<sent, queue, client, server, receiverVars, diskVars,
                   pinAttempts, cancels, faults>>

\* The request fails at the sender.  Its handler may run all the same.
PrepareFails(t) ==
    /\ prepare[t] \in {"request", "checked", "asked", "reply"}
    /\ t \notin abandoned
    /\ Fault
    /\ SetSession(t, "finishedWithErrors")
    /\ abandoned' = abandoned \cup {t}
    /\ UNCHANGED <<prepare, pin, code, granted, sent, queue, client, server,
                   receiverVars, diskVars, pinAttempts, cancels>>

-----------------------------------------------------------------------------
(* The send loop, and retries.                                             *)

InFlight(c) == client[c] \in {"open", "canceled"}

\* The first files are taken by the upload isolates.
PrepareAccepted(t) ==
    /\ prepare[t] = "reply" /\ t \notin abandoned /\ code[t] = 200
    /\ Moves(t, "done")
    /\ \/ /\ session[t] = "closed"     \* the loop finds no session and ends
          /\ UNCHANGED <<senderVars, client>>
       \/ /\ session[t] # "closed"
          /\ session' = [session EXCEPT ![t] = "sending"]
          /\ \E batch \in SUBSET granted[t] :
                /\ Cardinality(batch) <= Concurrency
                /\ Cardinality(batch) < Concurrency => batch = granted[t]
                /\ queue' = [queue EXCEPT ![t] = granted[t] \ batch]
                /\ sent' = [sent EXCEPT ![t] = [f \in Files |->
                       CASE f \in batch -> "sending"
                         [] f \in granted[t] \ batch -> "queue"
                         [] OTHER -> "skipped"]]
                /\ client' = [c \in Connections |->
                       IF c[1] = t /\ c[2] \in batch /\ c[3] = 1 THEN "open"
                       ELSE client[c]]
    /\ UNCHANGED <<server, receiverVars, diskVars, pinAttempts, cancels, faults>>

\* The status _finish gives a session with these file statuses: only one
\* that is still sending is finished, and one in the background is removed.
Outcomes(t, files) ==
    IF session[t] # "sending" THEN {session[t]}
    ELSE IF HasError(files) THEN {"finishedWithErrors"} ELSE {"finished", "closed"}

\* Mutant: a retry leaves the session to the send loop.
FinishesInLoop(c, others, files) == c[3] = 1 /\ others = {}

\* The session is finished by the last upload of the loop, and by a retry
\* after which every file is done.
Finishes(c, others, files) == IF c[3] = 1 THEN others = {} ELSE AllDone(files)

\* An upload has ended.  In the loop its isolate takes the next file, or
\* passes over what is left when the session is no longer sending.
EndUpload(c, result) ==
    LET t == c[1]
        files == [sent[t] EXCEPT ![c[2]] = result]
        others == {d \in Connections : d # c /\ d[1] = t /\ d[3] = 1 /\ InFlight(d)}
        next == c[3] = 1 /\ queue[t] # {} /\ session[t] \in Uploadable
    IN  \/ /\ next
           /\ \E f \in queue[t] :
                 /\ queue' = [queue EXCEPT ![t] = @ \ {f}]
                 /\ sent' = [sent EXCEPT ![t] = [files EXCEPT ![f] = "sending"]]
                 /\ client' = [client EXCEPT ![c] = "closed", ![<<t, f, 1>>] = "open"]
           /\ UNCHANGED session
        \/ /\ ~next
           /\ queue' = IF c[3] = 1 THEN [queue EXCEPT ![t] = {}] ELSE queue
           /\ sent' = IF session[t] = "closed" THEN sent ELSE [sent EXCEPT ![t] = files]
           /\ client' = [client EXCEPT ![c] = "closed"]
           /\ \E s \in IF Finishes(c, others, files) THEN Outcomes(t, files)
                       ELSE {session[t]} :
                 session' = [session EXCEPT ![t] = s]

\* The response arrives.
UploadAnswered(c) ==
    /\ InFlight(c)
    /\ server[c] \in {"saved", "refused"}
    /\ EndUpload(c, IF server[c] = "saved" THEN "finished" ELSE "failed")
    /\ UNCHANGED <<exchange, server, receiverVars, diskVars, pinAttempts,
                   cancels, faults>>

\* The connection is lost.
UploadLost(c) ==
    /\ client[c] = "open"
    /\ Fault
    /\ EndUpload(c, "failed")
    /\ UNCHANGED <<exchange, server, receiverVars, diskVars, pinAttempts, cancels>>

\* The isolate has got the cancel of _cancelRunningRequests.
UploadAborted(c) ==
    /\ client[c] = "canceled"
    /\ EndUpload(c, "failed")
    /\ UNCHANGED <<exchange, server, receiverVars, diskVars, pinAttempts,
                   cancels, faults>>

\* The user starts a failed file over, while the loop may still run.
Retry(t, f) ==
    /\ session[t] \in Uploadable
    /\ sent[t][f] = "failed"
    /\ session' = [session EXCEPT ![t] = "sending"]
    /\ sent' = [sent EXCEPT ![t][f] = "sending"]
    /\ \E n \in 2..MaxAttempts :
          /\ client[<<t, f, n>>] = "idle"
          /\ \A m \in 1..(n - 1) : client[<<t, f, m>>] # "idle"
          /\ client' = [client EXCEPT ![<<t, f, n>>] = "open"]
    /\ UNCHANGED <<queue, exchange, server, receiverVars, diskVars, pinAttempts,
                   cancels, faults>>

-----------------------------------------------------------------------------
(* The receiver's upload handler.                                          *)

\* From the request to the first await: the file is started.
UploadArrives(c) ==
    LET t == c[1]
        d == To[t]
        starts == owner[d] = t /\ status[d] \in Uploadable /\ got[t][c[2]] # "skipped"
    IN  /\ client[c] # "idle" /\ server[c] = "idle"
        /\ \/ /\ starts
              /\ server' = [server EXCEPT ![c] = "saving"]
              /\ status' = [status EXCEPT ![d] = "sending"]
              /\ got' = [got EXCEPT ![t][c[2]] = "sending"]
           \/ /\ ~starts
              /\ server' = [server EXCEPT ![c] = "refused"]
              /\ UNCHANGED <<status, got>>
        /\ UNCHANGED <<senderVars, exchange, client, owner, closing, diskVars,
                       pinAttempts, cancels, faults>>

\* The file is on disk.  The handler looks at whatever session there is now;
\* fileFinished throws for a file that session does not have, and so does
\* the catch: the request is never answered.
SaveOk(c) ==
    LET t == c[1]
        d == To[t]
    IN  /\ server[c] = "saving"
        /\ saved' = [saved EXCEPT ![t] = @ \cup {c[2]}]
        /\ \/ /\ status[d] \notin Uploadable
              /\ server' = [server EXCEPT ![c] = "refused"]
              /\ UNCHANGED got
           \/ /\ status[d] \in Uploadable /\ owner[d] = t
              /\ server' = [server EXCEPT ![c] = "history"]
              /\ got' = [got EXCEPT ![t][c[2]] = "finished"]
           \/ /\ status[d] \in Uploadable /\ owner[d] # t
              /\ server' = [server EXCEPT ![c] = "threw"]
              /\ UNCHANGED got
        /\ UNCHANGED <<senderVars, exchange, client, owner, status, closing,
                       accepted, pinAttempts, cancels, faults>>

\* Mutants: a session is completed whatever its state; only when no file
\* failed; and as soon as no file is being written.
CompleteInAnyState(d, files) == owner[d] # Nobody /\ AllDone(files)
CompleteIfFinished(d, files) ==
    status[d] \in Uploadable /\ AllDone(files) /\ ~HasError(files)
CompleteIfIdle(d, files) ==
    status[d] \in Uploadable /\ \A f \in Files : files[f] # "sending"

\* The session with these files is over.
Complete(d, files) == status[d] \in Uploadable /\ AllDone(files)

\* Mutant: every upload is answered with 200.
AnswerOk(c, files) == "saved"

\* 200 if the session has this file and it is finished, else 500.
Answer(c, files) ==
    IF owner[To[c[1]]] = c[1] /\ files[c[2]] = "finished" THEN "saved" ELSE "refused"

\* The end of the handler.
Conclude(c, files) ==
    LET d == To[c[1]]
    IN  /\ server' = [server EXCEPT ![c] = Answer(c, files)]
        /\ \/ /\ Complete(d, files)
              /\ status' = [status EXCEPT ![d] =
                    IF HasError(files) THEN "finishedWithErrors" ELSE "finished"]
              /\ closing' = IF owner[d] \in QuickSave \ Messages
                            THEN closing \cup {d} ELSE closing
           \/ /\ ~Complete(d, files)
              /\ UNCHANGED <<status, closing>>

\* The files of the session a device has.
SessionFiles(d) == IF owner[d] = Nobody THEN NotSent ELSE got[owner[d]]

HistoryDone(c) ==
    /\ server[c] = "history"
    /\ Conclude(c, SessionFiles(To[c[1]]))
    /\ UNCHANGED <<senderVars, exchange, client, owner, got, diskVars,
                   pinAttempts, cancels, faults>>

\* Writing the file or the history fails, as it must once the sender has
\* dropped the connection before the file is complete.
SaveFails(c) ==
    LET t == c[1]
        d == To[t]
    IN  /\ \/ server[c] = "saving" /\ client[c] # "open" /\ UNCHANGED faults
           \/ server[c] \in {"saving", "history"} /\ Fault
        /\ \/ /\ owner[d] \in {t, Nobody}
              /\ got' = IF owner[d] = t THEN [got EXCEPT ![t][c[2]] = "failed"] ELSE got
              /\ Conclude(c, IF owner[d] = t THEN got'[t] ELSE NotSent)
           \/ /\ owner[d] \notin {t, Nobody}
              /\ server' = [server EXCEPT ![c] = "threw"]
              /\ UNCHANGED <<status, got, closing>>
        /\ UNCHANGED <<senderVars, exchange, client, owner, diskVars,
                       pinAttempts, cancels>>

\* The timer of quick save closes whatever session there is now.
DelayedClose(d) ==
    /\ d \in closing
    /\ closing' = closing \ {d}
    /\ CloseReceive(d)
    /\ UNCHANGED <<senderVars, exchange, client, server, diskVars, pinAttempts,
                   cancels, faults>>

-----------------------------------------------------------------------------
(* Cancelling and closing.                                                 *)

\* A device and the session it is told to cancel.
Cancel(d, t) == [to |-> d, id |-> t]
Canceller(m) == IF m.to = To[m.id] THEN From[m.id] ELSE To[m.id]

\* _cancelRunningRequests
CancelUploads(t) ==
    client' = [c \in Connections |->
                  IF c[1] = t /\ client[c] = "open" THEN "canceled" ELSE client[c]]

CancelSend(t) ==
    /\ session[t] = "sending"
    /\ CancelUploads(t)
    /\ cancels' = cancels \cup {Cancel(To[t], t)}
    /\ session' = [session EXCEPT ![t] = "closed"]
    /\ UNCHANGED <<sent, queue, exchange, server, receiverVars, diskVars,
                   pinAttempts, faults>>

\* Without a remoteSessionId there is nobody to tell.
CancelWaiting(t) ==
    /\ session[t] = "waiting"
    /\ session' = [session EXCEPT ![t] = "closed"]
    /\ UNCHANGED <<sent, queue, exchange, client, server, receiverVars, diskVars,
                   pinAttempts, cancels, faults>>

\* The sender's page is left, with no cancel, when nothing is being sent.
CloseSend(t) ==
    /\ session[t] \notin {"none", "waiting", "sending", "closed"}
    /\ session' = [session EXCEPT ![t] = "closed"]
    /\ UNCHANGED <<sent, queue, exchange, client, server, receiverVars, diskVars,
                   pinAttempts, cancels, faults>>

\* clearAllSessions, when the user changes the send mode.
ClearAllSessions(d) ==
    /\ session' = [t \in Transfers |->
          IF From[t] = d /\ session[t] # "none" THEN "closed" ELSE session[t]]
    /\ session' # session
    /\ UNCHANGED <<sent, queue, exchange, client, server, receiverVars, diskVars,
                   pinAttempts, cancels, faults>>

CancelReceive(d) ==
    /\ owner[d] # Nobody /\ status[d] = "sending"
    /\ cancels' = cancels \cup {Cancel(From[owner[d]], owner[d])}
    /\ CloseReceive(d)
    /\ UNCHANGED <<senderVars, exchange, client, server, closing, diskVars,
                   pinAttempts, faults>>

\* The receiver's page is left.
LeaveReceive(d) ==
    /\ status[d] \in {"finished", "finishedWithErrors", "canceledBySender"}
    /\ CloseReceive(d)
    /\ UNCHANGED <<senderVars, exchange, client, server, closing, diskVars,
                   pinAttempts, cancels, faults>>

\* A device with a receive session takes a cancel to be about that session,
\* and asks for no session id while its user has not answered.
CancelArrives(m) ==
    LET d == m.to
        receiving == owner[d] # Nobody
        bySender == /\ receiving
                    /\ From[owner[d]] = Canceller(m)
                    /\ \/ status[d] = "waiting"
                       \/ status[d] = "sending" /\ owner[d] = m.id
        byReceiver == ~receiving /\ From[m.id] = d /\ session[m.id] = "sending"
    IN  /\ m \in cancels
        /\ cancels' = cancels \ {m}
        /\ status' = IF bySender THEN [status EXCEPT ![d] = "canceledBySender"] ELSE status
        /\ \/ /\ byReceiver
              /\ CancelUploads(m.id)
              /\ session' = [session EXCEPT ![m.id] = "canceledByReceiver"]
           \/ ~byReceiver /\ UNCHANGED <<client, session>>
        /\ UNCHANGED <<sent, queue, exchange, server, owner, got, closing, diskVars,
                       pinAttempts, faults>>

CancelLost(m) ==
    /\ m \in cancels
    /\ Fault
    /\ cancels' = cancels \ {m}
    /\ UNCHANGED <<senderVars, exchange, client, server, receiverVars, diskVars,
                   pinAttempts>>

-----------------------------------------------------------------------------
(* The specification.                                                      *)

SendStep(t) ==
    \/ StartSession(t) \/ PrepareRefused(t) \/ PrepareAccepted(t)
    \/ EnterPin(t) \/ DismissPinDialog(t) \/ PrepareFails(t)
    \/ CancelSend(t) \/ CancelWaiting(t) \/ CloseSend(t)
    \/ \E f \in Files : Retry(t, f)

UploadStep(c) ==
    \/ UploadAnswered(c) \/ UploadLost(c) \/ UploadAborted(c)
    \/ UploadArrives(c) \/ SaveOk(c) \/ SaveFails(c) \/ HistoryDone(c)

ReceiveStep(d) ==
    \/ \E selection \in SUBSET Files : Accept(d, selection)
    \/ Dismiss(d) \/ DelayedClose(d) \/ CancelReceive(d) \/ LeaveReceive(d)
    \/ ClearAllSessions(d)

Next ==
    \/ \E t \in Transfers : SendStep(t) \/ PrepareArrives(t) \/ StoreSession(t)
    \/ \E c \in Connections : UploadStep(c)
    \/ \E d \in Devices : ReceiveStep(d)
    \/ \E m \in cancels : CancelArrives(m) \/ CancelLost(m)

Spec == Init /\ [][Next]_vars

\* Requests in flight arrive, handlers and timers run on, responses come
\* back.  Users need not act, and lost connections need not be lost.
Fairness ==
    /\ \A t \in Transfers :
          WF_vars(PrepareArrives(t)) /\ WF_vars(StoreSession(t))
          /\ WF_vars(PrepareRefused(t)) /\ WF_vars(PrepareAccepted(t))
    /\ \A c \in Connections :
          /\ WF_vars(client[c] = "open" /\ UploadArrives(c))
          /\ WF_vars(SaveOk(c) \/ SaveFails(c) \/ HistoryDone(c))
          /\ WF_vars(UploadAnswered(c) \/ UploadAborted(c))
    /\ \A d \in Devices : WF_vars(DelayedClose(d))
    /\ \A m \in [to : Devices, id : Transfers] : WF_vars(CancelArrives(m))

FairSpec == Spec /\ Fairness

-----------------------------------------------------------------------------
(* Properties.                                                             *)

SessionStatus == {"none", "waiting", "declined", "recipientBusy",
                  "tooManyAttempts", "sending", "finished", "finishedWithErrors",
                  "canceledBySender", "canceledByReceiver", "closed"}
PrepareStatus == {"idle", "request", "checked", "asked", "reply", "pin", "done"}
Codes == {0, 200, 204, 401, 403, 409, 429}
ReceiveStatus == {"none", "waiting", "sending", "finished",
                  "finishedWithErrors", "canceledBySender"}
FileStatus == {"queue", "skipped", "sending", "failed", "finished"}

TypeOK ==
    /\ session \in [Transfers -> SessionStatus]
    /\ sent \in [Transfers -> [Files -> FileStatus]]
    /\ queue \in [Transfers -> SUBSET Files]
    /\ prepare \in [Transfers -> PrepareStatus]
    /\ pin \in [Transfers -> {"none", "right", "wrong"}]
    /\ code \in [Transfers -> Codes]
    /\ granted \in [Transfers -> SUBSET Files]
    /\ abandoned \subseteq Transfers
    /\ client \in [Connections -> {"idle", "open", "canceled", "closed"}]
    /\ server \in [Connections ->
          {"idle", "saving", "history", "saved", "refused", "threw"}]
    /\ owner \in [Devices -> Transfers \cup {Nobody}]
    /\ status \in [Devices -> ReceiveStatus]
    /\ got \in [Transfers -> [Files -> FileStatus]]
    /\ closing \subseteq Devices
    /\ pinAttempts \in [Devices -> [Devices -> 0..3]]
    /\ cancels \subseteq [to : Devices, id : Transfers]
    /\ accepted \in [Transfers -> SUBSET Files]
    /\ saved \in [Transfers -> SUBSET Files]
    /\ faults \in 0..MaxFaults

\* A session belongs to a transfer to this device, and while the user is
\* asked it is the one whose handler waits for the answer.
OwnerInv ==
    \A d \in Devices :
        /\ owner[d] = Nobody <=> status[d] = "none"
        /\ owner[d] # Nobody => To[owner[d]] = d
        /\ status[d] = "waiting" => prepare[owner[d]] = "asked"

\* A session that was not started has asked nothing, and what is accepted was
\* answered with 200.
PrepareInv ==
    \A t \in Transfers :
        /\ session[t] = "none" => prepare[t] = "idle"
        /\ accepted[t] # {} => prepare[t] \in {"reply", "done"} /\ code[t] = 200

\* From the answer on, the files with a token are the accepted ones.
TokenInv ==
    \A d \in Devices :
        status[d] \in {"sending", "finished", "finishedWithErrors"} =>
            accepted[owner[d]] = {f \in Files : got[owner[d]][f] # "skipped"}

\* What handlers are writing was accepted; what they report is on disk.
DiskInv ==
    /\ \A c \in Connections :
          /\ server[c] \in {"saving", "history"} => c[2] \in accepted[c[1]]
          /\ server[c] = "saved" => c[2] \in saved[c[1]]
    /\ \A t \in Transfers : \A f \in Files :
          got[t][f] = "finished" => f \in saved[t]

\* The sender uploads a file over one connection at a time, retries included;
\* what the loop has not taken is untouched.
UploadInv ==
    /\ \A c \in Connections : InFlight(c) =>
          /\ sent[c[1]][c[2]] = "sending"
          /\ \A d \in Connections :
                InFlight(d) /\ d[1] = c[1] /\ d[2] = c[2] => d = c
    /\ \A t \in Transfers : \A f \in queue[t] : sent[t][f] = "queue"
    /\ \A t \in Transfers : prepare[t] # "done" =>
          /\ \A c \in Connections : c[1] = t => ~InFlight(c)
          /\ \A f \in Files : sent[t][f] = "queue"

\* Until the request of a transfer is done its session waits, or was removed,
\* unless the request failed; and one that failed goes no further at the sender.
PipelineInv ==
    \A t \in Transfers :
        /\ prepare[t] \notin {"idle", "done"} /\ t \notin abandoned
              => session[t] \in {"waiting", "closed"}
        /\ t \in abandoned => prepare[t] \notin {"idle", "pin", "done"}

\* A transfer whose session is stored is past the checks of its request.
StoredInv ==
    \A d \in Devices : owner[d] # Nobody =>
        \/ prepare[owner[d]] = "asked"
        \/ prepare[owner[d]] \in {"reply", "done"} /\ code[owner[d]] = 200

\* While a session takes uploads, a file that is shown as being received has a
\* handler that writes it, and a session that is not over has a file, or a
\* handler, to wait for.
SettleInv ==
    \A d \in Devices : status[d] \in Uploadable =>
        /\ \A f \in Files : got[owner[d]][f] = "sending" =>
              \E c \in Connections : c[1] = owner[d] /\ c[2] = f /\ server[c] = "saving"
        /\ status[d] = "sending" =>
              \/ ~AllDone(got[owner[d]])
              \/ \E c \in Connections :
                    c[1] = owner[d] /\ server[c] \in {"saving", "history"}

\* What the receiver shows as finished is on its disk, with no file missing,
\* however uploads, retries, failures and closes interleave
\* (isFinishedOrError and hasError, receive_controller.dart).
FinishedMeansSaved ==
    \A d \in Devices : status[d] = "finished" => accepted[owner[d]] \subseteq saved[owner[d]]

\* The inductive invariant.
IndInv ==
    /\ TypeOK
    /\ OwnerInv
    /\ PrepareInv
    /\ TokenInv
    /\ DiskInv
    /\ UploadInv
    /\ PipelineInv
    /\ StoredInv
    /\ SettleInv
    /\ FinishedMeansSaved

\* The receiver only ever writes what was accepted, and the sender counts a
\* file as sent only when the receiver has it (FileTransfer): through lost
\* responses, retries and sessions replaced or closed under an upload.
Acknowledged == [t \in Transfers |-> {f \in Files : sent[t][f] = "finished"}]
FT == INSTANCE FileTransfer WITH acknowledged <- Acknowledged
ImplementsFileTransfer == FT!Spec

\* A send session that has come to an end, or was removed while its pipeline
\* still runs, is not brought back by a late answer, retry or cancel
\* (updateSession with s?.copyWith, send_provider.dart).
Final == {"declined", "recipientBusy", "tooManyAttempts", "finished",
          "canceledBySender", "canceledByReceiver", "closed"}
FinalStays ==
    [][\A t \in Transfers :
          session[t] \in Final => session'[t] \in {session[t], "closed"}]_vars

\* The receiver does not stay at "sending" once the last handler of its
\* session is done, unless a file was never uploaded: whatever attempt ends
\* last completes the session.
ReceiverSettles ==
    \A d \in Devices : status[d] = "sending" =>
        \/ \E f \in Files : got[owner[d]][f] = "queue"
        \/ \E c \in Connections :
              c[1] = owner[d] /\ server[c] \in {"saving", "history"}

\* A receive session its sender canceled is not completed by the uploads that
\* were running, only left or replaced (allowedStates in _uploadHandler).
CanceledStaysCanceled ==
    [][\A d \in Devices :
          status[d] = "canceledBySender" =>
              status'[d] \in {"canceledBySender", "none"} \/ owner'[d] # owner[d]]_vars

\* A transfer that is sending comes to an end although its user does nothing
\* and files fail and are retried, unless the receiver's handler threw and
\* left an upload without an answer.
TransferEnds ==
    \A t \in Transfers :
        session[t] = "sending" ~>
            \/ session[t] # "sending"
            \/ \E c \in Connections : c[1] = t /\ client[c] = "open" /\ server[c] = "threw"
=============================================================================
