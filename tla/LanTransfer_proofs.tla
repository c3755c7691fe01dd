--------------------------- MODULE LanTransfer_proofs ---------------------------
(***************************************************************************)
(* Proofs about LanTransfer, for any number of devices, transfers, files,  *)
(* upload isolates, retries and faults: the inductive invariant IndInv,    *)
(* what follows from it for the ends of the sessions, and that a transfer  *)
(* over the LAN implements FileTransfer.                                   *)
(***************************************************************************)
EXTENDS LanTransfer, TLAPS

-----------------------------------------------------------------------------
(* Lemmas.                                                                 *)

\* A connection is an upload of a file of a transfer.
LEMMA ConnectionParts ==
    /\ \A c \in Connections :
          c[1] \in Transfers /\ c[2] \in Files /\ c[3] \in 1..MaxAttempts
    /\ \A t \in Transfers, f \in Files, n \in 1..MaxAttempts :
          /\ <<t, f, n>> \in Connections
          /\ <<t, f, n>>[1] = t /\ <<t, f, n>>[2] = f /\ <<t, f, n>>[3] = n
    /\ \A c \in Connections, d \in Connections :
          c[1] = d[1] /\ c[2] = d[2] /\ c[3] = d[3] => c = d
BY DEF Connections

\* Who sends and who receives is a device, and 1 is an attempt.
LEMMA Ends ==
    /\ \A t \in Transfers : From[t] \in Devices /\ To[t] \in Devices
    /\ 1 \in 1..MaxAttempts
BY TransfersAssumption, BoundsAssumption

\* Closing a receive session keeps its variables in their types.
LEMMA CloseReceiveType ==
    ASSUME TypeOK, NEW d \in Devices, CloseReceive(d)
    PROVE  /\ owner' \in [Devices -> Transfers \cup {Nobody}]
           /\ status' \in [Devices -> ReceiveStatus]
           /\ got' \in [Transfers -> [Files -> FileStatus]]
BY DEF TypeOK, CloseReceive, ReceiveStatus, NotSent, FileStatus

\* The end of an upload keeps the sender's variables in their types.
LEMMA EndUploadType ==
    ASSUME TypeOK, NEW c \in Connections, NEW result \in {"finished", "failed"},
           EndUpload(c, result)
    PROVE  /\ session' \in [Transfers -> SessionStatus]
           /\ sent' \in [Transfers -> [Files -> FileStatus]]
           /\ queue' \in [Transfers -> SUBSET Files]
           /\ client' \in [Connections -> {"idle", "open", "canceled", "closed"}]
<1> DEFINE t == c[1]
           files == [sent[t] EXCEPT ![c[2]] = result]
           others == {d \in Connections : d # c /\ d[1] = t /\ d[3] = 1 /\ InFlight(d)}
<1>t. /\ session \in [Transfers -> SessionStatus]
      /\ sent \in [Transfers -> [Files -> FileStatus]]
      /\ queue \in [Transfers -> SUBSET Files]
      /\ client \in [Connections -> {"idle", "open", "canceled", "closed"}]
  BY DEF TypeOK
<1>1. t \in Transfers /\ files \in [Files -> FileStatus]
  BY <1>t, ConnectionParts DEF FileStatus
<1>2. CASE \E f \in queue[t] :
              /\ queue' = [queue EXCEPT ![t] = @ \ {f}]
              /\ sent' = [sent EXCEPT ![t] = [files EXCEPT ![f] = "sending"]]
              /\ client' = [client EXCEPT ![c] = "closed", ![<<t, f, 1>>] = "open"]
              /\ session' = session
  <2> HIDE DEF t, files
  <2>1. PICK f \in queue[t] :
              /\ queue' = [queue EXCEPT ![t] = @ \ {f}]
              /\ sent' = [sent EXCEPT ![t] = [files EXCEPT ![f] = "sending"]]
              /\ client' = [client EXCEPT ![c] = "closed", ![<<t, f, 1>>] = "open"]
              /\ session' = session
    BY <1>2
  <2>2. f \in Files
    BY <1>t, <1>1
  <2> QED
    BY <1>t, <1>1, <2>1, <2>2, ConnectionParts, Ends DEF FileStatus
<1>3. CASE /\ queue' = IF c[3] = 1 THEN [queue EXCEPT ![t] = {}] ELSE queue
           /\ sent' = IF session[t] = "closed" THEN sent ELSE [sent EXCEPT ![t] = files]
           /\ client' = [client EXCEPT ![c] = "closed"]
           /\ \E s \in IF Finishes(c, others, files) THEN Outcomes(t, files)
                       ELSE {session[t]} :
                 session' = [session EXCEPT ![t] = s]
  <2>1. Outcomes(t, files) \subseteq SessionStatus
    BY <1>t, <1>1 DEF Outcomes, SessionStatus
  <2>2. PICK s \in SessionStatus : session' = [session EXCEPT ![t] = s]
    BY <1>3, <1>t, <1>1, <2>1
  <2> HIDE DEF t, files
  <2> QED
    BY <1>t, <1>1, <1>3, <2>2
<1> QED
  BY <1>2, <1>3 DEF EndUpload

\* The end of a handler keeps the receiver's variables in their types.
LEMMA ConcludeType ==
    ASSUME TypeOK, NEW c \in Connections, NEW files, Conclude(c, files)
    PROVE  /\ server' \in [Connections ->
                 {"idle", "saving", "history", "saved", "refused", "threw"}]
           /\ status' \in [Devices -> ReceiveStatus]
           /\ closing' \subseteq Devices
<1>1. To[c[1]] \in Devices
  BY ConnectionParts, Ends
<1>2. Answer(c, files) \in {"saved", "refused"}
  BY DEF Answer
<1>3. /\ server' = [server EXCEPT ![c] = Answer(c, files)]
      /\ \/ \E s \in {"finished", "finishedWithErrors"} :
              status' = [status EXCEPT ![To[c[1]]] = s]
         \/ status' = status
  BY DEF Conclude
<1>4. closing' \subseteq Devices
  BY <1>1 DEF Conclude, TypeOK
<1> QED
  BY <1>1, <1>2, <1>3, <1>4, ZenonT(60) DEF TypeOK, ReceiveStatus


\* Setting one file's status keeps the receiver's files in their type.
LEMMA FilesType ==
    ASSUME TypeOK, NEW t \in Transfers, NEW f \in Files, NEW s \in FileStatus,
           got' = [got EXCEPT ![t][f] = s]
    PROVE  got' \in [Transfers -> [Files -> FileStatus]]
<1>1. got \in [Transfers -> [Files -> FileStatus]]
  BY DEF TypeOK
<1> QED
  BY <1>1

\* A step of the prepareUpload exchange keeps its variables in their types.
LEMMA ExchangeType ==
    ASSUME TypeOK, NEW t \in Transfers
    PROVE  /\ \A at \in PrepareStatus : Moves(t, at) =>
                 /\ prepare' \in [Transfers -> PrepareStatus]
                 /\ UNCHANGED <<pin, code, granted, abandoned>>
           /\ \A c \in Codes : Answers(t, c) =>
                 /\ prepare' \in [Transfers -> PrepareStatus]
                 /\ code' \in [Transfers -> Codes]
                 /\ UNCHANGED <<pin, granted, abandoned>>
           /\ \A files \in SUBSET Files : Grants(t, files) =>
                 /\ prepare' \in [Transfers -> PrepareStatus]
                 /\ code' \in [Transfers -> Codes]
                 /\ granted' \in [Transfers -> SUBSET Files]
                 /\ UNCHANGED <<pin, abandoned>>
<1>t. /\ prepare \in [Transfers -> PrepareStatus]
      /\ code \in [Transfers -> Codes]
      /\ granted \in [Transfers -> SUBSET Files]
  BY DEF TypeOK
<1>1. "reply" \in PrepareStatus /\ 200 \in Codes
  BY DEF PrepareStatus, Codes
<1> QED
  BY <1>t, <1>1 DEF Moves, Answers, Grants

-----------------------------------------------------------------------------
(* Type correctness.                                                       *)

LEMMA TypeInit == Init => TypeOK
<1>1. ASSUME Init PROVE faults \in 0..MaxFaults
  BY <1>1, BoundsAssumption DEF Init
<1> QED
  BY <1>1 DEF Init, TypeOK, NotSent, SessionStatus, ReceiveStatus, FileStatus,
           PrepareStatus, Codes

\* What a transfer's sender and the network do keeps the types.
LEMMA TypeSend ==
    ASSUME TypeOK, NEW t \in Transfers,
           SendStep(t) \/ PrepareArrives(t) \/ StoreSession(t)
    PROVE  TypeOK'
<1> USE DEF senderVars, receiverVars, diskVars, exchange
<1>0. faults' \in 0..MaxFaults \/ ~Fault
  BY BoundsAssumption DEF Fault, TypeOK
<1>1. CASE StartSession(t)
  <2>1. Moves(t, "request") /\ "request" \in PrepareStatus
    BY <1>1 DEF StartSession, PrepareStatus
  <2> QED
    BY <1>1, <2>1, ExchangeType DEF StartSession, TypeOK, SessionStatus
<1>2. CASE PrepareRefused(t)
  <2>1. PICK s \in SessionStatus : session' = [session EXCEPT ![t] = s]
    <3>1. session[t] \in SessionStatus
      BY DEF TypeOK
    <3> DEFINE s == CASE code[t] = 204 -> "closed"
                      [] code[t] = 401 -> session[t]
                      [] code[t] = 403 -> Status(t, "declined")
                      [] code[t] = 409 -> Status(t, "recipientBusy")
                      [] OTHER -> Status(t, "tooManyAttempts")
    <3>2. s \in SessionStatus
      BY <3>1 DEF Status, SessionStatus
    <3>3. session' = [session EXCEPT ![t] = s]
      BY <1>2 DEF PrepareRefused
    <3> HIDE DEF s
    <3> QED
      BY <3>2, <3>3
  <2>2. session' \in [Transfers -> SessionStatus]
    BY <2>1 DEF TypeOK
  <2>3. \E at \in PrepareStatus : Moves(t, at)
    BY <1>2 DEF PrepareRefused, PrepareStatus
  <2> QED
    BY <1>2, <2>2, <2>3, ExchangeType DEF PrepareRefused, TypeOK
<1>3. CASE PrepareAccepted(t)
  <2>t. TypeOK
    OBVIOUS
  <2>4. Moves(t, "done") /\ "done" \in PrepareStatus
    BY <1>3 DEF PrepareAccepted, PrepareStatus
  <2>2. granted[t] \subseteq Files
    BY <2>t DEF TypeOK
  <2>3. /\ session' \in [Transfers -> SessionStatus]
        /\ sent' \in [Transfers -> [Files -> FileStatus]]
        /\ queue' \in [Transfers -> SUBSET Files]
        /\ client' \in [Connections -> {"idle", "open", "canceled", "closed"}]
    <3>1. CASE UNCHANGED <<senderVars, client>>
      BY <3>1, <2>t DEF TypeOK
    <3>2. CASE session[t] # "closed"
      <4>1. PICK batch \in SUBSET granted[t] :
              /\ queue' = [queue EXCEPT ![t] = granted[t] \ batch]
              /\ sent' = [sent EXCEPT ![t] = [f \in Files |->
                     CASE f \in batch -> "sending"
                       [] f \in granted[t] \ batch -> "queue"
                       [] OTHER -> "skipped"]]
              /\ client' = [c \in Connections |->
                     IF c[1] = t /\ c[2] \in batch /\ c[3] = 1 THEN "open"
                     ELSE client[c]]
        BY <1>3, <3>2 DEF PrepareAccepted
      <4>2. session' = [session EXCEPT ![t] = "sending"]
        BY <1>3, <3>2 DEF PrepareAccepted
      <4>3. sent' \in [Transfers -> [Files -> FileStatus]]
        BY <4>1, <2>t DEF TypeOK, FileStatus
      <4> QED
        BY <4>1, <4>2, <4>3, <2>2, <2>t DEF TypeOK, SessionStatus
    <3> QED
      BY <1>3, <3>1, <3>2 DEF PrepareAccepted
  <2> QED
    BY <1>3, <2>t, <2>3, <2>4, ExchangeType DEF PrepareAccepted, TypeOK
<1>4. CASE EnterPin(t)
  BY <1>4 DEF EnterPin, TypeOK, PrepareStatus
<1>5. CASE DismissPinDialog(t)
  <2>1. Moves(t, "done") /\ "done" \in PrepareStatus
    BY <1>5 DEF DismissPinDialog, PrepareStatus
  <2> QED
    BY <1>5, <2>1, ExchangeType DEF DismissPinDialog, SetSession, Status, TypeOK, SessionStatus
<1>6. CASE PrepareFails(t)
  BY <1>6, <1>0 DEF PrepareFails, SetSession, Status, TypeOK, SessionStatus
<1>7. CASE CancelSend(t)
  BY <1>7, Ends DEF CancelSend, CancelUploads, Cancel, TypeOK, SessionStatus
<1>8. CASE CancelWaiting(t)
  BY <1>8 DEF CancelWaiting, TypeOK, SessionStatus
<1>9. CASE CloseSend(t)
  BY <1>9 DEF CloseSend, TypeOK, SessionStatus
<1>10. ASSUME NEW f \in Files, Retry(t, f) PROVE TypeOK'
  BY <1>10, ConnectionParts DEF Retry, TypeOK, SessionStatus, FileStatus
<1>11. CASE PrepareArrives(t)
  <2>1. \/ \E at \in PrepareStatus : Moves(t, at)
        \/ \E c \in Codes : Answers(t, c)
    BY <1>11 DEF PrepareArrives, PrepareStatus, Codes
  <2> DEFINE n == pinAttempts[To[t]][From[t]]
  <2>2. pinAttempts' \in [Devices -> [Devices -> 0..3]]
    <3>1. pinAttempts \in [Devices -> [Devices -> 0..3]]
      BY DEF TypeOK
    <3>2. \/ pinAttempts' = pinAttempts
          \/ n < 3 /\ pinAttempts' = [pinAttempts EXCEPT ![To[t]][From[t]] = n + 1]
      BY <1>11 DEF PrepareArrives
    <3>3. n \in 0..3
      BY <3>1, Ends
    <3>4. n < 3 => n + 1 \in 0..3
      BY <3>3
    <3> HIDE DEF n
    <3> QED
      BY <3>1, <3>2, <3>4, Ends, SMTT(60)
  <2> QED
    BY <1>11, <2>1, <2>2, ExchangeType DEF PrepareArrives, TypeOK
<1>12. CASE StoreSession(t)
  <2>1. (Moves(t, "asked") \/ Grants(t, Files)) /\ "asked" \in PrepareStatus
    BY <1>12 DEF StoreSession, PrepareStatus
  <2>3. status' \in [Devices -> ReceiveStatus] /\ accepted' \in [Transfers -> SUBSET Files]
    <3>1. status \in [Devices -> ReceiveStatus] /\ accepted \in [Transfers -> SUBSET Files]
      BY DEF TypeOK
    <3>2. \/ status' = [status EXCEPT ![To[t]] = "sending"]
          \/ status' = [status EXCEPT ![To[t]] = "waiting"]
      BY <1>12 DEF StoreSession
    <3>3. accepted' = [accepted EXCEPT ![t] = Files] \/ accepted' = accepted
      BY <1>12 DEF StoreSession
    <3> QED
      BY <3>1, <3>2, <3>3, Ends DEF ReceiveStatus
  <2>4. got' \in [Transfers -> [Files -> FileStatus]]
    BY <1>12 DEF StoreSession, TypeOK, NotSent, FileStatus
  <2>5. owner' \in [Devices -> Transfers \cup {Nobody}]
    BY <1>12 DEF StoreSession, TypeOK
  <2> QED
    BY <1>12, <2>1, <2>3, <2>4, <2>5, ExchangeType DEF StoreSession, TypeOK
<1> QED
  BY <1>1, <1>2, <1>3, <1>4, <1>5, <1>6, <1>7, <1>8, <1>9, <1>10, <1>11, <1>12
  DEF SendStep

\* An upload keeps the types.
LEMMA TypeUpload ==
    ASSUME TypeOK, NEW c \in Connections, UploadStep(c)
    PROVE  TypeOK'
<1> USE DEF senderVars, receiverVars, diskVars, exchange
<1>0. faults' \in 0..MaxFaults \/ ~Fault
  BY BoundsAssumption DEF Fault, TypeOK
<1>c. c[1] \in Transfers /\ c[2] \in Files /\ To[c[1]] \in Devices
  BY ConnectionParts, Ends
<1>1. CASE UploadAnswered(c)
  BY <1>1, EndUploadType DEF UploadAnswered, TypeOK
<1>2. CASE UploadLost(c)
  BY <1>2, <1>0, EndUploadType DEF UploadLost, TypeOK
<1>3. CASE UploadAborted(c)
  BY <1>3, EndUploadType DEF UploadAborted, TypeOK
<1>4. CASE UploadArrives(c)
  <2>1. status' \in [Devices -> ReceiveStatus]
    <3>1. status' = status \/ status' = [status EXCEPT ![To[c[1]]] = "sending"]
      BY <1>4 DEF UploadArrives
    <3> QED
      BY <3>1, <1>c DEF TypeOK, ReceiveStatus
  <2>2. got' \in [Transfers -> [Files -> FileStatus]]
    <3>1. got' = got \/ got' = [got EXCEPT ![c[1]][c[2]] = "sending"]
      BY <1>4 DEF UploadArrives
    <3> QED
      <4>1. got \in [Transfers -> [Files -> FileStatus]]
        BY DEF TypeOK
      <4>2. "sending" \in FileStatus /\ "finished" \in FileStatus /\ "failed" \in FileStatus
        BY DEF FileStatus
      <4> QED
        BY <3>1, <1>c, <4>1, <4>2, FilesType
  <2>3. server' \in [Connections ->
           {"idle", "saving", "history", "saved", "refused", "threw"}]
    <3>1. \E r \in {"saving", "refused"} : server' = [server EXCEPT ![c] = r]
      BY <1>4 DEF UploadArrives
    <3> QED
      BY <3>1 DEF TypeOK
  <2> QED
    BY <1>4, <2>1, <2>2, <2>3 DEF UploadArrives, TypeOK
<1>5. CASE SaveOk(c)
  <2>1. saved' \in [Transfers -> SUBSET Files]
    BY <1>5, <1>c DEF SaveOk, TypeOK
  <2>2. got' \in [Transfers -> [Files -> FileStatus]]
    <3>1. got' = got \/ got' = [got EXCEPT ![c[1]][c[2]] = "finished"]
      BY <1>5 DEF SaveOk
    <3> QED
      <4>1. got \in [Transfers -> [Files -> FileStatus]]
        BY DEF TypeOK
      <4>2. "sending" \in FileStatus /\ "finished" \in FileStatus /\ "failed" \in FileStatus
        BY DEF FileStatus
      <4> QED
        BY <3>1, <1>c, <4>1, <4>2, FilesType
  <2>3. server' \in [Connections ->
           {"idle", "saving", "history", "saved", "refused", "threw"}]
    <3>1. \E r \in {"history", "refused", "threw"} : server' = [server EXCEPT ![c] = r]
      BY <1>5 DEF SaveOk
    <3> QED
      BY <3>1 DEF TypeOK
  <2> QED
    BY <1>5, <2>1, <2>2, <2>3 DEF SaveOk, TypeOK
<1>6. CASE HistoryDone(c)
  BY <1>6, ConcludeType DEF HistoryDone, TypeOK
<1>7. CASE SaveFails(c)
  <2>1. faults' \in 0..MaxFaults
    BY <1>7, <1>0 DEF SaveFails, TypeOK
  <2>2. got' \in [Transfers -> [Files -> FileStatus]]
    <3>1. got' = got \/ got' = [got EXCEPT ![c[1]][c[2]] = "failed"]
      BY <1>7 DEF SaveFails
    <3> QED
      <4>1. got \in [Transfers -> [Files -> FileStatus]]
        BY DEF TypeOK
      <4>2. "sending" \in FileStatus /\ "finished" \in FileStatus /\ "failed" \in FileStatus
        BY DEF FileStatus
      <4> QED
        BY <3>1, <1>c, <4>1, <4>2, FilesType
  <2>3. \/ \E files : Conclude(c, files)
        \/ /\ server' = [server EXCEPT ![c] = "threw"]
           /\ UNCHANGED <<status, closing>>
    BY <1>7 DEF SaveFails
  <2>4. /\ server' \in [Connections ->
                 {"idle", "saving", "history", "saved", "refused", "threw"}]
        /\ status' \in [Devices -> ReceiveStatus]
        /\ closing' \subseteq Devices
    <3>1. CASE \E files : Conclude(c, files)
      BY <3>1, ConcludeType
    <3>2. CASE server' = [server EXCEPT ![c] = "threw"] /\ UNCHANGED <<status, closing>>
      BY <3>2 DEF TypeOK
    <3> QED
      BY <2>3, <3>1, <3>2
  <2> QED
    BY <1>7, <2>1, <2>2, <2>4 DEF SaveFails, TypeOK
<1> QED
  BY <1>1, <1>2, <1>3, <1>4, <1>5, <1>6, <1>7 DEF UploadStep

\* What a receiver's user and its timers do keeps the types.
LEMMA TypeReceive ==
    ASSUME TypeOK, NEW d \in Devices, ReceiveStep(d)
    PROVE  TypeOK'
<1> USE DEF senderVars, receiverVars, diskVars, exchange
<1>1. ASSUME NEW selection \in SUBSET Files, Accept(d, selection) PROVE TypeOK'
  <2>o. owner[d] \in Transfers
    BY <1>1 DEF Accept, Grant, TypeOK
  <2>1. /\ Grants(owner[d], selection)
        /\ status' = [status EXCEPT ![d] = "sending"]
        /\ accepted' = [accepted EXCEPT ![owner[d]] = selection]
        /\ got' = [got EXCEPT ![owner[d]] =
              [f \in Files |-> IF f \in selection THEN "queue" ELSE "skipped"]]
    BY <1>1 DEF Accept, Grant
  <2>2. got' \in [Transfers -> [Files -> FileStatus]]
    BY <2>1 DEF TypeOK, FileStatus
  <2>4. /\ status' \in [Devices -> ReceiveStatus]
        /\ accepted' \in [Transfers -> SUBSET Files]
    BY <2>1 DEF TypeOK, ReceiveStatus
  <2> QED
    BY <1>1, <2>o, <2>1, <2>2, <2>4, ExchangeType DEF Accept, Grant, TypeOK
<1>2. CASE Dismiss(d)
  <2>1. /\ owner[d] \in Transfers
        /\ \E c \in Codes : Answers(owner[d], c)
    BY <1>2 DEF Dismiss, TypeOK, Codes
  <2> QED
    BY <1>2, <2>1, ExchangeType, CloseReceiveType DEF Dismiss, TypeOK
<1>3. CASE DelayedClose(d)
  BY <1>3, CloseReceiveType DEF DelayedClose, TypeOK
<1>4. CASE CancelReceive(d)
  <2>1. cancels' \subseteq [to : Devices, id : Transfers]
    <3>1. owner[d] \in Transfers /\ cancels \subseteq [to : Devices, id : Transfers]
      BY <1>4 DEF CancelReceive, TypeOK
    <3>2. cancels' = cancels \cup {[to |-> From[owner[d]], id |-> owner[d]]}
      BY <1>4 DEF CancelReceive, Cancel
    <3> QED
      BY <3>1, <3>2, Ends
  <2> QED
    BY <1>4, <2>1, CloseReceiveType DEF CancelReceive, TypeOK
<1>5. CASE LeaveReceive(d)
  BY <1>5, CloseReceiveType DEF LeaveReceive, TypeOK
<1>6. CASE ClearAllSessions(d)
  BY <1>6 DEF ClearAllSessions, TypeOK, SessionStatus
<1> QED
  BY <1>1, <1>2, <1>3, <1>4, <1>5, <1>6 DEF ReceiveStep

\* Cancels keep the types.
LEMMA TypeCancel ==
    ASSUME TypeOK, NEW m \in cancels, CancelArrives(m) \/ CancelLost(m)
    PROVE  TypeOK'
<1> USE DEF senderVars, receiverVars, diskVars, exchange
<1>m. m.to \in Devices /\ m.id \in Transfers
  BY DEF TypeOK
<1>1. CASE CancelArrives(m)
  <2>1. status' \in [Devices -> ReceiveStatus]
    BY <1>1, <1>m DEF CancelArrives, TypeOK, ReceiveStatus
  <2>2. /\ client' \in [Connections -> {"idle", "open", "canceled", "closed"}]
        /\ session' \in [Transfers -> SessionStatus]
    <3>1. \/ UNCHANGED <<client, session>>
          \/ CancelUploads(m.id) /\ session' = [session EXCEPT ![m.id] = "canceledByReceiver"]
      BY <1>1 DEF CancelArrives
    <3>2. CASE UNCHANGED <<client, session>>
      BY <3>2 DEF TypeOK
    <3>3. CASE CancelUploads(m.id) /\ session' = [session EXCEPT ![m.id] = "canceledByReceiver"]
      <4>1. client' \in [Connections -> {"idle", "open", "canceled", "closed"}]
        BY <3>3 DEF CancelUploads, TypeOK
      <4> QED
        BY <3>3, <4>1 DEF TypeOK, SessionStatus
    <3> QED
      BY <3>1, <3>2, <3>3
  <2> QED
    BY <1>1, <2>1, <2>2 DEF CancelArrives, TypeOK
<1>2. CASE CancelLost(m)
  BY <1>2, BoundsAssumption DEF CancelLost, Fault, TypeOK
<1> QED
  BY <1>1, <1>2

\* Every step keeps the types.
LEMMA TypeStep == TypeOK /\ [Next]_vars => TypeOK'
<1> SUFFICES ASSUME TypeOK, [Next]_vars PROVE TypeOK'
  OBVIOUS
<1>1. CASE UNCHANGED vars
  BY <1>1 DEF vars, senderVars, receiverVars, diskVars, exchange, TypeOK
<1> QED
  BY <1>1, TypeSend, TypeUpload, TypeReceive, TypeCancel DEF Next

\* The variables of LanTransfer hold what their declarations say.
THEOREM TypeCorrect == Spec => []TypeOK
<1> QED
  BY TypeInit, TypeStep, PTL DEF Spec

-----------------------------------------------------------------------------
(* The sender's side of the invariant: one upload of a file at a time.     *)

\* UploadInv only needs that no upload appears, that what the sender knows of
\* its files is unchanged, and that an exchange that is done stays done.
LEMMA UploadKept ==
    ASSUME TypeOK, UploadInv, UNCHANGED <<sent, queue>>,
           \A c \in Connections : InFlight(c)' => InFlight(c),
           \A t \in Transfers : prepare'[t] # "done" => prepare[t] # "done"
    PROVE  UploadInv'
BY ConnectionParts DEF UploadInv

\* The end of an upload.
LEMMA UploadEnds ==
    ASSUME TypeOK, UploadInv, UNCHANGED prepare,
           NEW c \in Connections, InFlight(c),
           NEW result \in {"finished", "failed"}, EndUpload(c, result)
    PROVE  UploadInv'
<1> DEFINE t == c[1]
           files == [sent[t] EXCEPT ![c[2]] = result]
<1>t. /\ sent \in [Transfers -> [Files -> FileStatus]]
      /\ queue \in [Transfers -> SUBSET Files]
      /\ client \in [Connections -> {"idle", "open", "canceled", "closed"}]
  BY DEF TypeOK
<1>c. t \in Transfers /\ c[2] \in Files /\ prepare[t] = "done" /\ sent[t][c[2]] = "sending"
  BY ConnectionParts DEF UploadInv
<1>q. c[2] \notin queue[t]
  BY <1>c DEF UploadInv
<1>u. \A d \in Connections : InFlight(d) /\ d[1] = t /\ d[2] = c[2] => d = c
  BY DEF UploadInv
<1>1. CASE \E f \in queue[t] :
              /\ queue' = [queue EXCEPT ![t] = @ \ {f}]
              /\ sent' = [sent EXCEPT ![t] = [files EXCEPT ![f] = "sending"]]
              /\ client' = [client EXCEPT ![c] = "closed", ![<<t, f, 1>>] = "open"]
              /\ session' = session
  <2> HIDE DEF t, files
  <2>1. PICK f \in queue[t] :
              /\ queue' = [queue EXCEPT ![t] = @ \ {f}]
              /\ sent' = [sent EXCEPT ![t] = [files EXCEPT ![f] = "sending"]]
              /\ client' = [client EXCEPT ![c] = "closed", ![<<t, f, 1>>] = "open"]
              /\ session' = session
    BY <1>1
  <2> DEFINE new == <<t, f, 1>>
  <2>2. /\ f \in Files /\ sent[t][f] = "queue" /\ f # c[2]
        /\ new \in Connections /\ new[1] = t /\ new[2] = f
    BY <1>t, <1>c, <1>q, <2>1, ConnectionParts, Ends DEF UploadInv
  <2>3. \A d \in Connections : ~(InFlight(d) /\ d[1] = t /\ d[2] = f)
    BY <2>2 DEF UploadInv
  <2>4. /\ \A g \in Files : sent'[t][g] =
              IF g = f THEN "sending" ELSE IF g = c[2] THEN result ELSE sent[t][g]
        /\ \A u \in Transfers : u # t => sent'[u] = sent[u] /\ queue'[u] = queue[u]
        /\ queue'[t] = queue[t] \ {f}
    BY <1>t, <1>c, <2>1, <2>2 DEF files, t
  <2>5. \A d \in Connections : InFlight(d)' <=> (d = new \/ (d # c /\ InFlight(d)))
    BY <1>t, <1>q, <2>1, <2>2 DEF InFlight, t
  <2> HIDE DEF new
  <2>6. \A d \in Connections : InFlight(d)' =>
            /\ sent'[d[1]][d[2]] = "sending"
            /\ \A e \in Connections :
                  InFlight(e)' /\ e[1] = d[1] /\ e[2] = d[2] => e = d
    BY <1>c, <1>u, <2>2, <2>3, <2>4, <2>5, ConnectionParts DEF UploadInv, t
  <2>7. \A u \in Transfers : \A g \in queue'[u] : sent'[u][g] = "queue"
    BY <1>t, <1>c, <1>q, <2>2, <2>4 DEF UploadInv
  <2>8. \A u \in Transfers : prepare'[u] # "done" =>
            /\ \A d \in Connections : d[1] = u => ~InFlight(d)'
            /\ \A g \in Files : sent'[u][g] = "queue"
    BY <1>c, <2>2, <2>4, <2>5 DEF UploadInv, t
  <2> QED
    BY <2>6, <2>7, <2>8 DEF UploadInv
<1>2. CASE /\ queue' = IF c[3] = 1 THEN [queue EXCEPT ![t] = {}] ELSE queue
           /\ sent' = IF session[t] = "closed" THEN sent ELSE [sent EXCEPT ![t] = files]
           /\ client' = [client EXCEPT ![c] = "closed"]
  <2>1. \A d \in Connections : InFlight(d)' <=> (d # c /\ InFlight(d))
    BY <1>t, <1>2 DEF InFlight
  <2>2. /\ \A g \in Files : sent'[t][g] = sent[t][g] \/ g = c[2]
        /\ \A u \in Transfers : u # t => sent'[u] = sent[u]
        /\ \A u \in Transfers : queue'[u] \subseteq queue[u]
    BY <1>t, <1>c, <1>2
  <2>3. \A d \in Connections : InFlight(d)' =>
            /\ sent'[d[1]][d[2]] = "sending"
            /\ \A e \in Connections :
                  InFlight(e)' /\ e[1] = d[1] /\ e[2] = d[2] => e = d
    BY <1>c, <1>u, <2>1, <2>2, ConnectionParts DEF UploadInv
  <2>4. \A u \in Transfers : \A g \in queue'[u] : sent'[u][g] = "queue"
    BY <1>t, <1>c, <1>q, <2>2 DEF UploadInv
  <2>5. \A u \in Transfers : prepare'[u] # "done" =>
            /\ \A d \in Connections : d[1] = u => ~InFlight(d)'
            /\ \A g \in Files : sent'[u][g] = "queue"
    BY <1>c, <2>1, <2>2 DEF UploadInv
  <2> QED
    BY <2>3, <2>4, <2>5 DEF UploadInv
<1> QED
  BY <1>1, <1>2 DEF EndUpload

\* The send loop begins.
LEMMA UploadsBegin ==
    ASSUME TypeOK, UploadInv, NEW t \in Transfers, PrepareAccepted(t)
    PROVE  UploadInv'
<1>t. /\ sent \in [Transfers -> [Files -> FileStatus]]
      /\ queue \in [Transfers -> SUBSET Files]
      /\ client \in [Connections -> {"idle", "open", "canceled", "closed"}]
      /\ prepare \in [Transfers -> PrepareStatus]
      /\ granted \in [Transfers -> SUBSET Files]
  BY DEF TypeOK
<1>1. /\ prepare' = [prepare EXCEPT ![t] = "done"] /\ prepare[t] = "reply"
  BY DEF PrepareAccepted, Moves
<1>2. \A c \in Connections : c[1] = t => ~InFlight(c)
  BY <1>1 DEF UploadInv
<1>3. CASE UNCHANGED <<senderVars, client>>
  BY <1>t, <1>1, <1>3, UploadKept DEF senderVars, InFlight
<1>4. CASE \E batch \in SUBSET granted[t] :
              /\ queue' = [queue EXCEPT ![t] = granted[t] \ batch]
              /\ sent' = [sent EXCEPT ![t] = [f \in Files |->
                     CASE f \in batch -> "sending"
                       [] f \in granted[t] \ batch -> "queue"
                       [] OTHER -> "skipped"]]
              /\ client' = [c \in Connections |->
                     IF c[1] = t /\ c[2] \in batch /\ c[3] = 1 THEN "open"
                     ELSE client[c]]
  <2>1. PICK batch \in SUBSET granted[t] :
              /\ queue' = [queue EXCEPT ![t] = granted[t] \ batch]
              /\ sent' = [sent EXCEPT ![t] = [f \in Files |->
                     CASE f \in batch -> "sending"
                       [] f \in granted[t] \ batch -> "queue"
                       [] OTHER -> "skipped"]]
              /\ client' = [c \in Connections |->
                     IF c[1] = t /\ c[2] \in batch /\ c[3] = 1 THEN "open"
                     ELSE client[c]]
    BY <1>4
  <2>2. /\ \A f \in batch : sent'[t][f] = "sending"
        /\ \A f \in granted[t] \ batch : sent'[t][f] = "queue"
        /\ \A u \in Transfers : u # t => sent'[u] = sent[u] /\ queue'[u] = queue[u]
        /\ queue'[t] = granted[t] \ batch
    BY <1>t, <2>1
  <2>3. \A c \in Connections : InFlight(c)' <=>
           IF c[1] = t THEN c[2] \in batch /\ c[3] = 1 ELSE InFlight(c)
    BY <1>2, <2>1 DEF InFlight
  <2>4. \A d \in Connections : InFlight(d)' =>
            /\ sent'[d[1]][d[2]] = "sending"
            /\ \A e \in Connections :
                  InFlight(e)' /\ e[1] = d[1] /\ e[2] = d[2] => e = d
    BY <2>2, <2>3, ConnectionParts DEF UploadInv
  <2>5. \A u \in Transfers : \A g \in queue'[u] : sent'[u][g] = "queue"
    BY <2>2 DEF UploadInv
  <2>6. \A u \in Transfers : prepare'[u] # "done" =>
            /\ \A d \in Connections : d[1] = u => ~InFlight(d)'
            /\ \A g \in Files : sent'[u][g] = "queue"
    BY <1>t, <1>1, <2>2, <2>3 DEF UploadInv
  <2> QED
    BY <2>4, <2>5, <2>6 DEF UploadInv
<1> QED
  BY <1>3, <1>4, SMTT(60) DEF PrepareAccepted

\* A failed file is started over.
LEMMA UploadRetried ==
    ASSUME TypeOK, UploadInv, NEW t \in Transfers, NEW f \in Files, Retry(t, f)
    PROVE  UploadInv'
<1>t. /\ sent \in [Transfers -> [Files -> FileStatus]]
      /\ queue \in [Transfers -> SUBSET Files]
      /\ client \in [Connections -> {"idle", "open", "canceled", "closed"}]
  BY DEF TypeOK
<1>1. PICK n \in 2..MaxAttempts :
         client[<<t, f, n>>] = "idle" /\ client' = [client EXCEPT ![<<t, f, n>>] = "open"]
  BY DEF Retry
<1> DEFINE new == <<t, f, n>>
<1>2. new \in Connections /\ new[1] = t /\ new[2] = f
  BY ConnectionParts, BoundsAssumption
<1>3. /\ sent[t][f] = "failed" /\ sent' = [sent EXCEPT ![t][f] = "sending"]
      /\ queue' = queue /\ prepare' = prepare
  BY DEF Retry, exchange
<1>4. \A d \in Connections : InFlight(d)' <=> (d = new \/ InFlight(d))
  BY <1>t, <1>1, <1>2 DEF InFlight
<1>5. \A d \in Connections : ~(InFlight(d) /\ d[1] = t /\ d[2] = f)
  BY <1>3 DEF UploadInv
<1>6. /\ \A g \in Files : sent'[t][g] = IF g = f THEN "sending" ELSE sent[t][g]
      /\ \A u \in Transfers : u # t => sent'[u] = sent[u]
  BY <1>t, <1>3
<1> HIDE DEF new
<1>7. \A d \in Connections : InFlight(d)' =>
          /\ sent'[d[1]][d[2]] = "sending"
          /\ \A e \in Connections :
                InFlight(e)' /\ e[1] = d[1] /\ e[2] = d[2] => e = d
  BY <1>2, <1>4, <1>5, <1>6, ConnectionParts DEF UploadInv
<1>8. \A u \in Transfers : \A g \in queue'[u] : sent'[u][g] = "queue"
  BY <1>t, <1>3, <1>6 DEF UploadInv
<1>9. \A u \in Transfers : prepare'[u] # "done" =>
          /\ \A d \in Connections : d[1] = u => ~InFlight(d)'
          /\ \A g \in Files : sent'[u][g] = "queue"
  BY <1>2, <1>3, <1>4, <1>6 DEF UploadInv
<1> QED
  BY <1>7, <1>8, <1>9 DEF UploadInv

\* Every step keeps UploadInv.
LEMMA UploadInvStep ==
    ASSUME TypeOK, PrepareInv, OwnerInv, UploadInv, [Next]_vars
    PROVE  UploadInv'
<1> USE DEF senderVars, exchange
<1>p. prepare \in [Transfers -> PrepareStatus]
  BY DEF TypeOK
<1>k. ASSUME UNCHANGED <<sent, queue, client>>, NEW t \in Transfers, NEW at \in PrepareStatus,
             prepare[t] # "done", prepare' = [prepare EXCEPT ![t] = at]
      PROVE  UploadInv'
  BY <1>p, <1>k, UploadKept DEF InFlight
<1>s. ASSUME UNCHANGED <<sent, queue, client, prepare>> PROVE UploadInv'
  BY <1>s, UploadKept DEF InFlight
<1>1. ASSUME NEW t \in Transfers,
             SendStep(t) \/ PrepareArrives(t) \/ StoreSession(t)
      PROVE  UploadInv'
  <2>a. \A at \in {"request", "reply", "checked", "asked", "pin", "done"} : at \in PrepareStatus
    BY DEF PrepareStatus
  <2>1. CASE StartSession(t)
    <3>1. prepare[t] = "idle"
      BY <2>1 DEF StartSession, PrepareInv
    <3> QED
      BY <2>1, <2>a, <3>1, <1>k DEF StartSession, Moves
  <2>2. CASE PrepareRefused(t)
    <3>1. \E at \in {"pin", "done"} : prepare' = [prepare EXCEPT ![t] = at]
      BY <2>2 DEF PrepareRefused, Moves
    <3>2. UNCHANGED <<sent, queue, client>> /\ prepare[t] # "done"
      BY <2>2 DEF PrepareRefused
    <3> QED
      BY <2>a, <3>1, <3>2, <1>k
  <2>3. CASE PrepareAccepted(t)
    BY <2>3, UploadsBegin
  <2>4. CASE EnterPin(t)
    BY <2>4, <2>a, <1>k DEF EnterPin
  <2>5. CASE DismissPinDialog(t)
    BY <2>5, <2>a, <1>k DEF DismissPinDialog, Moves
  <2>6. CASE PrepareFails(t)
    BY <2>6, <1>s DEF PrepareFails
  <2>7. CASE CancelSend(t)
    BY <2>7, UploadKept DEF CancelSend, CancelUploads, InFlight
  <2>8. CASE CancelWaiting(t)
    BY <2>8, <1>s DEF CancelWaiting
  <2>9. CASE CloseSend(t)
    BY <2>9, <1>s DEF CloseSend
  <2>10. ASSUME NEW f \in Files, Retry(t, f) PROVE UploadInv'
    BY <2>10, UploadRetried
  <2>11. CASE PrepareArrives(t)
    BY <2>11, <2>a, <1>k DEF PrepareArrives, Moves, Answers
  <2>12. CASE StoreSession(t)
    BY <2>12, <2>a, <1>k DEF StoreSession, Moves, Grants
  <2> QED
    BY <1>1, <2>1, <2>2, <2>3, <2>4, <2>5, <2>6, <2>7, <2>8, <2>9, <2>10, <2>11, <2>12
    DEF SendStep
<1>2. ASSUME NEW c \in Connections, UploadStep(c)
      PROVE  UploadInv'
  <2>1. CASE UploadAnswered(c)
    BY <2>1, UploadEnds DEF UploadAnswered
  <2>2. CASE UploadLost(c)
    BY <2>2, UploadEnds DEF UploadLost, InFlight
  <2>3. CASE UploadAborted(c)
    BY <2>3, UploadEnds DEF UploadAborted, InFlight
  <2>4. CASE UploadArrives(c) \/ SaveOk(c) \/ SaveFails(c) \/ HistoryDone(c)
    BY <2>4, <1>s DEF UploadArrives, SaveOk, SaveFails, HistoryDone
  <2> QED
    BY <1>2, <2>1, <2>2, <2>3, <2>4 DEF UploadStep
<1>3. ASSUME NEW d \in Devices, ReceiveStep(d)
      PROVE  UploadInv'
  <2>a. "reply" \in PrepareStatus
    BY DEF PrepareStatus
  <2>1. ASSUME NEW selection \in SUBSET Files, Accept(d, selection) PROVE UploadInv'
    <3>1. owner[d] \in Transfers /\ prepare[owner[d]] = "asked"
      BY <2>1 DEF Accept, Grant, OwnerInv, TypeOK
    <3> QED
      BY <2>1, <2>a, <3>1, <1>k DEF Accept, Grant, Grants
  <2>2. CASE Dismiss(d)
    <3>1. owner[d] \in Transfers /\ prepare[owner[d]] = "asked"
      BY <2>2 DEF Dismiss, OwnerInv, TypeOK
    <3> QED
      BY <2>2, <2>a, <3>1, <1>k DEF Dismiss, Answers
  <2>3. CASE DelayedClose(d) \/ CancelReceive(d) \/ LeaveReceive(d) \/ ClearAllSessions(d)
    BY <2>3, <1>s DEF DelayedClose, CancelReceive, LeaveReceive, ClearAllSessions
  <2> QED
    BY <1>3, <2>1, <2>2, <2>3 DEF ReceiveStep
<1>4. ASSUME NEW m \in cancels, CancelArrives(m) \/ CancelLost(m)
      PROVE  UploadInv'
  BY <1>4, UploadKept DEF CancelArrives, CancelLost, CancelUploads, InFlight
<1>5. CASE UNCHANGED vars
  BY <1>5, <1>s DEF vars
<1> QED
  BY <1>1, <1>2, <1>3, <1>4, <1>5 DEF Next

-----------------------------------------------------------------------------
(* The receiver's side of the invariant.                                   *)

ReceiverInv == OwnerInv /\ PrepareInv /\ TokenInv /\ DiskInv /\ FinishedMeansSaved

\* What an exchange may do without touching the receive sessions: a question
\* stays asked, an acceptance stays answered, and what has not begun is idle.
ExchangeKept ==
    \A t \in Transfers :
        /\ prepare[t] = "asked" => prepare'[t] = "asked"
        /\ prepare[t] \in {"reply", "done"} /\ code[t] = 200 =>
              prepare'[t] \in {"reply", "done"} /\ code'[t] = 200
        /\ session'[t] = "none" => prepare'[t] = "idle"

\* A step that leaves the receive sessions, the disk and the handlers alone
\* keeps the invariant.
LEMMA ReceiverKept ==
    ASSUME TypeOK, ReceiverInv, ExchangeKept,
           UNCHANGED <<owner, status, got, server, accepted, saved>>
    PROVE  ReceiverInv'
<1>1. \A d \in Devices : owner[d] # Nobody => owner[d] \in Transfers
  BY DEF TypeOK
<1>2. OwnerInv'
  BY <1>1 DEF ReceiverInv, OwnerInv, ExchangeKept
<1>3. PrepareInv'
  BY DEF ReceiverInv, PrepareInv, ExchangeKept
<1>4. TokenInv' /\ FinishedMeansSaved'
  BY DEF ReceiverInv, TokenInv, FinishedMeansSaved
<1>5. DiskInv'
  BY DEF ReceiverInv, DiskInv
<1> QED
  BY <1>2, <1>3, <1>4, <1>5 DEF ReceiverInv

\* Closing a receive session, whose exchange may be answered by the way.
LEMMA ReceiverCloses ==
    ASSUME TypeOK, ReceiverInv, NEW d \in Devices, CloseReceive(d),
           UNCHANGED <<server, accepted, saved, session>>,
           \/ UNCHANGED <<prepare, code>>
           \/ /\ owner[d] \in Transfers /\ status[d] = "waiting"
              /\ \E c \in Codes : Answers(owner[d], c)
    PROVE  ReceiverInv'
<1>t. /\ owner \in [Devices -> Transfers \cup {Nobody}]
      /\ status \in [Devices -> ReceiveStatus]
      /\ got \in [Transfers -> [Files -> FileStatus]]
      /\ prepare \in [Transfers -> PrepareStatus]
      /\ code \in [Transfers -> Codes]
      /\ accepted \in [Transfers -> SUBSET Files]
  BY DEF TypeOK
<1>1. /\ owner' = [owner EXCEPT ![d] = Nobody]
      /\ status' = [status EXCEPT ![d] = "none"]
      /\ got' = [t \in Transfers |-> IF owner[d] = t THEN NotSent ELSE got[t]]
  BY DEF CloseReceive
<1>2. \A e \in Devices : e # d /\ owner[e] # Nobody =>
         /\ owner[e] \in Transfers /\ owner[e] # owner[d]
         /\ owner'[e] = owner[e] /\ status'[e] = status[e]
         /\ got'[owner[e]] = got[owner[e]]
  BY <1>t, <1>1 DEF ReceiverInv, OwnerInv
<1>3. \A t \in Transfers : t # owner[d] => prepare'[t] = prepare[t] /\ code'[t] = code[t]
  BY <1>t DEF Answers
<1>4. \A t \in Transfers : prepare'[t] # prepare[t] \/ code'[t] # code[t] =>
         accepted[t] = {} /\ prepare[t] = "asked"
  BY <1>t, <1>3 DEF ReceiverInv, OwnerInv, PrepareInv
<1>5. OwnerInv'
  <2>1. ASSUME NEW e \in Devices
        PROVE  /\ owner'[e] = Nobody <=> status'[e] = "none"
               /\ owner'[e] # Nobody => To[owner'[e]] = e
               /\ status'[e] = "waiting" => prepare'[owner'[e]] = "asked"
    <3>1. CASE e = d
      BY <3>1, <1>t, <1>1
    <3>2. CASE e # d /\ owner[e] = Nobody
      BY <3>2, <1>t, <1>1 DEF ReceiverInv, OwnerInv
    <3>3. CASE e # d /\ owner[e] # Nobody
      BY <3>3, <1>2, <1>3 DEF ReceiverInv, OwnerInv
    <3> QED
      BY <3>1, <3>2, <3>3
  <2> QED
    BY <2>1 DEF OwnerInv
<1>6. PrepareInv'
  <2>1. ASSUME NEW t \in Transfers
        PROVE  /\ session'[t] = "none" => prepare'[t] = "idle"
               /\ accepted'[t] # {} => prepare'[t] \in {"reply", "done"} /\ code'[t] = 200
    BY <1>4 DEF ReceiverInv, PrepareInv
  <2> QED
    BY <2>1 DEF PrepareInv
<1>7. TokenInv' /\ FinishedMeansSaved'
  <2>1. ASSUME NEW e \in Devices, status'[e] \in {"sending", "finished", "finishedWithErrors"}
        PROVE  /\ e # d /\ owner[e] # Nobody
               /\ owner'[e] = owner[e] /\ status'[e] = status[e]
               /\ got'[owner'[e]] = got[owner[e]]
    <3>1. e # d
      BY <2>1, <1>t, <1>1
    <3>2. status[e] = status'[e]
      BY <3>1, <1>t, <1>1
    <3>3. owner[e] # Nobody
      BY <3>2, <2>1 DEF ReceiverInv, OwnerInv
    <3> QED
      BY <3>1, <3>2, <3>3, <1>2
  <2>2. TokenInv'
    BY <2>1 DEF TokenInv, ReceiverInv
  <2>3. FinishedMeansSaved'
    BY <2>1 DEF FinishedMeansSaved, ReceiverInv
  <2> QED
    BY <2>2, <2>3
<1>8. DiskInv'
  <2>1. \A t \in Transfers : \A f \in Files :
           got'[t][f] = "finished" => got[t][f] = "finished"
    BY <1>1 DEF NotSent
  <2> QED
    BY <2>1 DEF DiskInv, ReceiverInv
<1> QED
  BY <1>5, <1>6, <1>7, <1>8 DEF ReceiverInv

\* A receive session is stored over whatever is there.
LEMMA ReceiverStores ==
    ASSUME TypeOK, ReceiverInv, NEW t \in Transfers, StoreSession(t)
    PROVE  ReceiverInv'
<1> DEFINE d == To[t]
<1>t. /\ owner \in [Devices -> Transfers \cup {Nobody}]
      /\ status \in [Devices -> ReceiveStatus]
      /\ got \in [Transfers -> [Files -> FileStatus]]
      /\ prepare \in [Transfers -> PrepareStatus]
      /\ code \in [Transfers -> Codes]
      /\ accepted \in [Transfers -> SUBSET Files]
  BY DEF TypeOK
<1>1. /\ prepare[t] = "checked" /\ accepted[t] = {}
      /\ owner' = [owner EXCEPT ![d] = t]
      /\ got' = [u \in Transfers |->
                   IF u \in {t, owner[d]} THEN NotSent ELSE got[u]]
      /\ server' = server /\ saved' = saved /\ session' = session
  BY DEF StoreSession, ReceiverInv, PrepareInv, senderVars
<1>2. \/ /\ status' = [status EXCEPT ![d] = "sending"]
         /\ accepted' = [accepted EXCEPT ![t] = Files]
         /\ prepare' = [prepare EXCEPT ![t] = "reply"]
         /\ code' = [code EXCEPT ![t] = 200]
      \/ /\ status' = [status EXCEPT ![d] = "waiting"]
         /\ accepted' = accepted
         /\ prepare' = [prepare EXCEPT ![t] = "asked"]
         /\ code' = code
  BY DEF StoreSession, Grants, Moves
<1>3. d \in Devices /\ owner'[d] = t /\ got'[t] = NotSent
  BY <1>t, <1>1, Ends
<1>4. \A e \in Devices : e # d =>
         /\ owner'[e] = owner[e] /\ status'[e] = status[e]
         /\ owner[e] # Nobody =>
              /\ owner[e] \in Transfers /\ owner[e] # t /\ got'[owner[e]] = got[owner[e]]
              /\ accepted'[owner[e]] = accepted[owner[e]]
              /\ prepare'[owner[e]] = prepare[owner[e]]
  BY <1>t, <1>1, <1>2, <1>3 DEF ReceiverInv, OwnerInv
<1>5. OwnerInv'
  <2>1. /\ owner'[d] # Nobody /\ status'[d] # "none" /\ To[owner'[d]] = d
        /\ status'[d] = "waiting" => prepare'[owner'[d]] = "asked"
    BY <1>t, <1>1, <1>2, <1>3, TransfersAssumption
  <2>2. \A e \in Devices : e # d =>
           /\ owner'[e] = Nobody <=> status'[e] = "none"
           /\ owner'[e] # Nobody => To[owner'[e]] = e
           /\ status'[e] = "waiting" => prepare'[owner'[e]] = "asked"
    BY <1>4 DEF ReceiverInv, OwnerInv
  <2> HIDE DEF d
  <2> QED
    BY <2>1, <2>2 DEF OwnerInv
<1>6. PrepareInv'
  <2>1. ASSUME NEW u \in Transfers
        PROVE  /\ session'[u] = "none" => prepare'[u] = "idle"
               /\ accepted'[u] # {} => prepare'[u] \in {"reply", "done"} /\ code'[u] = 200
    <3>1. CASE u = t
      BY <3>1, <1>t, <1>1, <1>2 DEF ReceiverInv, PrepareInv
    <3>2. CASE u # t
      BY <3>2, <1>t, <1>1, <1>2 DEF ReceiverInv, PrepareInv
    <3> QED
      BY <3>1, <3>2
  <2> QED
    BY <2>1 DEF PrepareInv
<1>7. TokenInv'
  <2>1. status'[d] = "sending" =>
           accepted'[t] = Files /\ {f \in Files : got'[t][f] # "skipped"} = Files
    BY <1>t, <1>2, <1>3 DEF NotSent
  <2>2. status'[d] \in {"sending", "waiting"}
    BY <1>t, <1>2, <1>3
  <2>3. \A e \in Devices : e # d /\ status[e] \in {"sending", "finished", "finishedWithErrors"} =>
           owner[e] # Nobody
    BY DEF ReceiverInv, OwnerInv
  <2>4. ASSUME NEW e \in Devices, status'[e] \in {"sending", "finished", "finishedWithErrors"}
        PROVE  accepted'[owner'[e]] = {f \in Files : got'[owner'[e]][f] # "skipped"}
    <3>1. CASE e = d
      BY <3>1, <2>1, <2>2, <2>4, <1>3
    <3>2. CASE e # d
      BY <3>2, <2>3, <2>4, <1>4 DEF ReceiverInv, TokenInv
    <3> QED
      BY <3>1, <3>2
  <2> QED
    BY <2>4 DEF TokenInv
<1>8. DiskInv'
  <2>1. \A u \in Transfers : accepted[u] \subseteq accepted'[u]
    BY <1>t, <1>1, <1>2
  <2>2. \A u \in Transfers : \A f \in Files :
           got'[u][f] = "finished" => got[u][f] = "finished"
    BY <1>1 DEF NotSent
  <2> QED
    BY <1>1, <2>1, <2>2, ConnectionParts DEF DiskInv, ReceiverInv
<1>9. FinishedMeansSaved'
  <2>1. status'[d] # "finished"
    BY <1>t, <1>2, <1>3
  <2>2. \A e \in Devices : status[e] = "finished" => owner[e] # Nobody
    BY DEF ReceiverInv, OwnerInv
  <2> QED
    BY <1>1, <1>4, <2>1, <2>2 DEF FinishedMeansSaved, ReceiverInv
<1> QED
  BY <1>5, <1>6, <1>7, <1>8, <1>9 DEF ReceiverInv

\* The user accepts files.
LEMMA ReceiverGrants ==
    ASSUME TypeOK, ReceiverInv, NEW d \in Devices, NEW selection \in SUBSET Files,
           Grant(d, selection, selection)
    PROVE  ReceiverInv'
<1> DEFINE t == owner[d]
<1>t. /\ owner \in [Devices -> Transfers \cup {Nobody}]
      /\ status \in [Devices -> ReceiveStatus]
      /\ got \in [Transfers -> [Files -> FileStatus]]
      /\ prepare \in [Transfers -> PrepareStatus]
      /\ code \in [Transfers -> Codes]
      /\ accepted \in [Transfers -> SUBSET Files]
  BY DEF TypeOK
<1>1. /\ t \in Transfers /\ status[d] = "waiting"
      /\ status' = [status EXCEPT ![d] = "sending"]
      /\ got' = [got EXCEPT ![t] =
            [f \in Files |-> IF f \in selection THEN "queue" ELSE "skipped"]]
      /\ accepted' = [accepted EXCEPT ![t] = selection]
      /\ prepare' = [prepare EXCEPT ![t] = "reply"]
      /\ code' = [code EXCEPT ![t] = 200]
      /\ owner' = owner /\ server' = server /\ saved' = saved /\ session' = session
  BY <1>t DEF Grant, Grants, senderVars
<1>2. prepare[t] = "asked" /\ accepted[t] = {}
  BY <1>1 DEF ReceiverInv, OwnerInv, PrepareInv
<1>3. \A e \in Devices : e # d =>
         /\ status'[e] = status[e]
         /\ owner[e] # Nobody =>
              /\ owner[e] \in Transfers /\ owner[e] # t /\ got'[owner[e]] = got[owner[e]]
              /\ accepted'[owner[e]] = accepted[owner[e]]
              /\ prepare'[owner[e]] = prepare[owner[e]]
  BY <1>t, <1>1 DEF ReceiverInv, OwnerInv
<1>4. OwnerInv'
  <2>1. status'[d] = "sending" /\ owner'[d] # Nobody /\ To[owner'[d]] = d
    BY <1>t, <1>1 DEF ReceiverInv, OwnerInv
  <2>2. \A e \in Devices : e # d =>
           /\ owner'[e] = Nobody <=> status'[e] = "none"
           /\ owner'[e] # Nobody => To[owner'[e]] = e
           /\ status'[e] = "waiting" => prepare'[owner'[e]] = "asked"
    BY <1>1, <1>3 DEF ReceiverInv, OwnerInv
  <2> QED
    BY <2>1, <2>2 DEF OwnerInv
<1>5. PrepareInv'
  <2>1. ASSUME NEW u \in Transfers
        PROVE  /\ session'[u] = "none" => prepare'[u] = "idle"
               /\ accepted'[u] # {} => prepare'[u] \in {"reply", "done"} /\ code'[u] = 200
    <3>1. CASE u = t
      BY <3>1, <1>t, <1>1, <1>2 DEF ReceiverInv, PrepareInv
    <3>2. CASE u # t
      BY <3>2, <1>t, <1>1 DEF ReceiverInv, PrepareInv
    <3> QED
      BY <3>1, <3>2
  <2> QED
    BY <2>1 DEF PrepareInv
<1>6. TokenInv' /\ FinishedMeansSaved'
  <2>1. accepted'[t] = {f \in Files : got'[t][f] # "skipped"} /\ status'[d] = "sending"
    BY <1>t, <1>1
  <2>2. \A e \in Devices : status[e] \in {"sending", "finished", "finishedWithErrors"} =>
           owner[e] # Nobody
    BY DEF ReceiverInv, OwnerInv
  <2>3. ASSUME NEW e \in Devices
        PROVE  /\ status'[e] \in {"sending", "finished", "finishedWithErrors"} =>
                     accepted'[owner'[e]] = {f \in Files : got'[owner'[e]][f] # "skipped"}
               /\ status'[e] = "finished" => accepted'[owner'[e]] \subseteq saved'[owner'[e]]
    <3>1. CASE e = d
      BY <3>1, <2>1, <1>1
    <3>2. CASE e # d
      BY <3>2, <2>2, <1>1, <1>3 DEF ReceiverInv, TokenInv, FinishedMeansSaved
    <3> QED
      BY <3>1, <3>2
  <2> QED
    BY <2>3 DEF TokenInv, FinishedMeansSaved
<1>7. DiskInv'
  <2>1. \A u \in Transfers : accepted[u] \subseteq accepted'[u]
    BY <1>t, <1>1, <1>2
  <2>2. \A u \in Transfers : \A f \in Files :
           got'[u][f] = "finished" => got[u][f] = "finished"
    BY <1>t, <1>1
  <2> QED
    BY <1>1, <2>1, <2>2, ConnectionParts DEF DiskInv, ReceiverInv
<1> QED
  BY <1>4, <1>5, <1>6, <1>7 DEF ReceiverInv

\* A cancel of the sender changes the status of a session that is waiting or
\* sending, and no more.
LEMMA ReceiverCanceled ==
    ASSUME TypeOK, ReceiverInv, NEW d \in Devices, status[d] \in {"waiting", "sending"},
           status' = [status EXCEPT ![d] = "canceledBySender"], ExchangeKept,
           UNCHANGED <<owner, got, server, accepted, saved>>
    PROVE  ReceiverInv'
<1>t. /\ owner \in [Devices -> Transfers \cup {Nobody}]
      /\ status \in [Devices -> ReceiveStatus]
  BY DEF TypeOK
<1>1. \A e \in Devices : status'[e] = IF e = d THEN "canceledBySender" ELSE status[e]
  BY <1>t
<1>2. OwnerInv'
  BY <1>1, <1>t DEF ReceiverInv, OwnerInv, ExchangeKept
<1>3. PrepareInv'
  BY DEF ReceiverInv, PrepareInv, ExchangeKept
<1>4. TokenInv' /\ FinishedMeansSaved'
  BY <1>1 DEF ReceiverInv, TokenInv, FinishedMeansSaved
<1>5. DiskInv'
  BY DEF ReceiverInv, DiskInv
<1> QED
  BY <1>2, <1>3, <1>4, <1>5 DEF ReceiverInv

\* An upload is let in, written, or fails: one handler moves on, and at most
\* the status of its file changes, in the session of its transfer.
LEMMA HandlerMoves ==
    ASSUME TypeOK, ReceiverInv, ExchangeKept, NEW c \in Connections,
           NEW r \in {"saving", "history", "saved", "refused", "threw"},
           server' = [server EXCEPT ![c] = r],
           NEW s \in {"sending", "finished", "failed"},
           \/ got' = got
           \/ /\ owner[To[c[1]]] = c[1] /\ c[2] \in accepted[c[1]]
              /\ got' = [got EXCEPT ![c[1]][c[2]] = s],
           \A d \in Devices : \/ status'[d] = status[d]
                              \/ status[d] \in Uploadable /\ status'[d] = "sending"
                              \/ /\ status[d] \in Uploadable
                                 /\ \/ status'[d] = "finishedWithErrors"
                                    \/ /\ status'[d] = "finished"
                                       /\ \A f \in Files :
                                             got'[owner[d]][f] \in {"finished", "skipped"},
           UNCHANGED <<owner, accepted>>,
           \A t \in Transfers : saved[t] \subseteq saved'[t],
           r \in {"saving", "history"} => c[2] \in accepted[c[1]],
           r = "saved" => c[2] \in saved'[c[1]],
           got' # got /\ s = "finished" => c[2] \in saved'[c[1]]
    PROVE  ReceiverInv'
<1> DEFINE t == c[1]
           f == c[2]
<1>t. /\ owner \in [Devices -> Transfers \cup {Nobody}]
      /\ status \in [Devices -> ReceiveStatus]
      /\ got \in [Transfers -> [Files -> FileStatus]]
      /\ server \in [Connections ->
            {"idle", "saving", "history", "saved", "refused", "threw"}]
      /\ accepted \in [Transfers -> SUBSET Files]
  BY DEF TypeOK
<1>c. t \in Transfers /\ f \in Files /\ To[t] \in Devices
  BY ConnectionParts, Ends
<1>o. \A d \in Devices : status[d] \in {"sending", "finished", "finishedWithErrors"} =>
         owner[d] \in Transfers
  BY <1>t DEF ReceiverInv, OwnerInv
<1>u. \A d \in Devices : status'[d] # status[d] =>
         /\ status[d] \in {"sending", "finishedWithErrors"}
         /\ status'[d] \in {"sending", "finished", "finishedWithErrors"}
  BY DEF Uploadable
<1>g. \A u \in Transfers : \A g \in Files :
         \/ got'[u][g] = got[u][g]
         \/ u = t /\ g = f /\ got'[u][g] = s /\ g \in accepted[u] /\ got' # got
  BY <1>t, <1>c
<1>1. OwnerInv'
  <2>1. ASSUME NEW d \in Devices
        PROVE  /\ owner'[d] = Nobody <=> status'[d] = "none"
               /\ owner'[d] # Nobody => To[owner'[d]] = d
               /\ status'[d] = "waiting" => prepare'[owner'[d]] = "asked"
    <3>1. /\ owner[d] = Nobody <=> status[d] = "none"
          /\ owner[d] # Nobody => To[owner[d]] = d /\ owner[d] \in Transfers
          /\ status[d] = "waiting" => prepare[owner[d]] = "asked"
      BY <1>t DEF ReceiverInv, OwnerInv
    <3>2. /\ status'[d] = "none" <=> status[d] = "none"
          /\ status'[d] = "waiting" => status[d] = "waiting"
      BY <1>u
    <3>3. owner[d] \in Transfers /\ prepare[owner[d]] = "asked" => prepare'[owner[d]] = "asked"
      BY DEF ExchangeKept
    <3> QED
      BY <3>1, <3>2, <3>3
  <2> QED
    BY <2>1 DEF OwnerInv
<1>2. PrepareInv'
  BY DEF ReceiverInv, PrepareInv, ExchangeKept
<1>3. TokenInv'
  <2>1. ASSUME NEW d \in Devices,
               status'[d] \in {"sending", "finished", "finishedWithErrors"}
        PROVE  accepted[owner[d]] = {g \in Files : got'[owner[d]][g] # "skipped"}
    <3>1. status[d] \in {"sending", "finished", "finishedWithErrors"}
      BY <2>1, <1>u
    <3>2. /\ accepted[owner[d]] = {g \in Files : got[owner[d]][g] # "skipped"}
          /\ owner[d] \in Transfers
      BY <3>1, <1>o DEF ReceiverInv, TokenInv
    <3>3. \A g \in Files : got'[owner[d]][g] # "skipped" <=> got[owner[d]][g] # "skipped"
      BY <3>2, <1>g
    <3> QED
      BY <3>2, <3>3
  <2> QED
    BY <2>1 DEF TokenInv
<1>4. DiskInv'
  <2>1. \A d \in Connections :
           /\ server'[d] \in {"saving", "history"} => d[2] \in accepted[d[1]]
           /\ server'[d] = "saved" => d[2] \in saved'[d[1]]
    BY <1>t, ConnectionParts DEF ReceiverInv, DiskInv
  <2>2. \A u \in Transfers : \A g \in Files : got'[u][g] = "finished" => g \in saved'[u]
    BY <1>g DEF ReceiverInv, DiskInv
  <2> QED
    BY <2>1, <2>2 DEF DiskInv
<1>5. FinishedMeansSaved'
  <2>1. ASSUME NEW d \in Devices, status'[d] = "finished"
        PROVE  accepted[owner[d]] \subseteq saved'[owner[d]]
    <3>1. CASE status[d] = "finished"
      BY <3>1, <1>o DEF ReceiverInv, FinishedMeansSaved
    <3>2. CASE status[d] # "finished"
      <4>1. /\ owner[d] \in Transfers
            /\ \A g \in Files : got'[owner[d]][g] \in {"finished", "skipped"}
        BY <3>2, <2>1, <1>u, <1>o
      <4>2. \A g \in accepted[owner[d]] : g \in Files /\ got'[owner[d]][g] # "skipped"
        BY <2>1, <1>3, <1>t, <4>1 DEF TokenInv
      <4> QED
        BY <4>1, <4>2, <1>4 DEF DiskInv
    <3> QED
      BY <3>1, <3>2
  <2> QED
    BY <2>1 DEF FinishedMeansSaved
<1> QED
  BY <1>1, <1>2, <1>3, <1>4, <1>5 DEF ReceiverInv

\* The end of a handler, once its file may have been marked as failed.
LEMMA HandlerConcludes ==
    ASSUME TypeOK, ReceiverInv, ExchangeKept, NEW c \in Connections, NEW files,
           server[c] \in {"saving", "history"}, Conclude(c, files),
           \/ owner[To[c[1]]] = Nobody
           \/ owner[To[c[1]]] # Nobody /\ files = got'[owner[To[c[1]]]],
           \/ got' = got
           \/ owner[To[c[1]]] = c[1] /\ got' = [got EXCEPT ![c[1]][c[2]] = "failed"],
           UNCHANGED <<owner, accepted, saved>>
    PROVE  ReceiverInv'
<1> DEFINE d == To[c[1]]
<1>t. /\ owner \in [Devices -> Transfers \cup {Nobody}]
      /\ status \in [Devices -> ReceiveStatus]
      /\ got \in [Transfers -> [Files -> FileStatus]]
  BY DEF TypeOK
<1>c. c[1] \in Transfers /\ c[2] \in Files /\ d \in Devices
  BY ConnectionParts, Ends
<1>1. c[2] \in accepted[c[1]]
  BY DEF ReceiverInv, DiskInv
<1>2. /\ server' = [server EXCEPT ![c] = Answer(c, files)]
      /\ Answer(c, files) \in {"saved", "refused"}
  BY DEF Conclude, Answer
<1>3. Answer(c, files) = "saved" => c[2] \in saved[c[1]]
  <2>1. ASSUME Answer(c, files) = "saved" PROVE got[c[1]][c[2]] = "finished"
    <3>1. owner[d] = c[1] /\ files[c[2]] = "finished"
      BY <2>1 DEF Answer
    <3>2. got'[c[1]][c[2]] = "finished"
      BY <3>1, <1>c, TransfersAssumption
    <3> QED
      BY <3>2, <1>t, <1>c
  <2> QED
    BY <2>1, <1>c DEF ReceiverInv, DiskInv
<1>4. ASSUME NEW e \in Devices
      PROVE  \/ status'[e] = status[e]
             \/ /\ status[e] \in Uploadable
                /\ \/ status'[e] = "finishedWithErrors"
                   \/ /\ status'[e] = "finished"
                      /\ \A f \in Files : got'[owner[e]][f] \in {"finished", "skipped"}
  <2>1. CASE ~Complete(d, files) \/ e # d
    BY <2>1, <1>t, <1>c DEF Conclude
  <2>2. CASE Complete(d, files) /\ e = d
    <3>1. status[d] \in Uploadable /\ owner[d] # Nobody
      BY <2>2, <1>c DEF Complete, ReceiverInv, OwnerInv, Uploadable
    <3>2. files = got'[owner[d]]
      BY <3>1
    <3>3. status'[d] = IF HasError(files) THEN "finishedWithErrors" ELSE "finished"
      BY <2>2, <1>t, <1>c DEF Conclude
    <3>4. ~HasError(files) => \A f \in Files : files[f] \in {"finished", "skipped"}
      BY <2>2 DEF Complete, AllDone, HasError
    <3> QED
      BY <2>2, <3>1, <3>2, <3>3, <3>4
  <2> QED
    BY <2>1, <2>2
<1> HIDE DEF d
<1> QED
  BY <1>1, <1>2, <1>3, <1>4, HandlerMoves

\* An exchange that leaves the questions and the answers alone, or answers
\* nothing that was asked.
LEMMA ExchangeUnchanged ==
    ASSUME PrepareInv, UNCHANGED <<prepare, code, session>>
    PROVE  ExchangeKept
BY DEF PrepareInv, ExchangeKept

\* One exchange moves on, which is not asked and not accepted.
LEMMA ExchangeMoves ==
    ASSUME TypeOK, PrepareInv, NEW t \in Transfers, NEW at \in PrepareStatus, NEW c \in Codes,
           prepare' = [prepare EXCEPT ![t] = at], prepare[t] # "asked",
           code' = code \/ code' = [code EXCEPT ![t] = c],
           \/ prepare[t] \in {"idle", "request", "checked", "pin"}
           \/ code[t] # 200
           \/ at = "done" /\ code' = code,
           \A u \in Transfers : session'[u] = "none" => session[u] = "none",
           session'[t] # "none"
    PROVE  ExchangeKept
<1>t. prepare \in [Transfers -> PrepareStatus] /\ code \in [Transfers -> Codes]
  BY DEF TypeOK
<1>1. ASSUME NEW u \in Transfers
      PROVE  /\ prepare[u] = "asked" => prepare'[u] = "asked"
             /\ prepare[u] \in {"reply", "done"} /\ code[u] = 200 =>
                   prepare'[u] \in {"reply", "done"} /\ code'[u] = 200
             /\ session'[u] = "none" => prepare'[u] = "idle"
  <2>1. CASE u = t
    BY <2>1, <1>t
  <2>2. CASE u # t
    <3>1. prepare'[u] = prepare[u] /\ code'[u] = code[u]
      BY <2>2, <1>t
    <3> QED
      BY <3>1 DEF PrepareInv
  <2> QED
    BY <2>1, <2>2
<1> QED
  BY <1>1 DEF ExchangeKept

\* Closing or ending a session does not make one that was not started.
LEMMA SessionStarts ==
    ASSUME TypeOK, NEW t \in Transfers, NEW s \in SessionStatus, s # "none",
           session' = [session EXCEPT ![t] = s]
    PROVE  /\ \A u \in Transfers : session'[u] = "none" => session[u] = "none"
           /\ session'[t] # "none"
BY DEF TypeOK

\* The end of an upload does not either.
LEMMA UploadEndsStarted ==
    ASSUME TypeOK, NEW c \in Connections, NEW result \in {"finished", "failed"},
           EndUpload(c, result)
    PROVE  \A u \in Transfers : session'[u] = "none" => session[u] = "none"
<1>t. session \in [Transfers -> SessionStatus]
  BY DEF TypeOK
<1> DEFINE t == c[1]
           files == [sent[t] EXCEPT ![c[2]] = result]
           others == {d \in Connections : d # c /\ d[1] = t /\ d[3] = 1 /\ InFlight(d)}
           ends == IF Finishes(c, others, files) THEN Outcomes(t, files) ELSE {session[t]}
<1>1. \A x \in ends : x = "none" => session[t] = "none"
  BY DEF Outcomes
<1>2. \/ session' = session
      \/ \E x \in ends : session' = [session EXCEPT ![t] = x]
  BY DEF EndUpload
<1> HIDE DEF ends
<1> QED
  BY <1>t, <1>1, <1>2, ConnectionParts

\* What the sender does to its session and its exchange.
LEMMA SendKeepsExchange ==
    ASSUME TypeOK, PrepareInv, OwnerInv, NEW t \in Transfers, SendStep(t)
    PROVE  ExchangeKept
<1> USE DEF exchange
<1>t. session \in [Transfers -> SessionStatus] /\ code \in [Transfers -> Codes]
  BY DEF TypeOK
<1>a. \A at \in {"request", "reply", "checked", "asked", "pin", "done"} : at \in PrepareStatus
  BY DEF PrepareStatus
<1>u. \A u \in Transfers : session' = session =>
         (session'[u] = "none" => session[u] = "none")
  OBVIOUS
<1>s. \A s \in SessionStatus : Status(t, s) \in SessionStatus /\ (s # "none" => Status(t, s) # "none")
  BY DEF Status, SessionStatus
<1>b. prepare[t] # "idle" => session[t] # "none"
  BY DEF PrepareInv
<1>c. \A s : session' = [session EXCEPT ![t] = s] /\ s \in SessionStatus /\ s # "none" =>
         /\ \A u \in Transfers : session'[u] = "none" => session[u] = "none"
         /\ session'[t] # "none"
  BY <1>t
<1>d. ASSUME NEW s \in SessionStatus, s # "none", session' = [session EXCEPT ![t] = s],
             UNCHANGED <<prepare, code>>
      PROVE  ExchangeKept
  BY <1>c, <1>d DEF PrepareInv, ExchangeKept
<1>1. CASE StartSession(t)
  <2>1. prepare[t] = "idle" /\ "waiting" \in SessionStatus
    BY <1>1 DEF StartSession, PrepareInv, SessionStatus
  <2>2. /\ prepare' = [prepare EXCEPT ![t] = "request"] /\ code' = code
        /\ session' = [session EXCEPT ![t] = "waiting"]
    BY <1>1 DEF StartSession, Moves
  <2> QED
    BY <2>1, <2>2, <1>a, <1>c, <1>t, ExchangeMoves
<1>2. CASE PrepareRefused(t)
  <2>1. /\ prepare[t] = "reply" /\ code[t] # 200 /\ code' = code
        /\ \E at \in {"pin", "done"} : prepare' = [prepare EXCEPT ![t] = at]
    BY <1>2 DEF PrepareRefused, Moves
  <2>2. \E s \in SessionStatus \ {"none"} : session' = [session EXCEPT ![t] = s]
    <3>1. \A s \in {"closed", "declined", "recipientBusy", "tooManyAttempts"} :
             s \in SessionStatus /\ s # "none"
      BY DEF SessionStatus
    <3>2. session[t] \in SessionStatus /\ session[t] # "none"
      BY <2>1, <1>b, <1>t
    <3> DEFINE ends == CASE code[t] = 204 -> "closed"
                         [] code[t] = 401 -> session[t]
                         [] code[t] = 403 -> Status(t, "declined")
                         [] code[t] = 409 -> Status(t, "recipientBusy")
                         [] OTHER -> Status(t, "tooManyAttempts")
    <3>3. ends \in SessionStatus \ {"none"}
      BY <3>1, <3>2, <1>s
    <3>4. session' = [session EXCEPT ![t] = ends]
      BY <1>2 DEF PrepareRefused
    <3> HIDE DEF ends
    <3> QED
      BY <3>3, <3>4
  <2>3. PICK at \in {"pin", "done"} : prepare' = [prepare EXCEPT ![t] = at]
    BY <2>1
  <2> QED
    BY <2>1, <2>2, <2>3, <1>a, <1>c, <1>t, ExchangeMoves, ZenonT(60)
<1>3. CASE PrepareAccepted(t)
  <2>1. /\ prepare[t] = "reply" /\ code' = code
        /\ prepare' = [prepare EXCEPT ![t] = "done"]
    BY <1>3 DEF PrepareAccepted, Moves
  <2>2. session' = session \/ session' = [session EXCEPT ![t] = "sending"]
    BY <1>3 DEF PrepareAccepted, senderVars
  <2>3. /\ \A u \in Transfers : session'[u] = "none" => session[u] = "none"
        /\ session'[t] # "none"
    BY <2>1, <2>2, <1>b, <1>t
  <2> QED
    BY <2>1, <2>3, <1>a, <1>t, ExchangeMoves
<1>4. CASE EnterPin(t)
  <2>1. /\ prepare[t] = "pin" /\ code' = code /\ session' = session
        /\ prepare' = [prepare EXCEPT ![t] = "request"]
    BY <1>4 DEF EnterPin, senderVars
  <2> QED
    BY <2>1, <1>a, <1>b, <1>t, ExchangeMoves
<1>5. CASE DismissPinDialog(t)
  <2>1. /\ prepare[t] = "pin" /\ code' = code
        /\ prepare' = [prepare EXCEPT ![t] = "done"]
        /\ session' = [session EXCEPT ![t] = Status(t, "canceledBySender")]
        /\ "canceledBySender" \in SessionStatus
    BY <1>5 DEF DismissPinDialog, Moves, SetSession, SessionStatus
  <2> QED
    BY <2>1, <1>a, <1>c, <1>s, <1>t, ExchangeMoves
<1>6. CASE PrepareFails(t)
  <2>1. /\ UNCHANGED <<prepare, code>>
        /\ session' = [session EXCEPT ![t] = Status(t, "finishedWithErrors")]
        /\ "finishedWithErrors" \in SessionStatus
    BY <1>6 DEF PrepareFails, SetSession, SessionStatus
  <2> QED
    BY <2>1, <1>d, <1>s
<1>7. CASE CancelSend(t) \/ CancelWaiting(t) \/ CloseSend(t)
  <2>1. /\ UNCHANGED <<prepare, code>>
        /\ session' = [session EXCEPT ![t] = "closed"]
        /\ "closed" \in SessionStatus
    BY <1>7 DEF CancelSend, CancelWaiting, CloseSend, SessionStatus
  <2> QED
    BY <2>1, <1>d
<1>8. ASSUME NEW f \in Files, Retry(t, f) PROVE ExchangeKept
  <2>1. /\ UNCHANGED <<prepare, code>>
        /\ session' = [session EXCEPT ![t] = "sending"]
        /\ "sending" \in SessionStatus
    BY <1>8 DEF Retry, SessionStatus
  <2> QED
    BY <2>1, <1>d
<1> QED
  BY <1>1, <1>2, <1>3, <1>4, <1>5, <1>6, <1>7, <1>8 DEF SendStep

\* Every step keeps the receiver's side of the invariant.
LEMMA ReceiverInvStep ==
    ASSUME TypeOK, ReceiverInv, [Next]_vars
    PROVE  ReceiverInv'
<1> USE DEF senderVars, receiverVars, diskVars, exchange
<1>t. /\ owner \in [Devices -> Transfers \cup {Nobody}]
      /\ status \in [Devices -> ReceiveStatus]
      /\ got \in [Transfers -> [Files -> FileStatus]]
      /\ session \in [Transfers -> SessionStatus]
      /\ code \in [Transfers -> Codes]
      /\ saved \in [Transfers -> SUBSET Files]
  BY DEF TypeOK
<1>i. OwnerInv /\ PrepareInv
  BY DEF ReceiverInv
<1>1. ASSUME NEW t \in Transfers, SendStep(t) PROVE ReceiverInv'
  <2>1. UNCHANGED <<owner, status, got, server, accepted, saved>>
    BY <1>1 DEF SendStep, StartSession, PrepareRefused, PrepareAccepted, EnterPin,
                DismissPinDialog, PrepareFails, CancelSend, CancelWaiting, CloseSend, Retry
  <2> QED
    BY <2>1, <1>1, <1>i, SendKeepsExchange, ReceiverKept
<1>2. ASSUME NEW t \in Transfers, PrepareArrives(t) PROVE ReceiverInv'
  <2>1. /\ UNCHANGED <<owner, status, got, server, accepted, saved, session>>
        /\ prepare[t] = "request"
    BY <1>2 DEF PrepareArrives
  <2>2. \/ \E c \in {409, 429, 401} :
              /\ prepare' = [prepare EXCEPT ![t] = "reply"]
              /\ code' = [code EXCEPT ![t] = c]
        \/ prepare' = [prepare EXCEPT ![t] = "checked"] /\ code' = code
    BY <1>2 DEF PrepareArrives, Answers, Moves
  <2>3. \A c \in {409, 429, 401} : c \in Codes
    BY DEF Codes
  <2>4. "reply" \in PrepareStatus /\ "checked" \in PrepareStatus
    BY DEF PrepareStatus
  <2>5. session'[t] # "none" /\ \A u \in Transfers : session'[u] = "none" => session[u] = "none"
    BY <2>1, <1>i DEF PrepareInv
  <2>6. ExchangeKept
    <3>1. CASE prepare' = [prepare EXCEPT ![t] = "checked"] /\ code' = code
      BY <3>1, <2>1, <2>4, <2>5, <1>i, <1>t, ExchangeMoves
    <3>2. ASSUME NEW c \in {409, 429, 401}, prepare' = [prepare EXCEPT ![t] = "reply"],
                 code' = [code EXCEPT ![t] = c]
          PROVE  ExchangeKept
      BY <3>2, <2>1, <2>3, <2>4, <2>5, <1>i, ExchangeMoves, ZenonT(60)
    <3> QED
      BY <2>2, <3>1, <3>2
  <2> QED
    BY <2>1, <2>6, ReceiverKept
<1>3. ASSUME NEW t \in Transfers, StoreSession(t) PROVE ReceiverInv'
  BY <1>3, ReceiverStores
<1>4. ASSUME NEW c \in Connections, UploadStep(c) PROVE ReceiverInv'
  <2>a. c[1] \in Transfers /\ c[2] \in Files /\ To[c[1]] \in Devices
    BY ConnectionParts, Ends
  <2>e. UNCHANGED <<prepare, code, session>> => ExchangeKept
    BY <1>i, ExchangeUnchanged
  <2>1. CASE UploadAnswered(c) \/ UploadLost(c) \/ UploadAborted(c)
    <3>1. /\ UNCHANGED <<owner, status, got, server, accepted, saved, prepare, code>>
          /\ \E result \in {"finished", "failed"} : EndUpload(c, result)
      BY <2>1 DEF UploadAnswered, UploadLost, UploadAborted
    <3>2. ExchangeKept
      BY <3>1, <1>i, UploadEndsStarted DEF ExchangeKept, PrepareInv
    <3> QED
      BY <3>1, <3>2, ReceiverKept
  <2>2. CASE UploadArrives(c)
    <3> DEFINE d == To[c[1]]
               starts == owner[d] = c[1] /\ status[d] \in Uploadable /\ got[c[1]][c[2]] # "skipped"
    <3>1. UNCHANGED <<prepare, code, session, owner, accepted, saved>>
      BY <2>2 DEF UploadArrives
    <3>2. CASE starts
      <4>1. c[2] \in accepted[c[1]]
        BY <3>2, <2>a DEF ReceiverInv, TokenInv, Uploadable
      <4>2. /\ server' = [server EXCEPT ![c] = "saving"]
            /\ status' = [status EXCEPT ![d] = "sending"]
            /\ got' = [got EXCEPT ![c[1]][c[2]] = "sending"]
        BY <2>2, <3>2 DEF UploadArrives
      <4>3. \A e \in Devices : \/ status'[e] = status[e]
                               \/ status[e] \in Uploadable /\ status'[e] = "sending"
        BY <4>2, <3>2, <1>t
      <4> QED
        BY <2>e, <3>1, <3>2, <4>1, <4>2, <4>3, HandlerMoves
    <3>3. CASE ~starts
      <4>1. server' = [server EXCEPT ![c] = "refused"] /\ status' = status /\ got' = got
        BY <2>2, <3>3 DEF UploadArrives
      <4> QED
        BY <2>e, <3>1, <4>1, HandlerMoves
    <3> QED
      BY <3>2, <3>3
  <2>3. CASE SaveOk(c)
    <3>1. /\ UNCHANGED <<prepare, code, session, owner, accepted, status>>
          /\ server[c] = "saving"
          /\ saved' = [saved EXCEPT ![c[1]] = saved[c[1]] \cup {c[2]}]
      BY <2>3 DEF SaveOk
    <3>2. c[2] \in accepted[c[1]]
      BY <3>1 DEF ReceiverInv, DiskInv
    <3>3. c[2] \in saved'[c[1]] /\ \A t \in Transfers : saved[t] \subseteq saved'[t]
      BY <3>1, <2>a, <1>t
    <3>4. \/ server' = [server EXCEPT ![c] = "refused"] /\ got' = got
          \/ server' = [server EXCEPT ![c] = "threw"] /\ got' = got
          \/ /\ owner[To[c[1]]] = c[1] /\ server' = [server EXCEPT ![c] = "history"]
             /\ got' = [got EXCEPT ![c[1]][c[2]] = "finished"]
      BY <2>3 DEF SaveOk
    <3>5. ASSUME NEW r \in {"refused", "threw"}, server' = [server EXCEPT ![c] = r], got' = got
          PROVE  ReceiverInv'
      BY <2>e, <3>1, <3>3, <3>5, HandlerMoves
    <3>6. CASE /\ owner[To[c[1]]] = c[1] /\ server' = [server EXCEPT ![c] = "history"]
               /\ got' = [got EXCEPT ![c[1]][c[2]] = "finished"]
      BY <2>e, <3>1, <3>2, <3>3, <3>6, HandlerMoves
    <3> QED
      BY <3>4, <3>5, <3>6
  <2>4. CASE HistoryDone(c)
    <3>1. /\ server[c] = "history" /\ Conclude(c, SessionFiles(To[c[1]]))
          /\ UNCHANGED <<prepare, code, session, owner, got, accepted, saved>>
      BY <2>4 DEF HistoryDone
    <3>2. \/ owner[To[c[1]]] = Nobody
          \/ /\ owner[To[c[1]]] # Nobody
             /\ SessionFiles(To[c[1]]) = got'[owner[To[c[1]]]]
      BY <3>1 DEF SessionFiles
    <3> QED
      BY <2>e, <3>1, <3>2, HandlerConcludes
  <2>5. CASE SaveFails(c)
    <3> DEFINE t == c[1]
               d == To[t]
               files == IF owner[d] = t THEN got'[t] ELSE NotSent
    <3>1. /\ server[c] \in {"saving", "history"}
          /\ UNCHANGED <<prepare, code, session, owner, accepted, saved>>
      BY <2>5 DEF SaveFails
    <3>2. CASE owner[d] \in {t, Nobody}
      <4>1. Conclude(c, files)
        BY <2>5, <3>2 DEF SaveFails
      <4>2. got' = IF owner[d] = t THEN [got EXCEPT ![t][c[2]] = "failed"] ELSE got
        BY <2>5, <3>2 DEF SaveFails
      <4>3. \/ owner[d] = Nobody
            \/ owner[d] # Nobody /\ files = got'[owner[d]]
        BY <3>2
      <4>4. \/ got' = got
            \/ owner[d] = t /\ got' = [got EXCEPT ![t][c[2]] = "failed"]
        BY <4>2
      <4> HIDE DEF files
      <4> QED
        BY <2>e, <3>1, <4>1, <4>3, <4>4, HandlerConcludes
    <3>3. CASE owner[d] \notin {t, Nobody}
      <4>1. server' = [server EXCEPT ![c] = "threw"] /\ UNCHANGED <<status, got>>
        BY <2>5, <3>3 DEF SaveFails
      <4> QED
        BY <2>e, <3>1, <4>1, HandlerMoves
    <3> QED
      BY <3>2, <3>3
  <2> QED
    BY <1>4, <2>1, <2>2, <2>3, <2>4, <2>5 DEF UploadStep
<1>5. ASSUME NEW d \in Devices, ReceiveStep(d) PROVE ReceiverInv'
  <2>1. ASSUME NEW selection \in SUBSET Files, Accept(d, selection) PROVE ReceiverInv'
    BY <2>1, ReceiverGrants DEF Accept
  <2>2. CASE Dismiss(d)
    <3>1. /\ CloseReceive(d) /\ owner[d] \in Transfers /\ status[d] = "waiting"
          /\ UNCHANGED <<server, accepted, saved, session>>
      BY <2>2, <1>t DEF Dismiss
    <3>2. \E c \in Codes : Answers(owner[d], c)
      BY <2>2 DEF Dismiss, Codes
    <3> QED
      BY <3>1, <3>2, ReceiverCloses
  <2>3. CASE DelayedClose(d) \/ CancelReceive(d) \/ LeaveReceive(d)
    <3>1. CloseReceive(d) /\ UNCHANGED <<server, accepted, saved, session, prepare, code>>
      BY <2>3 DEF DelayedClose, CancelReceive, LeaveReceive
    <3> QED
      BY <3>1, ReceiverCloses
  <2>4. CASE ClearAllSessions(d)
    <3>1. UNCHANGED <<owner, status, got, server, accepted, saved, prepare, code>>
      BY <2>4 DEF ClearAllSessions
    <3>2. \A t \in Transfers : session'[t] = "none" => session[t] = "none"
      BY <2>4 DEF ClearAllSessions
    <3>3. ExchangeKept
      BY <3>1, <3>2, <1>i DEF ExchangeKept, PrepareInv
    <3> QED
      BY <3>1, <3>3, ReceiverKept
  <2> QED
    BY <1>5, <2>1, <2>2, <2>3, <2>4 DEF ReceiveStep
<1>6. ASSUME NEW m \in cancels, CancelArrives(m) PROVE ReceiverInv'
  <2>0. m.to \in Devices /\ m.id \in Transfers
    BY DEF TypeOK
  <2>1. UNCHANGED <<owner, got, server, accepted, saved, prepare, code>>
    BY <1>6 DEF CancelArrives
  <2>2. session' = session \/ session' = [session EXCEPT ![m.id] = "canceledByReceiver"]
    BY <1>6 DEF CancelArrives
  <2>3. ExchangeKept
    BY <2>0, <2>1, <2>2, <1>i, <1>t DEF ExchangeKept, PrepareInv
  <2>4. \/ status' = status
        \/ /\ status[m.to] \in {"waiting", "sending"}
           /\ status' = [status EXCEPT ![m.to] = "canceledBySender"]
    BY <1>6 DEF CancelArrives
  <2> QED
    BY <2>0, <2>1, <2>3, <2>4, ReceiverKept, ReceiverCanceled
<1>7. ASSUME NEW m \in cancels, CancelLost(m) PROVE ReceiverInv'
  <2>1. UNCHANGED <<owner, status, got, server, accepted, saved, prepare, code, session>>
    BY <1>7 DEF CancelLost
  <2> QED
    BY <2>1, <1>i, ExchangeUnchanged, ReceiverKept
<1>8. CASE UNCHANGED vars
  <2>1. UNCHANGED <<owner, status, got, server, accepted, saved, prepare, code, session>>
    BY <1>8 DEF vars
  <2> QED
    BY <2>1, <1>i, ExchangeUnchanged, ReceiverKept
<1> QED
  BY <1>1, <1>2, <1>3, <1>4, <1>5, <1>6, <1>7, <1>8 DEF Next

-----------------------------------------------------------------------------
(* Where a send session is while its request is under way.                 *)

\* Only the transfer of the step has changed.
LEMMA PipelineChanges ==
    ASSUME PipelineInv, NEW t \in Transfers,
           \A u \in Transfers \ {t} : /\ prepare'[u] = prepare[u]
                                      /\ session'[u] \in {session[u], "closed"}
                                      /\ u \in abandoned' <=> u \in abandoned,
           prepare'[t] \notin {"idle", "done"} /\ t \notin abandoned'
              => session'[t] \in {"waiting", "closed"},
           t \in abandoned' => prepare'[t] \notin {"idle", "pin", "done"}
    PROVE  PipelineInv'
BY DEF PipelineInv

\* Sessions change without the requests: those whose request is under way only close.
LEMMA PipelineKept ==
    ASSUME PipelineInv, UNCHANGED <<prepare, abandoned>>,
           \A t \in Transfers :
              prepare[t] \notin {"idle", "done"} /\ t \notin abandoned
                 => session'[t] \in {session[t], "closed"}
    PROVE  PipelineInv'
BY DEF PipelineInv

\* A step at the sender keeps it.
LEMMA PipelineSend ==
    ASSUME TypeOK, PrepareInv, PipelineInv, NEW t \in Transfers, SendStep(t)
    PROVE  PipelineInv'
<1>t. /\ session \in [Transfers -> SessionStatus]
      /\ prepare \in [Transfers -> PrepareStatus]
  BY DEF TypeOK
<1>p. /\ session[t] = "none" => prepare[t] = "idle"
      /\ prepare[t] \notin {"idle", "done"} /\ t \notin abandoned
            => session[t] \in {"waiting", "closed"}
      /\ t \in abandoned => prepare[t] \notin {"idle", "pin", "done"}
  BY DEF PrepareInv, PipelineInv
<1>1. CASE StartSession(t)
  <2>1. /\ session' = [session EXCEPT ![t] = "waiting"]
        /\ prepare' = [prepare EXCEPT ![t] = "request"]
        /\ abandoned' = abandoned /\ session[t] = "none"
    BY <1>1 DEF StartSession, Moves
  <2> QED
    BY <2>1, <1>t, <1>p, PipelineChanges
<1>2. CASE PrepareRefused(t)
  <2>1. /\ prepare[t] = "reply" /\ t \notin abandoned /\ abandoned' = abandoned
        /\ prepare' = [prepare EXCEPT ![t] = IF code[t] = 401 THEN "pin" ELSE "done"]
    BY <1>2 DEF PrepareRefused, Moves
  <2>2. /\ \A u \in Transfers \ {t} : session'[u] = session[u]
        /\ code[t] = 401 => session'[t] = session[t]
    BY <1>2, <1>t DEF PrepareRefused
  <2> QED
    BY <2>1, <2>2, <1>t, <1>p, PipelineChanges
<1>3. CASE PrepareAccepted(t)
  <2>1. /\ prepare[t] = "reply" /\ t \notin abandoned /\ abandoned' = abandoned
        /\ prepare' = [prepare EXCEPT ![t] = "done"]
    BY <1>3 DEF PrepareAccepted, Moves
  <2>2. \A u \in Transfers \ {t} : session'[u] = session[u]
    BY <1>3, <1>t DEF PrepareAccepted, senderVars
  <2> QED
    BY <2>1, <2>2, <1>t, PipelineChanges
<1>4. CASE EnterPin(t)
  <2>1. /\ prepare' = [prepare EXCEPT ![t] = "request"] /\ prepare[t] = "pin"
        /\ session' = session /\ abandoned' = abandoned
    BY <1>4 DEF EnterPin, senderVars
  <2> QED
    BY <2>1, <1>t, <1>p, PipelineChanges
<1>5. CASE DismissPinDialog(t)
  <2>1. /\ prepare' = [prepare EXCEPT ![t] = "done"] /\ prepare[t] = "pin"
        /\ abandoned' = abandoned
        /\ session' = [session EXCEPT ![t] = Status(t, "canceledBySender")]
    BY <1>5 DEF DismissPinDialog, Moves, SetSession
  <2> QED
    BY <2>1, <1>t, <1>p, PipelineChanges
<1>6. CASE PrepareFails(t)
  <2>1. /\ prepare' = prepare /\ prepare[t] \in {"request", "checked", "asked", "reply"}
        /\ abandoned' = abandoned \cup {t}
        /\ session' = [session EXCEPT ![t] = Status(t, "finishedWithErrors")]
    BY <1>6 DEF PrepareFails, SetSession
  <2> QED
    BY <2>1, <1>t, <1>p, PipelineChanges
<1>7. CASE CancelSend(t) \/ CancelWaiting(t) \/ CloseSend(t)
  <2>1. /\ UNCHANGED <<prepare, abandoned>>
        /\ session' = [session EXCEPT ![t] = "closed"]
    BY <1>7 DEF CancelSend, CancelWaiting, CloseSend, exchange
  <2> QED
    BY <2>1, <1>t, PipelineKept
<1>8. ASSUME NEW f \in Files, Retry(t, f) PROVE PipelineInv'
  <2>1. /\ UNCHANGED <<prepare, abandoned>> /\ session[t] \in Uploadable
        /\ session' = [session EXCEPT ![t] = "sending"]
    BY <1>8 DEF Retry, exchange
  <2> QED
    BY <2>1, <1>t, <1>p, PipelineKept DEF Uploadable
<1> QED
  BY <1>1, <1>2, <1>3, <1>4, <1>5, <1>6, <1>7, <1>8 DEF SendStep

\* The end of an upload does not change a session that is not sending.
LEMMA UploadEndsSession ==
    ASSUME TypeOK, NEW c \in Connections, NEW result, EndUpload(c, result)
    PROVE  /\ \A u \in Transfers \ {c[1]} : session'[u] = session[u]
           /\ session[c[1]] # "sending" => session' = session
<1> DEFINE t == c[1]
           files == [sent[t] EXCEPT ![c[2]] = result]
           others == {d \in Connections : d # c /\ d[1] = t /\ d[3] = 1 /\ InFlight(d)}
<1>t. session \in [Transfers -> SessionStatus] /\ t \in Transfers
  BY ConnectionParts DEF TypeOK
<1>1. \/ session' = session
      \/ \E s \in IF Finishes(c, others, files) THEN Outcomes(t, files)
                  ELSE {session[t]} : session' = [session EXCEPT ![t] = s]
  BY DEF EndUpload
<1>2. session[t] # "sending" => Outcomes(t, files) = {session[t]}
  BY DEF Outcomes
<1> HIDE DEF t, files, others
<1> QED
  BY <1>t, <1>1, <1>2 DEF t

\* Every step keeps it.
LEMMA PipelineStep ==
    ASSUME TypeOK, PrepareInv, OwnerInv, UploadInv, PipelineInv, [Next]_vars
    PROVE  PipelineInv'
<1>t. /\ session \in [Transfers -> SessionStatus]
      /\ prepare \in [Transfers -> PrepareStatus]
      /\ owner \in [Devices -> Transfers \cup {Nobody}]
  BY DEF TypeOK
<1>p. \A t \in Transfers :
         prepare[t] \notin {"idle", "done"} /\ t \notin abandoned
            => session[t] \in {"waiting", "closed"}
  BY DEF PipelineInv
<1>1. ASSUME NEW t \in Transfers, SendStep(t) PROVE PipelineInv'
  BY <1>1, PipelineSend
<1>2. ASSUME NEW t \in Transfers, PrepareArrives(t) PROVE PipelineInv'
  <2>1. /\ prepare[t] = "request" /\ UNCHANGED <<session, abandoned>>
        /\ \E at \in {"reply", "checked"} : prepare' = [prepare EXCEPT ![t] = at]
    BY <1>2 DEF PrepareArrives, Answers, Moves, senderVars
  <2> QED
    BY <2>1, <1>t, <1>p, PipelineChanges
<1>3. ASSUME NEW t \in Transfers, StoreSession(t) PROVE PipelineInv'
  <2>1. /\ prepare[t] = "checked" /\ UNCHANGED <<session, abandoned>>
        /\ \E at \in {"reply", "asked"} : prepare' = [prepare EXCEPT ![t] = at]
    BY <1>3 DEF StoreSession, Grants, Moves, senderVars
  <2> QED
    BY <2>1, <1>t, <1>p, PipelineChanges
<1>4. ASSUME NEW c \in Connections, UploadStep(c) PROVE PipelineInv'
  <2>1. CASE UploadAnswered(c) \/ UploadLost(c) \/ UploadAborted(c)
    <3>1. /\ UNCHANGED <<prepare, abandoned>>
          /\ InFlight(c) /\ \E result : EndUpload(c, result)
      BY <2>1 DEF UploadAnswered, UploadLost, UploadAborted, InFlight, exchange
    <3>2. \A t \in Transfers \ {c[1]} : session'[t] = session[t]
      BY <3>1, UploadEndsSession
    <3>3. prepare[c[1]] = "done"
      BY <3>1, ConnectionParts DEF UploadInv
    <3> QED
      BY <3>1, <3>2, <3>3, PipelineKept
  <2>2. CASE UploadArrives(c) \/ SaveOk(c) \/ HistoryDone(c) \/ SaveFails(c)
    <3>1. UNCHANGED <<session, prepare, abandoned>>
      BY <2>2 DEF UploadArrives, SaveOk, HistoryDone, SaveFails, senderVars, exchange
    <3> QED
      BY <3>1, PipelineKept
  <2> QED
    BY <1>4, <2>1, <2>2 DEF UploadStep
<1>5. ASSUME NEW d \in Devices, ReceiveStep(d) PROVE PipelineInv'
  <2>1. CASE \/ Dismiss(d)
             \/ \E selection \in SUBSET Files : Accept(d, selection)
    <3>1. /\ UNCHANGED <<session, abandoned>> /\ owner[d] \in Transfers
          /\ status[d] = "waiting"
          /\ prepare' = [prepare EXCEPT ![owner[d]] = "reply"]
      BY <2>1, <1>t DEF Dismiss, Accept, Grant, Answers, Grants, senderVars
    <3>2. prepare[owner[d]] = "asked"
      BY <3>1 DEF OwnerInv
    <3> QED
      BY <3>1, <3>2, <1>t, <1>p, PipelineChanges
  <2>2. CASE DelayedClose(d) \/ CancelReceive(d) \/ LeaveReceive(d)
    <3>1. UNCHANGED <<session, prepare, abandoned>>
      BY <2>2 DEF DelayedClose, CancelReceive, LeaveReceive, senderVars, exchange
    <3> QED
      BY <3>1, PipelineKept
  <2>3. CASE ClearAllSessions(d)
    <3>1. UNCHANGED <<prepare, abandoned>>
      BY <2>3 DEF ClearAllSessions, exchange
    <3>2. \A t \in Transfers : session'[t] \in {session[t], "closed"}
      BY <2>3 DEF ClearAllSessions
    <3> QED
      BY <3>1, <3>2, PipelineKept
  <2> QED
    BY <1>5, <2>1, <2>2, <2>3 DEF ReceiveStep
<1>6. ASSUME NEW m \in cancels, CancelArrives(m) PROVE PipelineInv'
  <2>1. /\ UNCHANGED <<prepare, abandoned>> /\ m.id \in Transfers
        /\ \/ session' = session
           \/ /\ session[m.id] = "sending"
              /\ session' = [session EXCEPT ![m.id] = "canceledByReceiver"]
    BY <1>6 DEF CancelArrives, exchange, TypeOK
  <2> QED
    BY <2>1, <1>t, <1>p, PipelineKept
<1>7. CASE UNCHANGED vars \/ \E m \in cancels : CancelLost(m)
  <2>1. UNCHANGED <<session, prepare, abandoned>>
    BY <1>7 DEF CancelLost, vars, senderVars, exchange
  <2> QED
    BY <2>1, PipelineKept
<1> QED
  BY <1>1, <1>2, <1>3, <1>4, <1>5, <1>6, <1>7 DEF Next

-----------------------------------------------------------------------------
(* What the stored sessions are for.                                       *)

\* Where the exchange of a transfer with a stored session is.
Answered(t) ==
    \/ prepare[t] = "asked"
    \/ prepare[t] \in {"reply", "done"} /\ code[t] = 200

\* Sessions only go away, and the exchange of those that stay is where it was
\* or has got further.
LEMMA StoredKept ==
    ASSUME StoredInv,
           \A d \in Devices : owner'[d] # Nobody =>
              owner'[d] = owner[d] /\ (Answered(owner[d]) => Answered(owner[d])')
    PROVE  StoredInv'
BY DEF StoredInv, Answered

\* The exchange of a transfer moves on without its session.
LEMMA StoredMoves ==
    ASSUME TypeOK, StoredInv, NEW t \in Transfers, UNCHANGED owner,
           \A u \in Transfers \ {t} : prepare'[u] = prepare[u] /\ code'[u] = code[u],
           Answered(t) => Answered(t)'
    PROVE  StoredInv'
<1>1. \A d \in Devices : owner[d] # Nobody => owner[d] \in Transfers
  BY DEF TypeOK
<1>2. \A u \in Transfers : Answered(u) => Answered(u)'
  BY DEF Answered
<1> QED
  BY <1>1, <1>2, StoredKept

\* Every step keeps it.
LEMMA StoredStep ==
    ASSUME TypeOK, OwnerInv, PrepareInv, StoredInv, [Next]_vars
    PROVE  StoredInv'
<1>t. /\ prepare \in [Transfers -> PrepareStatus]
      /\ code \in [Transfers -> Codes]
      /\ owner \in [Devices -> Transfers \cup {Nobody}]
      /\ Nobody \notin Transfers
  BY TransfersAssumption DEF TypeOK
<1>1. ASSUME NEW t \in Transfers, SendStep(t) PROVE StoredInv'
  <2>1. CASE StartSession(t)
    <3>1. /\ prepare[t] = "idle" /\ UNCHANGED <<owner, code>>
          /\ prepare' = [prepare EXCEPT ![t] = "request"]
      BY <2>1 DEF StartSession, Moves, receiverVars, PrepareInv
    <3> QED
      BY <3>1, <1>t, StoredMoves DEF Answered
  <2>2. CASE PrepareRefused(t)
    <3>1. /\ prepare[t] = "reply" /\ code[t] # 200 /\ UNCHANGED <<owner, code>>
          /\ prepare' = [prepare EXCEPT ![t] = IF code[t] = 401 THEN "pin" ELSE "done"]
      BY <2>2 DEF PrepareRefused, Moves, receiverVars
    <3> QED
      BY <3>1, <1>t, StoredMoves DEF Answered
  <2>3. CASE PrepareAccepted(t)
    <3>1. /\ code[t] = 200 /\ UNCHANGED <<owner, code>>
          /\ prepare' = [prepare EXCEPT ![t] = "done"]
      BY <2>3 DEF PrepareAccepted, Moves, receiverVars
    <3> QED
      BY <3>1, <1>t, StoredMoves DEF Answered
  <2>4. CASE EnterPin(t) \/ DismissPinDialog(t)
    <3>1. /\ prepare[t] = "pin" /\ UNCHANGED <<owner, code>>
          /\ \E at \in {"request", "done"} : prepare' = [prepare EXCEPT ![t] = at]
      BY <2>4 DEF EnterPin, DismissPinDialog, Moves, receiverVars
    <3> QED
      BY <3>1, <1>t, StoredMoves DEF Answered
  <2>5. CASE \/ PrepareFails(t) \/ CancelSend(t) \/ CancelWaiting(t) \/ CloseSend(t)
             \/ \E f \in Files : Retry(t, f)
    <3>1. UNCHANGED <<owner, prepare, code>>
      BY <2>5 DEF PrepareFails, CancelSend, CancelWaiting, CloseSend, Retry,
                  receiverVars, exchange
    <3> QED
      BY <3>1, StoredKept DEF Answered
  <2> QED
    BY <1>1, <2>1, <2>2, <2>3, <2>4, <2>5 DEF SendStep
<1>2. ASSUME NEW t \in Transfers, PrepareArrives(t) PROVE StoredInv'
  <2>1. /\ prepare[t] = "request" /\ UNCHANGED owner
        /\ \A u \in Transfers \ {t} : prepare'[u] = prepare[u] /\ code'[u] = code[u]
    BY <1>2, <1>t DEF PrepareArrives, Answers, Moves, receiverVars
  <2> QED
    BY <2>1, <1>t, StoredMoves DEF Answered
<1>3. ASSUME NEW t \in Transfers, StoreSession(t) PROVE StoredInv'
  <2> DEFINE d == To[t]
  <2>1. /\ prepare[t] = "checked" /\ d \in Devices
        /\ owner' = [owner EXCEPT ![d] = t]
    BY <1>3, TransfersAssumption DEF StoreSession
  <2>2. /\ \A u \in Transfers \ {t} : prepare'[u] = prepare[u] /\ code'[u] = code[u]
        /\ Answered(t)'
    BY <1>3, <1>t DEF StoreSession, Grants, Moves, Answered
  <2>3. ASSUME NEW e \in Devices, owner'[e] # Nobody
        PROVE  Answered(owner[e])'
    <3>1. CASE e = d
      BY <3>1, <2>1, <2>2, <1>t DEF Answered
    <3>2. CASE e # d
      <4>1. owner'[e] = owner[e] /\ owner[e] \in Transfers /\ owner[e] # t
        BY <3>2, <2>1, <2>3, <1>t DEF OwnerInv
      <4>2. Answered(owner[e])
        BY <2>3, <4>1 DEF StoredInv, Answered
      <4> QED
        BY <4>1, <4>2, <2>2 DEF Answered
    <3> QED
      BY <3>1, <3>2
  <2> QED
    BY <2>3 DEF StoredInv, Answered
<1>4. ASSUME NEW d \in Devices, ReceiveStep(d) PROVE StoredInv'
  <2>1. ASSUME NEW selection \in SUBSET Files, Accept(d, selection) PROVE StoredInv'
    <3>1. /\ UNCHANGED owner /\ owner[d] \in Transfers
          /\ prepare' = [prepare EXCEPT ![owner[d]] = "reply"]
          /\ code' = [code EXCEPT ![owner[d]] = 200]
      BY <2>1, <1>t DEF Accept, Grant, Grants
    <3> QED
      BY <3>1, <1>t, StoredMoves DEF Answered
  <2>2. CASE Dismiss(d)
    <3>1. /\ owner' = [owner EXCEPT ![d] = Nobody] /\ owner[d] \in Transfers
          /\ \A u \in Transfers \ {owner[d]} : prepare'[u] = prepare[u] /\ code'[u] = code[u]
      BY <2>2, <1>t DEF Dismiss, CloseReceive, Answers
    <3>2. ASSUME NEW e \in Devices, e # d, owner[e] # Nobody
          PROVE  owner[e] \in Transfers /\ owner[e] # owner[d]
      BY <3>1, <3>2, <1>t DEF OwnerInv
    <3> QED
      BY <3>1, <3>2, <1>t, StoredKept DEF Answered
  <2>3. CASE DelayedClose(d) \/ CancelReceive(d) \/ LeaveReceive(d)
    <3>1. /\ UNCHANGED <<prepare, code>>
          /\ owner' = [owner EXCEPT ![d] = Nobody]
      BY <2>3 DEF DelayedClose, CancelReceive, LeaveReceive, CloseReceive, exchange
    <3> QED
      BY <3>1, <1>t, StoredKept DEF Answered
  <2>4. CASE ClearAllSessions(d)
    <3>1. UNCHANGED <<owner, prepare, code>>
      BY <2>4 DEF ClearAllSessions, exchange, receiverVars
    <3> QED
      BY <3>1, StoredKept DEF Answered
  <2> QED
    BY <1>4, <2>1, <2>2, <2>3, <2>4 DEF ReceiveStep
<1>5. CASE \/ \E c \in Connections : UploadStep(c)
           \/ \E m \in cancels : CancelArrives(m) \/ CancelLost(m)
           \/ UNCHANGED vars
  <2>1. UNCHANGED <<owner, prepare, code>>
    BY <1>5 DEF UploadStep, UploadAnswered, UploadLost, UploadAborted, UploadArrives,
                SaveOk, HistoryDone, SaveFails, CancelArrives, CancelLost, vars,
                exchange, receiverVars
  <2> QED
    BY <2>1, StoredKept DEF Answered
<1> QED
  BY <1>1, <1>2, <1>3, <1>4, <1>5 DEF Next

-----------------------------------------------------------------------------
(* What a receive session waits for.                                       *)

\* The part of SettleInv that is about one device.
Settling(d) ==
    status[d] \in Uploadable =>
        /\ \A f \in Files : got[owner[d]][f] = "sending" =>
              \E c \in Connections : c[1] = owner[d] /\ c[2] = f /\ server[c] = "saving"
        /\ status[d] = "sending" =>
              \/ ~AllDone(got[owner[d]])
              \/ \E c \in Connections :
                    c[1] = owner[d] /\ server[c] \in {"saving", "history"}

LEMMA SettlingParts ==
    /\ SettleInv <=> \A d \in Devices : Settling(d)
    /\ SettleInv' <=> \A d \in Devices : Settling(d)'
BY DEF SettleInv, Settling

\* A device whose session, files and handlers stay as they are.
LEMMA SettlingKept ==
    ASSUME NEW d \in Devices, Settling(d),
           status'[d] \in Uploadable =>
              /\ owner'[d] = owner[d] /\ status'[d] = status[d]
              /\ got'[owner[d]] = got[owner[d]]
              /\ \A c \in Connections : c[1] = owner[d] => server'[c] = server[c]
    PROVE  Settling(d)'
<1> SUFFICES ASSUME status'[d] \in Uploadable PROVE Settling(d)'
  BY DEF Settling
<1>1. /\ \A f \in Files : got'[owner'[d]][f] = "sending" =>
            \E c \in Connections : c[1] = owner'[d] /\ c[2] = f /\ server'[c] = "saving"
      /\ AllDone(got'[owner'[d]]) <=> AllDone(got[owner[d]])
  BY DEF Settling, AllDone
<1>2. status'[d] = "sending" =>
         \/ ~AllDone(got[owner[d]])
         \/ \E c \in Connections :
               c[1] = owner'[d] /\ server'[c] \in {"saving", "history"}
  BY DEF Settling
<1> QED
  BY <1>1, <1>2 DEF Settling

\* Two devices do not have a session of the same transfer.
LEMMA OneOwner ==
    ASSUME TypeOK, OwnerInv, NEW d \in Devices, NEW t \in Transfers,
           status[d] \in Uploadable, d # To[t]
    PROVE  owner[d] \in Transfers /\ owner[d] # t
BY DEF TypeOK, OwnerInv, Uploadable

\* Only the sessions of a device change, and the files of its transfers.
LEMMA SettleAt ==
    ASSUME TypeOK, OwnerInv, SettleInv, UNCHANGED server, NEW d \in Devices,
           \A e \in Devices \ {d} : owner'[e] = owner[e] /\ status'[e] = status[e],
           \A t \in Transfers : To[t] # d => got'[t] = got[t],
           Settling(d)'
    PROVE  SettleInv'
<1>1. ASSUME NEW e \in Devices \ {d} PROVE Settling(e)'
  <2>1. Settling(e)
    BY SettlingParts
  <2>2. status[e] \in Uploadable => owner[e] \in Transfers /\ To[owner[e]] # d
    BY DEF TypeOK, OwnerInv, Uploadable
  <2> QED
    BY <2>1, <2>2, SettlingKept
<1> QED
  BY <1>1, SettlingParts

\* A handler of a transfer moves, and the session of no other device changes.
LEMMA SettleHandler ==
    ASSUME TypeOK, OwnerInv, SettleInv, UNCHANGED owner, NEW c \in Connections,
           \A d \in Devices \ {To[c[1]]} : status'[d] = status[d],
           \A t \in Transfers \ {c[1]} : got'[t] = got[t],
           \A b \in Connections \ {c} : server'[b] = server[b],
           Settling(To[c[1]])'
    PROVE  SettleInv'
<1>1. ASSUME NEW d \in Devices \ {To[c[1]]} PROVE Settling(d)'
  <2>1. Settling(d)
    BY SettlingParts
  <2>2. status[d] \in Uploadable => owner[d] \in Transfers /\ owner[d] # c[1]
    BY ConnectionParts, OneOwner
  <2> QED
    BY <2>1, <2>2, SettlingKept
<1> QED
  BY <1>1, SettlingParts

\* The session of a device is closed.
LEMMA SettleCloses ==
    ASSUME TypeOK, OwnerInv, SettleInv, UNCHANGED server, NEW d \in Devices,
           CloseReceive(d)
    PROVE  SettleInv'
<1>1. /\ \A e \in Devices \ {d} : owner'[e] = owner[e] /\ status'[e] = status[e]
      /\ status'[d] = "none"
      /\ \A t \in Transfers : owner[d] # t => got'[t] = got[t]
  BY DEF CloseReceive, TypeOK
<1>2. \A t \in Transfers : To[t] # d => owner[d] # t
  BY TransfersAssumption DEF OwnerInv
<1>3. Settling(d)'
  BY <1>1 DEF Settling, Uploadable
<1> QED
  BY <1>1, <1>2, <1>3, SettleAt

\* The end of a handler, which looks at the files the session now has.
LEMMA SettleConcludes ==
    ASSUME TypeOK, OwnerInv, SettleInv, NEW c \in Connections, NEW files,
           UNCHANGED owner, Conclude(c, files),
           \A t \in Transfers \ {c[1]} : got'[t] = got[t],
           owner[To[c[1]]] # Nobody => files = got'[owner[To[c[1]]]],
           owner[To[c[1]]] = c[1] =>
              /\ \A f \in Files \ {c[2]} : got'[c[1]][f] = got[c[1]][f]
              /\ \/ got'[c[1]][c[2]] = "failed"
                 \/ got'[c[1]] = got[c[1]] /\ server[c] # "saving"
    PROVE  SettleInv'
<1> DEFINE t == c[1]
           d == To[t]
<1>t. /\ t \in Transfers /\ d \in Devices /\ c[2] \in Files
      /\ status \in [Devices -> ReceiveStatus]
      /\ server \in [Connections ->
            {"idle", "saving", "history", "saved", "refused", "threw"}]
  BY ConnectionParts, TransfersAssumption DEF TypeOK
<1>1. /\ \A b \in Connections \ {c} : server'[b] = server[b]
      /\ \A e \in Devices \ {d} : status'[e] = status[e]
  BY <1>t DEF Conclude
<1>2. ASSUME status'[d] \in Uploadable
      PROVE  /\ status[d] \in Uploadable
             /\ status'[d] = "sending" => ~AllDone(files)
  <2>1. CASE Complete(d, files)
    <3>1. status'[d] \in {"finishedWithErrors", "finished"}
      BY <2>1, <1>t DEF Conclude
    <3> QED
      BY <2>1, <3>1 DEF Complete
  <2>2. CASE ~Complete(d, files)
    <3>1. status' = status
      BY <2>2 DEF Conclude
    <3> QED
      BY <2>2, <3>1, <1>2 DEF Complete
  <2> QED
    BY <2>1, <2>2
<1>3. ASSUME status'[d] \in Uploadable,
             NEW f \in Files, got'[owner[d]][f] = "sending"
      PROVE  \E b \in Connections : b[1] = owner[d] /\ b[2] = f /\ server'[b] = "saving"
  <2>1. owner[d] \in Transfers
    BY <1>2, <1>3, <1>t DEF TypeOK, OwnerInv, Uploadable
  <2>2. got[owner[d]][f] = "sending"
    BY <1>3, <2>1, <1>t
  <2>3. PICK b \in Connections : b[1] = owner[d] /\ b[2] = f /\ server[b] = "saving"
    BY <1>2, <1>3, <2>2, <1>t DEF SettleInv
  <2>4. b # c
    <3>1. CASE owner[d] = t
      BY <3>1, <2>3, <1>3
    <3>2. CASE owner[d] # t
      BY <3>2, <2>3
    <3> QED
      BY <3>1, <3>2
  <2> QED
    BY <2>3, <2>4, <1>1
<1>4. Settling(d)'
  <2>1. status'[d] = "sending" => ~AllDone(got'[owner[d]])
    <3> SUFFICES ASSUME status'[d] = "sending" PROVE ~AllDone(got'[owner[d]])
      OBVIOUS
    <3>1. status[d] \in Uploadable /\ ~AllDone(files)
      BY <1>2 DEF Uploadable
    <3>2. owner[d] # Nobody
      BY <3>1, <1>t DEF OwnerInv, Uploadable
    <3> QED
      BY <3>1, <3>2
  <2> HIDE DEF d
  <2> QED
    BY <2>1, <1>3 DEF Settling
<1> QED
  BY <1>1, <1>4, SettleHandler


\* Every step keeps it.
LEMMA SettleStep ==
    ASSUME TypeOK, OwnerInv, SettleInv, [Next]_vars
    PROVE  SettleInv'
<1>t. /\ owner \in [Devices -> Transfers \cup {Nobody}]
      /\ status \in [Devices -> ReceiveStatus]
      /\ got \in [Transfers -> [Files -> FileStatus]]
      /\ server \in [Connections ->
            {"idle", "saving", "history", "saved", "refused", "threw"}]
      /\ Nobody \notin Transfers
      /\ \A t \in Transfers : To[t] \in Devices
  BY TransfersAssumption DEF TypeOK
<1>1. CASE UNCHANGED <<owner, status, got, server>>
  BY <1>1, SettlingParts, SettlingKept
<1>2. ASSUME NEW t \in Transfers, StoreSession(t) PROVE SettleInv'
  <2> DEFINE d == To[t]
  <2>1. /\ owner' = [owner EXCEPT ![d] = t] /\ UNCHANGED server
        /\ \E s \in {"sending", "waiting"} : status' = [status EXCEPT ![d] = s]
        /\ got'[t] = NotSent
        /\ \A u \in Transfers : u \notin {t, owner[d]} => got'[u] = got[u]
    BY <1>2 DEF StoreSession
  <2>2. \A u \in Transfers : To[u] # d => got'[u] = got[u]
    BY <2>1, <1>t DEF OwnerInv
  <2>3. \E f \in Files : ~(NotSent[f] \in {"skipped", "failed", "finished"})
    BY BoundsAssumption DEF NotSent
  <2>4. Settling(d)'
    <3>1. owner'[d] = t /\ \A f \in Files : got'[t][f] # "sending"
      BY <2>1, <1>t DEF NotSent
    <3> HIDE DEF d
    <3> QED
      BY <2>1, <2>3, <3>1 DEF Settling, AllDone
  <2>5. \A e \in Devices \ {d} : owner'[e] = owner[e] /\ status'[e] = status[e]
    BY <2>1, <1>t
  <2> QED
    BY <2>1, <2>2, <2>4, <2>5, <1>t, SettleAt
<1>3. ASSUME NEW d \in Devices, NEW selection \in SUBSET Files, Accept(d, selection)
      PROVE  SettleInv'
  <2> DEFINE t == owner[d]
  <2>1. /\ t \in Transfers /\ UNCHANGED <<owner, server>> /\ selection # {}
        /\ status' = [status EXCEPT ![d] = "sending"]
        /\ got' = [got EXCEPT ![t] =
              [f \in Files |-> IF f \in selection THEN "queue" ELSE "skipped"]]
    BY <1>3, <1>t DEF Accept, Grant
  <2>2. To[t] = d
    BY <2>1, <1>t DEF OwnerInv
  <2>3. \A u \in Transfers : To[u] # d => got'[u] = got[u]
    BY <2>1, <2>2, <1>t
  <2>4. Settling(d)'
    <3>1. /\ \A f \in Files : got'[t][f] \in {"queue", "skipped"}
          /\ \E f \in Files : got'[t][f] = "queue"
      BY <2>1, <1>t
    <3> QED
      BY <2>1, <3>1 DEF Settling, AllDone
  <2> QED
    BY <2>1, <2>3, <2>4, <1>t, SettleAt
<1>4. ASSUME NEW d \in Devices,
             Dismiss(d) \/ DelayedClose(d) \/ CancelReceive(d) \/ LeaveReceive(d)
      PROVE  SettleInv'
  <2>1. CloseReceive(d) /\ UNCHANGED server
    BY <1>4 DEF Dismiss, DelayedClose, CancelReceive, LeaveReceive
  <2> QED
    BY <2>1, SettleCloses
<1>5. ASSUME NEW m \in cancels, CancelArrives(m) PROVE SettleInv'
  <2>1. /\ UNCHANGED <<owner, got, server>>
        /\ status' \in {status, [status EXCEPT ![m.to] = "canceledBySender"]}
    BY <1>5 DEF CancelArrives
  <2>2. \A d \in Devices : status'[d] \in Uploadable => status'[d] = status[d]
    BY <2>1, <1>t DEF Uploadable
  <2> QED
    BY <2>1, <2>2, SettlingParts, SettlingKept
<1>6. ASSUME NEW c \in Connections, UploadArrives(c) PROVE SettleInv'
  <2> DEFINE t == c[1]
             d == To[t]
  <2>c. t \in Transfers /\ d \in Devices /\ c[2] \in Files
    BY ConnectionParts, <1>t
  <2>1. UNCHANGED owner /\ server[c] = "idle"
    BY <1>6 DEF UploadArrives
  <2>2. CASE UNCHANGED <<status, got>> /\ server' = [server EXCEPT ![c] = "refused"]
    <3>1. \A b \in Connections : server[b] # "idle" => server'[b] = server[b]
      BY <2>2, <2>1, <1>t
    <3> QED
      BY <2>1, <2>2, <3>1 DEF SettleInv
  <2>3. CASE /\ owner[d] = t /\ status[d] \in Uploadable
             /\ server' = [server EXCEPT ![c] = "saving"]
             /\ status' = [status EXCEPT ![d] = "sending"]
             /\ got' = [got EXCEPT ![t][c[2]] = "sending"]
    <3>1. /\ \A e \in Devices \ {d} : status'[e] = status[e]
          /\ \A u \in Transfers \ {t} : got'[u] = got[u]
          /\ \A b \in Connections \ {c} : server'[b] = server[b]
          /\ server'[c] = "saving"
          /\ \A f \in Files \ {c[2]} : got'[t][f] = got[t][f]
      BY <2>3, <2>c, <1>t
    <3>2. ASSUME NEW f \in Files, got'[t][f] = "sending"
          PROVE  \E b \in Connections : b[1] = t /\ b[2] = f /\ server'[b] = "saving"
      <4>1. CASE f = c[2]
        BY <4>1, <3>1
      <4>2. CASE f # c[2]
        <5>1. PICK b \in Connections : b[1] = t /\ b[2] = f /\ server[b] = "saving"
          BY <4>2, <3>1, <3>2, <2>3, <2>c DEF SettleInv
        <5> QED
          BY <5>1, <4>2, <3>1
      <4> QED
        BY <4>1, <4>2
    <3>3. Settling(d)'
      <4> HIDE DEF d
      <4> QED
        BY <2>1, <2>3, <3>1, <3>2 DEF Settling
    <3> QED
      BY <2>1, <3>1, <3>3, SettleHandler
  <2> QED
    BY <1>6, <2>2, <2>3 DEF UploadArrives
<1>7. ASSUME NEW c \in Connections, SaveOk(c) PROVE SettleInv'
  <2> DEFINE t == c[1]
             d == To[t]
  <2>c. t \in Transfers /\ d \in Devices /\ c[2] \in Files
    BY ConnectionParts, <1>t
  <2>1. UNCHANGED <<owner, status>> /\ server[c] = "saving"
    BY <1>7 DEF SaveOk
  <2>2. CASE /\ status[d] \notin Uploadable \/ owner[d] # t
             /\ \E s \in {"refused", "threw"} : server' = [server EXCEPT ![c] = s]
             /\ UNCHANGED got
    <3>1. \A b \in Connections \ {c} : server'[b] = server[b]
      BY <2>2, <1>t
    <3>2. \A e \in Devices : status[e] \in Uploadable => owner[e] # t
      BY <2>2, <2>c, OneOwner
    <3>3. \A e \in Devices : Settling(e)'
      BY <2>1, <2>2, <3>1, <3>2, SettlingParts, SettlingKept
    <3> QED
      BY <3>3, SettlingParts
  <2>3. CASE /\ status[d] \in Uploadable /\ owner[d] = t
             /\ server' = [server EXCEPT ![c] = "history"]
             /\ got' = [got EXCEPT ![t][c[2]] = "finished"]
    <3>1. /\ \A u \in Transfers \ {t} : got'[u] = got[u]
          /\ \A b \in Connections \ {c} : server'[b] = server[b]
          /\ server'[c] = "history"
          /\ got'[t][c[2]] = "finished"
          /\ \A f \in Files \ {c[2]} : got'[t][f] = got[t][f]
      BY <2>3, <2>c, <1>t
    <3>2. ASSUME NEW f \in Files, got'[t][f] = "sending"
          PROVE  \E b \in Connections : b[1] = t /\ b[2] = f /\ server'[b] = "saving"
      <4>1. f # c[2]
        BY <3>1, <3>2
      <4>2. PICK b \in Connections : b[1] = t /\ b[2] = f /\ server[b] = "saving"
        BY <4>1, <3>1, <3>2, <2>3, <2>c DEF SettleInv
      <4> QED
        BY <4>1, <4>2, <3>1
    <3>3. Settling(d)'
      <4> HIDE DEF d
      <4> QED
        BY <2>1, <2>3, <3>1, <3>2 DEF Settling
    <3> QED
      BY <2>1, <3>1, <3>3, SettleHandler
  <2> QED
    BY <1>7, <2>2, <2>3 DEF SaveOk
<1>8. ASSUME NEW c \in Connections, HistoryDone(c) PROVE SettleInv'
  <2>1. /\ UNCHANGED <<owner, got>> /\ server[c] = "history"
        /\ Conclude(c, SessionFiles(To[c[1]]))
    BY <1>8 DEF HistoryDone
  <2> QED
    BY <2>1, SettleConcludes DEF SessionFiles
<1>9. ASSUME NEW c \in Connections, SaveFails(c) PROVE SettleInv'
  <2> DEFINE t == c[1]
             d == To[t]
  <2>c. t \in Transfers /\ d \in Devices /\ c[2] \in Files
    BY ConnectionParts, <1>t
  <2>1. UNCHANGED owner
    BY <1>9 DEF SaveFails
  <2>2. CASE /\ owner[d] = t /\ got' = [got EXCEPT ![t][c[2]] = "failed"]
             /\ Conclude(c, got'[t])
    <3>1. /\ \A u \in Transfers \ {t} : got'[u] = got[u]
          /\ \A f \in Files \ {c[2]} : got'[t][f] = got[t][f]
          /\ got'[t][c[2]] = "failed"
      BY <2>2, <2>c, <1>t
    <3> QED
      BY <2>1, <2>2, <3>1, SettleConcludes
  <2>3. CASE owner[d] = Nobody /\ got' = got /\ Conclude(c, NotSent)
    BY <2>1, <2>3, <2>c, <1>t, SettleConcludes
  <2>4. CASE /\ owner[d] # t /\ UNCHANGED <<status, got>>
             /\ server' = [server EXCEPT ![c] = "threw"]
    <3>1. \A b \in Connections \ {c} : server'[b] = server[b]
      BY <2>4, <1>t
    <3>2. \A e \in Devices : status[e] \in Uploadable => owner[e] # t
      BY <2>4, <2>c, OneOwner
    <3>3. \A e \in Devices : Settling(e)'
      BY <2>1, <2>4, <3>1, <3>2, SettlingParts, SettlingKept
    <3> QED
      BY <3>3, SettlingParts
  <2> QED
    BY <1>9, <2>2, <2>3, <2>4, <2>c, <1>t DEF SaveFails
<1>10. CASE \/ \E t \in Transfers : SendStep(t) \/ PrepareArrives(t)
            \/ \E c \in Connections : UploadAnswered(c) \/ UploadLost(c) \/ UploadAborted(c)
            \/ \E d \in Devices : ClearAllSessions(d)
            \/ \E m \in cancels : CancelLost(m)
            \/ UNCHANGED vars
  <2>1. ASSUME NEW t \in Transfers, SendStep(t) \/ PrepareArrives(t)
        PROVE  UNCHANGED <<owner, status, got, server>>
    BY <2>1 DEF SendStep, StartSession, PrepareRefused, PrepareAccepted, EnterPin,
         DismissPinDialog, PrepareFails, CancelSend, CancelWaiting, CloseSend, Retry,
         PrepareArrives, receiverVars
  <2>2. ASSUME NEW c \in Connections, UploadAnswered(c) \/ UploadLost(c) \/ UploadAborted(c)
        PROVE  UNCHANGED <<owner, status, got, server>>
    BY <2>2 DEF UploadAnswered, UploadLost, UploadAborted, receiverVars
  <2>3. CASE \/ \E d \in Devices : ClearAllSessions(d)
             \/ \E m \in cancels : CancelLost(m)
             \/ UNCHANGED vars
    <3>1. UNCHANGED <<owner, status, got, server>>
      BY <2>3 DEF ClearAllSessions, CancelLost, vars, receiverVars
    <3> QED
      BY <3>1, <1>1
  <2> QED
    BY <1>10, <2>1, <2>2, <2>3, <1>1
<1> QED
  BY <1>2, <1>3, <1>4, <1>5, <1>6, <1>7, <1>8, <1>9, <1>10
     DEF Next, ReceiveStep, UploadStep

-----------------------------------------------------------------------------
(* The theorems.                                                           *)

\* The initial states satisfy the invariant.
LEMMA InitInv == Init => IndInv
<1> SUFFICES ASSUME Init PROVE IndInv
  OBVIOUS
<1>1. TypeOK
  BY TypeInit
<1>2. OwnerInv
  BY DEF Init, OwnerInv
<1>3. PrepareInv
  BY DEF Init, PrepareInv
<1>4. TokenInv /\ FinishedMeansSaved
  BY DEF Init, TokenInv, FinishedMeansSaved
<1>5. DiskInv
  BY ConnectionParts DEF Init, DiskInv, NotSent
<1>6. UploadInv
  BY ConnectionParts DEF Init, UploadInv, InFlight, NotSent
<1>7. PipelineInv /\ StoredInv /\ SettleInv
  BY DEF Init, PipelineInv, StoredInv, SettleInv, Uploadable
<1> QED
  BY <1>1, <1>2, <1>3, <1>4, <1>5, <1>6, <1>7 DEF IndInv

\* The invariant is inductive: what holds of the receive sessions, of the
\* handlers, of the requests and of the send loop holds after every step of either device.
THEOREM Inductive == Spec => []IndInv
<1>1. IndInv /\ [Next]_vars => IndInv'
  <2> SUFFICES ASSUME IndInv, [Next]_vars PROVE IndInv'
    OBVIOUS
  <2>1. TypeOK'
    BY TypeStep DEF IndInv
  <2>2. UploadInv'
    BY UploadInvStep DEF IndInv
  <2>3. ReceiverInv'
    BY ReceiverInvStep DEF IndInv, ReceiverInv
  <2>4. PipelineInv'
    BY PipelineStep DEF IndInv
  <2>5. StoredInv'
    BY StoredStep DEF IndInv
  <2>6. SettleInv'
    BY SettleStep DEF IndInv
  <2> QED
    BY <2>1, <2>2, <2>3, <2>4, <2>5, <2>6 DEF IndInv, ReceiverInv
<1> QED
  BY <1>1, InitInv, PTL DEF Spec

\* Whatever uploads, retries, failures, replaced and closed sessions have come
\* between, a session the receiver shows as finished has every accepted file
\* on disk (FinishedMeansSaved, the end of _uploadHandler).
THEOREM NothingMissing == Spec => []FinishedMeansSaved
<1>1. IndInv => FinishedMeansSaved
  BY DEF IndInv
<1> QED
  BY <1>1, Inductive, PTL

\* The receiver waits at "sending" only for a file that was not uploaded yet or
\* for a handler that runs (ReceiverSettles): whichever upload or retry of a
\* session ends last completes it.
THEOREM Settles == Spec => []ReceiverSettles
<1>1. IndInv => ReceiverSettles
  <2> SUFFICES ASSUME IndInv, NEW d \in Devices, status[d] = "sending",
                      \A c \in Connections :
                         c[1] = owner[d] => server[c] \notin {"saving", "history"}
               PROVE  \E f \in Files : got[owner[d]][f] = "queue"
    BY DEF ReceiverSettles
  <2>1. owner[d] \in Transfers /\ got[owner[d]] \in [Files -> FileStatus]
    BY DEF IndInv, TypeOK, OwnerInv
  <2>2. ~AllDone(got[owner[d]]) /\ \A f \in Files : got[owner[d]][f] # "sending"
    BY DEF IndInv, SettleInv, Uploadable
  <2> QED
    BY <2>1, <2>2 DEF AllDone, FileStatus
<1> QED
  BY <1>1, Inductive, PTL

\* A send session that came to an end is not brought back (FinalStays): not by
\* the answer to its request, which is only awaited while the session waits or
\* was removed, nor by the upload that ends last, a retry or a cancel.
THEOREM FinalIsFinal == Spec => FinalStays
<1>1. ASSUME IndInv, [Next]_vars, NEW t \in Transfers, session[t] \in Final
      PROVE  session'[t] \in {session[t], "closed"}
  <2>t. /\ session \in [Transfers -> SessionStatus]
        /\ session[t] \notin {"none", "waiting", "sending", "finishedWithErrors"}
    BY <1>1 DEF IndInv, TypeOK, Final
  <2>p. \A u \in Transfers :
           /\ prepare[u] \notin {"idle", "done"} /\ u \notin abandoned
                 => session[u] \in {"waiting", "closed"}
           /\ u \in abandoned => prepare[u] \notin {"idle", "pin", "done"}
    BY <1>1 DEF IndInv, PipelineInv
  <2>1. ASSUME NEW u \in Transfers, SendStep(u) PROVE session'[t] \in {session[t], "closed"}
    <3>1. CASE StartSession(u)
      BY <3>1, <2>t DEF StartSession
    <3>2. CASE PrepareRefused(u)
      <4>1. session[u] \in {"waiting", "closed"}
        BY <3>2, <2>p DEF PrepareRefused
      <4>2. \A v \in Transfers \ {u} : session'[v] = session[v]
        BY <3>2, <2>t DEF PrepareRefused
      <4>3. session[u] = "closed" => session'[u] = "closed"
        BY <3>2, <2>t DEF PrepareRefused, Status
      <4> QED
        BY <4>1, <4>2, <4>3, <2>t
    <3>3. CASE PrepareAccepted(u)
      <4>1. session[u] \in {"waiting", "closed"}
        BY <3>3, <2>p DEF PrepareAccepted
      <4>2. \/ session' = session
            \/ session[u] # "closed" /\ session' = [session EXCEPT ![u] = "sending"]
        BY <3>3 DEF PrepareAccepted, senderVars
      <4> QED
        BY <4>1, <4>2, <2>t
    <3>4. CASE DismissPinDialog(u) \/ PrepareFails(u)
      <4>1. session[u] \in {"waiting", "closed"}
        BY <3>4, <2>p DEF DismissPinDialog, PrepareFails
      <4>2. \E s \in SessionStatus : session' = [session EXCEPT ![u] = Status(u, s)]
        BY <3>4 DEF DismissPinDialog, PrepareFails, SetSession, SessionStatus
      <4> QED
        BY <4>1, <4>2, <2>t DEF Status
    <3>5. CASE EnterPin(u)
      BY <3>5 DEF EnterPin, senderVars
    <3>6. CASE CancelSend(u) \/ CancelWaiting(u) \/ CloseSend(u)
      BY <3>6, <2>t DEF CancelSend, CancelWaiting, CloseSend
    <3>7. ASSUME NEW f \in Files, Retry(u, f) PROVE session'[t] \in {session[t], "closed"}
      BY <3>7, <2>t DEF Retry, Uploadable
    <3> QED
      BY <2>1, <3>1, <3>2, <3>3, <3>4, <3>5, <3>6, <3>7 DEF SendStep
  <2>2. ASSUME NEW c \in Connections, UploadStep(c) PROVE session'[t] \in {session[t], "closed"}
    <3>1. \/ session' = session
          \/ \E result : EndUpload(c, result)
      BY <2>2 DEF UploadStep, UploadAnswered, UploadLost, UploadAborted, UploadArrives,
                  SaveOk, SaveFails, HistoryDone, senderVars
    <3> QED
      BY <3>1, <1>1, <2>t, UploadEndsSession DEF IndInv
  <2>3. ASSUME NEW d \in Devices, ReceiveStep(d) PROVE session'[t] \in {session[t], "closed"}
    BY <2>3 DEF ReceiveStep, Accept, Grant, Dismiss, DelayedClose, CancelReceive,
                LeaveReceive, ClearAllSessions, senderVars
  <2>4. CASE \E m \in cancels : CancelArrives(m)
    BY <2>4, <2>t DEF CancelArrives
  <2>5. CASE \/ \E u \in Transfers : PrepareArrives(u) \/ StoreSession(u)
             \/ \E m \in cancels : CancelLost(m)
             \/ UNCHANGED vars
    BY <2>5 DEF PrepareArrives, StoreSession, CancelLost, vars, senderVars
  <2> QED
    BY <1>1, <2>1, <2>2, <2>3, <2>4, <2>5 DEF Next
<1>2. IndInv /\ [Next]_vars =>
        [\A t \in Transfers :
            session[t] \in Final => session'[t] \in {session[t], "closed"}]_vars
  BY <1>1
<1> QED
  BY <1>2, Inductive, PTL DEF Spec, FinalStays

\* A receive session its sender canceled is left or replaced, and never
\* completed by the uploads that were running (CanceledStaysCanceled): the
\* handler of a request stores no session twice, and every other step that
\* gives a session another state asks for one that waits or takes uploads.
THEOREM CanceledIsFinal == Spec => CanceledStaysCanceled
<1>1. ASSUME IndInv, [Next]_vars, NEW d \in Devices, status[d] = "canceledBySender"
      PROVE  status'[d] \in {"canceledBySender", "none"} \/ owner'[d] # owner[d]
  <2>t. /\ owner \in [Devices -> Transfers \cup {Nobody}]
        /\ status \in [Devices -> ReceiveStatus]
    BY <1>1 DEF IndInv, TypeOK
  <2>u. status[d] \notin Uploadable /\ status[d] \notin {"waiting", "sending"}
    BY <1>1 DEF Uploadable
  <2>1. ASSUME NEW t \in Transfers, StoreSession(t)
        PROVE  status'[d] = status[d] \/ owner'[d] # owner[d]
    <3>1. /\ prepare[t] = "checked" /\ owner' = [owner EXCEPT ![To[t]] = t]
          /\ \A e \in Devices \ {To[t]} : status'[e] = status[e]
      BY <2>1, <2>t DEF StoreSession
    <3>2. owner[d] # t
      BY <1>1, <3>1 DEF IndInv, StoredInv, OwnerInv
    <3> QED
      BY <3>1, <3>2, <2>t
  <2>2. ASSUME NEW c \in Connections, UploadStep(c) PROVE status'[d] = status[d]
    <3>1. CASE UploadArrives(c)
      BY <3>1, <2>t, <2>u DEF UploadArrives
    <3>2. ASSUME NEW files, Conclude(c, files) PROVE status'[d] = status[d]
      BY <3>2, <2>t, <2>u DEF Conclude, Complete
    <3>3. CASE \/ UploadAnswered(c) \/ UploadLost(c) \/ UploadAborted(c) \/ SaveOk(c)
               \/ HistoryDone(c) \/ SaveFails(c)
      <4>1. UNCHANGED status \/ \E files : Conclude(c, files)
        BY <3>3 DEF UploadAnswered, UploadLost, UploadAborted, SaveOk, HistoryDone,
                    SaveFails, receiverVars
      <4> QED
        BY <4>1, <3>2
    <3> QED
      BY <2>2, <3>1, <3>3 DEF UploadStep
  <2>3. ASSUME NEW e \in Devices, ReceiveStep(e)
        PROVE  status'[d] \in {"canceledBySender", "none"}
    <3>1. ASSUME NEW selection \in SUBSET Files, Accept(e, selection)
          PROVE  status'[d] = status[d]
      BY <3>1, <2>t, <2>u DEF Accept, Grant
    <3>2. CASE Dismiss(e) \/ DelayedClose(e) \/ CancelReceive(e) \/ LeaveReceive(e)
      <4>1. CloseReceive(e)
        BY <3>2 DEF Dismiss, DelayedClose, CancelReceive, LeaveReceive
      <4> QED
        BY <4>1, <1>1, <2>t DEF CloseReceive
    <3>3. CASE ClearAllSessions(e)
      BY <3>3, <1>1 DEF ClearAllSessions, receiverVars
    <3> QED
      BY <1>1, <2>3, <3>1, <3>2, <3>3 DEF ReceiveStep
  <2>4. CASE \E m \in cancels : CancelArrives(m)
    <3>1. PICK m \in cancels :
             status' \in {status, [status EXCEPT ![m.to] = "canceledBySender"]}
      BY <2>4 DEF CancelArrives
    <3> QED
      BY <3>1, <1>1, <2>t
  <2>5. CASE \/ \E t \in Transfers : SendStep(t) \/ PrepareArrives(t)
             \/ \E m \in cancels : CancelLost(m)
             \/ UNCHANGED vars
    <3>1. ASSUME NEW t \in Transfers, SendStep(t) \/ PrepareArrives(t)
          PROVE  UNCHANGED status
      BY <3>1 DEF SendStep, StartSession, PrepareRefused, PrepareAccepted, EnterPin,
           DismissPinDialog, PrepareFails, CancelSend, CancelWaiting, CloseSend, Retry,
           PrepareArrives, receiverVars
    <3>2. CASE UNCHANGED vars \/ \E m \in cancels : CancelLost(m)
      BY <3>2, <1>1 DEF CancelLost, vars, receiverVars
    <3> QED
      BY <2>5, <3>1, <3>2, <1>1
  <2> QED
    BY <1>1, <2>1, <2>2, <2>3, <2>4, <2>5 DEF Next
<1>2. IndInv /\ [Next]_vars =>
        [\A d \in Devices :
            status[d] = "canceledBySender" =>
              status'[d] \in {"canceledBySender", "none"} \/ owner'[d] # owner[d]]_vars
  BY <1>1
<1> QED
  BY <1>2, Inductive, PTL DEF Spec, CanceledStaysCanceled

\* The acknowledged files change when an upload ends with "finished".
LEMMA AcknowledgedKept ==
    ASSUME \A t \in Transfers : \A f \in Files :
              sent'[t][f] = "finished" <=> sent[t][f] = "finished"
    PROVE  Acknowledged' = Acknowledged
BY DEF Acknowledged

\* The end of an upload acknowledges its file or nothing.
LEMMA UploadAcknowledges ==
    ASSUME TypeOK, UploadInv, NEW c \in Connections, InFlight(c),
           NEW result \in {"finished", "failed"}, EndUpload(c, result)
    PROVE  \/ Acknowledged' = Acknowledged
           \/ /\ result = "finished"
              /\ Acknowledged' =
                    [Acknowledged EXCEPT ![c[1]] = Acknowledged[c[1]] \cup {c[2]}]
<1> DEFINE t == c[1]
           files == [sent[t] EXCEPT ![c[2]] = result]
<1>t. sent \in [Transfers -> [Files -> FileStatus]] /\ queue \in [Transfers -> SUBSET Files]
  BY DEF TypeOK
<1>c. t \in Transfers /\ c[2] \in Files
  BY ConnectionParts
<1>f. /\ files \in [Files -> FileStatus] /\ files[c[2]] = result
      /\ \A g \in Files : g # c[2] => files[g] = sent[t][g]
  BY <1>t, <1>c DEF FileStatus
<1>s. sent[t][c[2]] = "sending"
  BY DEF UploadInv
<1>1. \/ sent' = sent
      \/ sent' = [sent EXCEPT ![t] = files]
      \/ \E g \in queue[t] : sent' = [sent EXCEPT ![t] = [files EXCEPT ![g] = "sending"]]
  BY DEF EndUpload
<1>2. CASE sent' = sent
  BY <1>2, AcknowledgedKept
<1>3. CASE \/ sent' = [sent EXCEPT ![t] = files]
           \/ \E g \in queue[t] : sent' = [sent EXCEPT ![t] = [files EXCEPT ![g] = "sending"]]
  <2>1. \A g \in queue[t] : g \in Files /\ sent[t][g] = "queue"
    BY <1>t, <1>c DEF UploadInv
  <2> HIDE DEF files, t
  <2>2. \A g \in Files : sent'[t][g] = "finished" <=>
            (sent[t][g] = "finished" \/ (g = c[2] /\ result = "finished"))
    BY <1>3, <1>t, <1>c, <1>f, <1>s, <2>1
  <2>3. \A u \in Transfers : u # t => sent'[u] = sent[u]
    BY <1>3, <1>t, <1>c
  <2>4. CASE result = "failed"
    BY <2>2, <2>3, <2>4, AcknowledgedKept
  <2>5. CASE result = "finished"
    <3>1. Acknowledged' = [u \in Transfers |-> {f \in Files : sent'[u][f] = "finished"}]
      BY DEF Acknowledged
    <3>2. ASSUME NEW u \in Transfers
          PROVE  {f \in Files : sent'[u][f] = "finished"} =
                    IF u = t THEN Acknowledged[u] \cup {c[2]} ELSE Acknowledged[u]
      BY <1>c, <2>2, <2>3, <2>5 DEF Acknowledged
    <3>3. Acknowledged' =
             [u \in Transfers |-> IF u = t THEN Acknowledged[u] \cup {c[2]} ELSE Acknowledged[u]]
      BY <3>1, <3>2
    <3>4. Acknowledged' = [Acknowledged EXCEPT ![t] = Acknowledged[t] \cup {c[2]}]
      BY <3>3 DEF Acknowledged
    <3> QED
      BY <2>5, <3>4 DEF t
  <2> QED
    BY <2>4, <2>5
<1> QED
  BY <1>1, <1>2, <1>3

\* Every step is one of FileTransfer or changes nothing it speaks of.
LEMMA StepImplements ==
    ASSUME IndInv, [Next]_vars
    PROVE  [FT!Next]_(FT!vars)
<1> USE DEF senderVars, receiverVars, diskVars
<1>i. TypeOK /\ PrepareInv /\ OwnerInv /\ DiskInv /\ UploadInv
  BY DEF IndInv
<1>t. /\ sent \in [Transfers -> [Files -> FileStatus]]
      /\ accepted \in [Transfers -> SUBSET Files]
      /\ owner \in [Devices -> Transfers \cup {Nobody}]
  BY <1>i DEF TypeOK
<1>a. sent' = sent => Acknowledged' = Acknowledged
  BY DEF Acknowledged
<1>s. ASSUME UNCHANGED <<sent, accepted, saved>> PROVE UNCHANGED FT!vars
  BY <1>s, <1>a DEF FT!vars
<1>1. ASSUME NEW t \in Transfers, SendStep(t) PROVE UNCHANGED FT!vars
  <2>0. UNCHANGED <<accepted, saved>>
    BY <1>1 DEF SendStep, StartSession, PrepareRefused, PrepareAccepted, EnterPin,
                DismissPinDialog, PrepareFails, CancelSend, CancelWaiting, CloseSend, Retry
  <2>1. CASE PrepareAccepted(t)
    <3>1. sent' = sent \/ \E new \in [Files -> {"sending", "queue", "skipped"}] :
                             sent' = [sent EXCEPT ![t] = new]
      <4>1. CASE session[t] = "closed"
        BY <4>1, <2>1 DEF PrepareAccepted
      <4>2. CASE session[t] # "closed"
        <5>1. PICK batch \in SUBSET granted[t] :
                 sent' = [sent EXCEPT ![t] = [f \in Files |->
                     CASE f \in batch -> "sending"
                       [] f \in granted[t] \ batch -> "queue"
                       [] OTHER -> "skipped"]]
          BY <4>2, <2>1, SMTT(60) DEF PrepareAccepted
        <5> DEFINE new == [f \in Files |->
                     CASE f \in batch -> "sending"
                       [] f \in granted[t] \ batch -> "queue"
                       [] OTHER -> "skipped"]
        <5>2. new \in [Files -> {"sending", "queue", "skipped"}]
          OBVIOUS
        <5> HIDE DEF new
        <5>3. sent' = [sent EXCEPT ![t] = new]
          BY <5>1 DEF new
        <5> QED
          BY <5>2, <5>3
      <4> QED
        BY <4>1, <4>2
    <3>2. \A f \in Files : sent[t][f] = "queue"
      BY <2>1, <1>i DEF PrepareAccepted, UploadInv
    <3>3. \A u \in Transfers : \A f \in Files :
             sent'[u][f] = "finished" <=> sent[u][f] = "finished"
      BY <3>1, <3>2, <1>t
    <3> QED
      BY <2>0, <3>3, AcknowledgedKept DEF FT!vars
  <2>2. ASSUME NEW f \in Files, Retry(t, f) PROVE UNCHANGED FT!vars
    <3>1. sent[t][f] = "failed" /\ sent' = [sent EXCEPT ![t][f] = "sending"]
      BY <2>2 DEF Retry
    <3>2. \A u \in Transfers : \A g \in Files :
             sent'[u][g] = "finished" <=> sent[u][g] = "finished"
      BY <3>1, <1>t
    <3> QED
      BY <2>0, <3>2, AcknowledgedKept DEF FT!vars
  <2>3. CASE \/ StartSession(t) \/ PrepareRefused(t) \/ EnterPin(t) \/ DismissPinDialog(t)
             \/ PrepareFails(t) \/ CancelSend(t) \/ CancelWaiting(t) \/ CloseSend(t)
    BY <2>0, <2>3, <1>s DEF StartSession, PrepareRefused, EnterPin, DismissPinDialog,
                            PrepareFails, CancelSend, CancelWaiting, CloseSend
  <2> QED
    BY <1>1, <2>1, <2>2, <2>3 DEF SendStep
<1>2. ASSUME NEW t \in Transfers, PrepareArrives(t) PROVE UNCHANGED FT!vars
  BY <1>2, <1>s DEF PrepareArrives
<1>3. ASSUME NEW t \in Transfers, StoreSession(t) PROVE FT!Next \/ UNCHANGED FT!vars
  <2>1. accepted[t] = {}
    BY <1>3, <1>i DEF StoreSession, PrepareInv
  <2>2. UNCHANGED <<sent, saved>> /\ (accepted' = accepted \/ accepted' = [accepted EXCEPT ![t] = Files])
    BY <1>3 DEF StoreSession
  <2>3. CASE accepted' = [accepted EXCEPT ![t] = Files]
    <3>1. FT!Accept(t, Files)
      BY <2>1, <2>2, <2>3, <1>a, BoundsAssumption DEF FT!Accept
    <3> QED
      BY <3>1 DEF FT!Next
  <2> QED
    BY <2>2, <2>3, <1>s
<1>4. ASSUME NEW c \in Connections, UploadStep(c) PROVE FT!Next \/ UNCHANGED FT!vars
  <2>a. c[1] \in Transfers /\ c[2] \in Files
    BY ConnectionParts
  <2>1. ASSUME NEW result \in {"finished", "failed"}, InFlight(c), EndUpload(c, result),
               UNCHANGED <<accepted, saved>>, result = "finished" => server[c] = "saved"
        PROVE  FT!Next \/ UNCHANGED FT!vars
    <3>1. CASE Acknowledged' = Acknowledged
      BY <2>1, <3>1 DEF FT!vars
    <3>2. CASE /\ result = "finished"
               /\ Acknowledged' =
                    [Acknowledged EXCEPT ![c[1]] = Acknowledged[c[1]] \cup {c[2]}]
      <4>1. c[2] \in saved[c[1]]
        BY <2>1, <3>2, <1>i DEF DiskInv
      <4>2. FT!Acknowledge(c[1], c[2])
        BY <2>1, <3>2, <4>1 DEF FT!Acknowledge
      <4> QED
        BY <4>2, <2>a DEF FT!Next
    <3> QED
      BY <2>1, <3>1, <3>2, <1>i, UploadAcknowledges
  <2>2. CASE UploadAnswered(c)
    BY <2>1, <2>2 DEF UploadAnswered
  <2>3. CASE UploadLost(c) \/ UploadAborted(c)
    BY <2>1, <2>3 DEF UploadLost, UploadAborted, InFlight
  <2>4. CASE SaveOk(c)
    <3>1. c[2] \in accepted[c[1]]
      BY <2>4, <1>i DEF SaveOk, DiskInv
    <3>2. /\ UNCHANGED <<sent, accepted>>
          /\ saved' = [saved EXCEPT ![c[1]] = saved[c[1]] \cup {c[2]}]
      BY <2>4 DEF SaveOk
    <3>3. FT!Save(c[1], c[2])
      BY <3>1, <3>2, <1>a DEF FT!Save
    <3> QED
      BY <3>3, <2>a DEF FT!Next
  <2>5. CASE UploadArrives(c) \/ SaveFails(c) \/ HistoryDone(c)
    BY <2>5, <1>s DEF UploadArrives, SaveFails, HistoryDone
  <2> QED
    BY <1>4, <2>2, <2>3, <2>4, <2>5 DEF UploadStep
<1>5. ASSUME NEW d \in Devices, ReceiveStep(d) PROVE FT!Next \/ UNCHANGED FT!vars
  <2>1. ASSUME NEW selection \in SUBSET Files, Accept(d, selection)
        PROVE  FT!Next
    <3>1. /\ owner[d] \in Transfers /\ selection # {}
          /\ prepare[owner[d]] = "asked"
          /\ accepted' = [accepted EXCEPT ![owner[d]] = selection]
          /\ UNCHANGED <<sent, saved>>
      BY <2>1, <1>i, <1>t DEF Accept, Grant, OwnerInv
    <3>2. accepted[owner[d]] = {}
      BY <3>1, <1>i DEF PrepareInv
    <3>3. FT!Accept(owner[d], selection)
      BY <3>1, <3>2, <1>a DEF FT!Accept
    <3> QED
      BY <3>1, <3>3 DEF FT!Next
  <2>2. CASE Dismiss(d) \/ DelayedClose(d) \/ CancelReceive(d) \/ LeaveReceive(d)
             \/ ClearAllSessions(d)
    BY <2>2, <1>s DEF Dismiss, DelayedClose, CancelReceive, LeaveReceive, ClearAllSessions
  <2> QED
    BY <1>5, <2>1, <2>2 DEF ReceiveStep
<1>6. ASSUME NEW m \in cancels, CancelArrives(m) \/ CancelLost(m) PROVE UNCHANGED FT!vars
  BY <1>6, <1>s DEF CancelArrives, CancelLost
<1>7. CASE UNCHANGED vars
  BY <1>7, <1>s DEF vars
<1> QED
  BY <1>1, <1>2, <1>3, <1>4, <1>5, <1>6, <1>7 DEF Next

\* A transfer over the LAN keeps the promises of FileTransfer: only what was
\* accepted is written, it is accepted once, and what the sender shows as sent
\* the receiver has, whatever is lost, retried, canceled or replaced.
THEOREM Implements == Spec => ImplementsFileTransfer
<1>1. Init => FT!Init
  <2> SUFFICES ASSUME Init PROVE FT!Init
    OBVIOUS
  <2>1. Acknowledged = [t \in Transfers |-> {}]
    BY DEF Init, Acknowledged, NotSent
  <2> QED
    BY <2>1 DEF Init, FT!Init
<1>2. IndInv /\ [Next]_vars => [FT!Next]_(FT!vars)
  BY StepImplements
<1> QED
  BY <1>1, <1>2, Inductive, PTL DEF Spec, ImplementsFileTransfer, FT!Spec
=============================================================================
