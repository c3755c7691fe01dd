------------------------------- MODULE SendWait --------------------------------
(***************************************************************************)
(* The Send tab: choosing a device from the merged list, waiting for one   *)
(* that is offline (send_provider.dart, _PendingWait), and the sessions'   *)
(* part in keeping their devices listed.                                   *)
(*                                                                         *)
(* A wait is a timer and a subscription to the merged list; the list is    *)
(* recomputed, and its events are delivered, after what they depend on has *)
(* changed.  The transfer from the answer to prepareUpload on is the       *)
(* subject of LanTransfer.                                                 *)
(***************************************************************************)
EXTENDS NearbyDevices

CONSTANTS
    Accounts,           \* the lists of rows the account may have, in order
    CurrentDeviceId, OwnCert, OwnIps,
    Sessions,
    Modes,              \* the send modes the user may choose
    Waits,              \* names for waits, to tell an old one from a new one
    MaxEvents,          \* bound: events of the merged list under way to a wait
    LanLists,           \* lists of devices of the network, of devices of the signaling
    SignaledLists,      \*   server and of rows of the account, of which it is stated
    RowLists            \*   what the merge makes

\* An announcement has one endpoint.
IsLanDevice(d) ==
    /\ d = [alias |-> d.alias, model |-> d.model, http |-> <<d.http[1]>>, sig |-> <<>>]
    /\ d.http[1].cert # Unknown
IsSignaledDevice(d) ==
    d = [alias |-> d.alias, model |-> d.model, http |-> <<>>, sig |-> <<d.sig[1]>>]

ASSUME EventsAssumption == MaxEvents \in Nat
ASSUME ListsAssumption ==
    /\ \A l \in LanLists :
          l \in Seq(ToSet(l)) /\ \A d \in ToSet(l) : IsLanDevice(d)
    /\ \A l \in SignaledLists :
          l \in Seq(ToSet(l)) /\ \A d \in ToSet(l) : IsSignaledDevice(d)
    /\ \A l \in RowLists :
          /\ l \in Seq(ToSet(l)) /\ \A row \in ToSet(l) : row.id # Unknown
          /\ \A i, j \in DOMAIN l : l[i].id = l[j].id => i = j

VARIABLES
    account,    \* the rows of the account, <<>> while it is not ready
    merged,     \* the last value of mergedNetworkDevicesProvider
    sendMode,
    sessions,   \* the state of SendNotifier
    pages,      \* the SendPage of a session, or the ProgressPage after it: "none",
                \* "own" (popping it cancels the session) or "view"
    pending,    \* _pendingWaits: the name of a session's wait, or None
    live,       \* the timers and subscriptions that have not been cancelled
    uploads     \* how many _runUploadPipeline of a session await an answer

sendVars == <<sessions, pages, pending, live, uploads>>
vars == <<nearbyVars, account, merged, sendMode, sendVars>>

None == "none"
NoDevice == [alias |-> Unknown, model |-> Unknown, http |-> <<>>, sig |-> <<>>]
NoSession == [status |-> "none", target |-> NoDevice, stable |-> Unknown,
              background |-> FALSE]

Is(s, statuses) == sessions[s].status \in statuses
Exists(s) == ~Is(s, {"none"})

\* An id no session, wait or request has any more stands for a new one.
Unused(s) == ~Exists(s) /\ pages[s] = "none" /\ uploads[s] = 0
             /\ \A w \in live : w.session # s

\* mergedNetworkDevicesProvider, from what it watches.
SignalingList == FlattenSeq([i \in DOMAIN signalingDevices |-> signalingDevices[i].group])
Merged == MergeNetworkDevices(AllDevices(devices, SignalingList), account,
                              CurrentDeviceId, OwnCert, OwnIps)

\* _readActiveSessionIps, of the sessions that send.
ActiveIps == {FirstIp(sessions[s].target) :
                 s \in {t \in Sessions : Is(t, {"waiting", "sending"})}}

\* The entry of the list a wait for the row is resolved by, or 0.
Reachable(list, stable) ==
    SelectInSeq(list, LAMBDA e : e.cloud = stable /\ HasHttpEndpoint(e.device))

Init ==
    /\ NearbyInit
    /\ account \in Accounts
    /\ merged = MergeNetworkDevices(<<>>, account, CurrentDeviceId, OwnCert, OwnIps)
    /\ sendMode \in Modes
    /\ sessions = [s \in Sessions |-> NoSession]
    /\ pages = [s \in Sessions |-> "none"]
    /\ pending = [s \in Sessions |-> None]
    /\ live = {}
    /\ uploads = [s \in Sessions |-> 0]

-----------------------------------------------------------------------------
\* Waiting.

\* _stopWait
Stopped(s) == {w \in live : w.session = s /\ w.name = pending[s]}
StopWait(s) ==
    /\ live' = live \ Stopped(s)
    /\ pending' = [pending EXCEPT ![s] = None]

\* Of the names a wait may get one is as good as another.
NewWaits(s) ==
    {name \in Waits : \A w \in live \ Stopped(s) : w.session = s => w.name # name}
Fresh(names) == CHOOSE name \in names : TRUE

\* The device is there: the session takes it as its target and uploads.
Resolve(s, session, device) ==
    /\ StopWait(s)
    /\ sessions' = [sessions EXCEPT ![s] =
                       [session EXCEPT !.status = "waiting", !.target = device]]
    /\ uploads' = [uploads EXCEPT ![s] = @ + 1]

\* Mutant: no look at the current list.
StartWaitBlindly(s, session) ==
    /\ NewWaits(s) # {}
    /\ LET name == Fresh(NewWaits(s)) IN
        /\ live' = (live \ Stopped(s)) \cup
                      {[session |-> s, name |-> name, timer |-> TRUE, events |-> <<>>]}
        /\ pending' = [pending EXCEPT ![s] = name]
        /\ sessions' = [sessions EXCEPT ![s] = session]
        /\ UNCHANGED uploads

\* _startWaitForOnline, which ends with a look at the current list.
StartWait(s, session) ==
    LET i == Reachable(merged, session.stable)
    IN \/ /\ i # 0
          /\ Resolve(s, session, merged[i].device)
       \/ /\ i = 0
          /\ NewWaits(s) # {}
          /\ LET name == Fresh(NewWaits(s)) IN
                /\ live' = (live \ Stopped(s)) \cup
                              {[session |-> s, name |-> name,
                                timer |-> TRUE, events |-> <<>>]}
                /\ pending' = [pending EXCEPT ![s] = name]
          /\ sessions' = [sessions EXCEPT ![s] = session]
          /\ UNCHANGED uploads

\* startSession
StartSession(s, device, stable, background) ==
    LET session == [status |-> "waitingForDevice", target |-> device,
                    stable |-> stable, background |-> background]
        Without(status) == sessions' = [sessions EXCEPT ![s] =
                                           [session EXCEPT !.status = status]]
    IN \/ /\ HasHttpEndpoint(device)
          /\ Without("waiting")
          /\ uploads' = [uploads EXCEPT ![s] = @ + 1]
          /\ UNCHANGED <<pending, live>>
       \/ /\ ~HasHttpEndpoint(device) /\ stable = Unknown
          /\ Without("finishedWithErrors")
          /\ UNCHANGED <<pending, live, uploads>>
       \/ /\ ~HasHttpEndpoint(device) /\ stable # Unknown
          /\ StartWait(s, session)

\* Mutant: a session is retried in whatever state it is.
RetryAnyhow(s) ==
    /\ pages[s] # "none" /\ Exists(s)
    /\ StartWait(s, [sessions[s] EXCEPT !.status = "waitingForDevice"])
    /\ UNCHANGED <<nearbyVars, account, merged, sendMode, pages>>

\* retryWaitingSession
Retry(s) ==
    /\ pages[s] # "none"
    /\ Is(s, {"waitingForDeviceTimedOut", "waitingForDevice"})
    /\ StartWait(s, [sessions[s] EXCEPT !.status = "waitingForDevice"])
    /\ UNCHANGED <<nearbyVars, account, merged, sendMode, pages>>

\* An event of the merged list: _onMergedDevicesUpdate.
Deliver(w) ==
    LET s == w.session
        list == Head(w.events)
        i == Reachable(list, sessions[s].stable)
        \* The event is gone; the subscription stays.
        Taken == (live \ {w}) \cup {[w EXCEPT !.events = Tail(@)]}
    IN /\ w.events # <<>>
       /\ \/ /\ ~Exists(s)
             /\ StopWait(s)
             /\ UNCHANGED <<sessions, uploads>>
          \/ /\ Is(s, {"waitingForDevice"}) /\ i # 0
             /\ Resolve(s, sessions[s], list[i].device)
          \/ /\ Exists(s)
             /\ ~(Is(s, {"waitingForDevice"}) /\ i # 0)
             /\ live' = Taken
             /\ UNCHANGED <<sessions, pending, uploads>>
       /\ UNCHANGED <<nearbyVars, account, merged, sendMode, pages>>

\* Mutant: the wait is given up, the session not told.
TimeoutInSilence(w) ==
    /\ w.timer
    /\ StopWait(w.session)
    /\ UNCHANGED <<nearbyVars, account, merged, sendMode, sessions, pages, uploads>>

\* The timer of a wait: _onWaitTimeout.
Timeout(w) ==
    LET s == w.session
    IN /\ w.timer
       /\ \/ /\ Is(s, {"waitingForDevice"})
             /\ StopWait(s)
             /\ sessions' = [sessions EXCEPT ![s].status = "waitingForDeviceTimedOut"]
          \/ /\ ~Is(s, {"waitingForDevice"})
             /\ live' = (live \ {w}) \cup {[w EXCEPT !.timer = FALSE]}
             /\ UNCHANGED <<pending, sessions>>
       /\ UNCHANGED <<nearbyVars, account, merged, sendMode, pages, uploads>>

-----------------------------------------------------------------------------
\* The user.

NoPage == \A s \in Sessions : pages[s] = "none"

\* A tap on a device in single mode opens the page of its session.
TapDevice(s, entry) ==
    /\ sendMode = "single" /\ NoPage /\ Unused(s)
    /\ StartSession(s, entry.device, entry.cloud, FALSE)
    /\ pages' = [pages EXCEPT ![s] = "own"]
    /\ UNCHANGED <<nearbyVars, account, merged, sendMode>>

\* The session a tap in multiple mode is about: that of the same address.
SessionAt(device) ==
    {s \in Sessions : /\ Exists(s) /\ HasHttpEndpoint(device)
                      /\ HasHttpEndpoint(sessions[s].target)
                      /\ FirstIp(sessions[s].target) = FirstIp(device)}

ViewSession(s, entry) ==
    /\ sendMode = "multiple" /\ NoPage
    /\ s \in SessionAt(entry.device)
    /\ Is(s, {"waiting", "sending", "finishedWithErrors"})
    /\ sessions' = [sessions EXCEPT ![s].background = FALSE]
    /\ pages' = [pages EXCEPT ![s] = "view"]
    /\ UNCHANGED <<nearbyVars, account, merged, sendMode, pending, live, uploads>>

\* No session is there, or one that is over and is closed first.  (With
\* several at the address the code takes the first of the map, the model any.)
TapDeviceMulti(s, entry) ==
    LET old == SessionAt(entry.device)
        Others(S) == [t \in Sessions |-> IF t \in S THEN NoSession ELSE sessions[t]]
    IN /\ sendMode = "multiple" /\ NoPage /\ Unused(s)
       /\ \/ old = {} /\ StartSession(s, entry.device, entry.cloud, TRUE)
          \/ \E t \in old :
                /\ Is(t, {"declined", "finished"})
                /\ sessions' = [Others({t}) EXCEPT ![s] =
                      [status |-> "waiting", target |-> entry.device,
                       stable |-> entry.cloud, background |-> TRUE]]
                /\ uploads' = [uploads EXCEPT ![s] = @ + 1]
                /\ UNCHANGED <<pending, live>>
       /\ UNCHANGED <<nearbyVars, account, merged, sendMode, pages>>

\* Cancel, Close and leaving the page by cancelWaitingSession; a page that was
\* only opened to view the session puts it back into the background.
LeavePage(s, cancels) ==
    /\ pages[s] # "none"
    /\ pages[s] = "own" => cancels
    /\ pages' = [pages EXCEPT ![s] = "none"]
    /\ IF cancels
       THEN /\ StopWait(s)
            /\ sessions' = [sessions EXCEPT ![s] = NoSession]
       ELSE /\ sessions' = IF Exists(s)
                           THEN [sessions EXCEPT ![s].background = TRUE]
                           ELSE sessions
            /\ UNCHANGED <<pending, live>>
    /\ UNCHANGED <<nearbyVars, account, merged, sendMode, uploads>>

\* The buttons of a progress page that is not the session's own.
CloseSession(s) ==
    /\ Is(s, {"sending", "finished", "finishedWithErrors"})
    /\ pages[s] = "none"
    /\ StopWait(s)
    /\ sessions' = [sessions EXCEPT ![s] = NoSession]
    /\ UNCHANGED <<nearbyVars, account, merged, sendMode, pages, uploads>>

\* Mutant: the waits of the sessions are left alone.
SetSendModeOnly(mode) ==
    /\ NoPage
    /\ sendMode' = mode
    /\ sessions' = [s \in Sessions |-> IF mode # "multiple" THEN NoSession
                                       ELSE sessions[s]]
    /\ UNCHANGED <<nearbyVars, account, merged, pages, uploads, live, pending>>

\* onTapSendMode: a mode other than multiple closes every session.
SetSendMode(mode) ==
    /\ NoPage
    /\ sendMode' = mode
    /\ IF mode # "multiple"
       THEN /\ live' = live \ UNION {Stopped(s) : s \in Sessions}
            /\ pending' = [s \in Sessions |-> None]
            /\ sessions' = [s \in Sessions |-> NoSession]
       ELSE UNCHANGED <<live, pending, sessions>>
    /\ UNCHANGED <<nearbyVars, account, merged, pages, uploads>>

-----------------------------------------------------------------------------
\* The receiver's answer to prepareUpload, and the end of the transfer.
Answer(s, status) ==
  LET foreground == Exists(s) /\ ~sessions[s].background
      leaves == /\ foreground
                /\ status = "nothingSelected" \/ (status = "sending" /\ pages[s] = "view")
  IN
    /\ uploads[s] > 0
    /\ uploads' = [uploads EXCEPT ![s] = @ - 1]
    /\ sessions' = [sessions EXCEPT ![s] =
          IF ~Exists(s) \/ status = "nothingSelected" THEN NoSession
          ELSE [sessions[s] EXCEPT !.status = status,
                                   !.background = @ \/ leaves]]
    /\ pages' = [pages EXCEPT ![s] = IF leaves THEN "none" ELSE @]
    /\ IF status = "nothingSelected" THEN StopWait(s) ELSE UNCHANGED <<pending, live>>
    /\ UNCHANGED <<nearbyVars, account, merged, sendMode>>

\* _finish: a session in the background that has succeeded closes itself.
Finish(s, hasError) ==
    /\ Is(s, {"sending"})
    /\ IF ~hasError /\ sessions[s].background
       THEN /\ StopWait(s)
            /\ sessions' = [sessions EXCEPT ![s] = NoSession]
       ELSE /\ sessions' = [sessions EXCEPT ![s].status =
                              IF hasError THEN "finishedWithErrors" ELSE "finished"]
            /\ UNCHANGED <<pending, live>>
    /\ UNCHANGED <<nearbyVars, account, merged, sendMode, pages, uploads>>

-----------------------------------------------------------------------------
\* What the list depends on.

AccountChanges(rows) ==
    /\ account' = rows
    /\ UNCHANGED <<nearbyVars, merged, sendMode, sendVars>>

\* The view is rebuilt, and every subscription gets an event.
Rebuild ==
    /\ merged # Merged
    /\ \A w \in live : Len(w.events) < MaxEvents
    /\ merged' = Merged
    /\ live' = {[w EXCEPT !.events = Append(@, Merged)] : w \in live}
    /\ UNCHANGED <<nearbyVars, account, sendMode, sessions, pages, pending, uploads>>

Nearby ==
    /\ \/ \E d \in Announcements : RegisterDevice(d)
       \/ \E d \in SignalingAnnouncements : RegisterSignalingDevice(d)
       \/ \E d \in SignalingAnnouncements : UnregisterSignalingDevice(d.sig[1].id)
       \/ \E r \in Rounds : StartProbes(r, ActiveIps)
       \/ \E r \in Rounds, d \in Announcements : ProbeAnswered(r, d)
       \/ \E r \in Rounds : EndProbes(r)
    /\ UNCHANGED <<account, merged, sendMode, sendVars>>

User ==
    \/ \E s \in Sessions, entry \in ToSet(merged) :
          \/ TapDevice(s, entry)
          \/ TapDeviceMulti(s, entry)
          \/ ViewSession(s, entry)
    \/ \E s \in Sessions : Retry(s) \/ CloseSession(s)
    \/ \E s \in Sessions, cancels \in BOOLEAN : LeavePage(s, cancels)
    \/ \E mode \in Modes : SetSendMode(mode)

Next ==
    \/ Nearby
    \/ User
    \/ \E w \in live : Deliver(w) \/ Timeout(w)
    \/ \E s \in Sessions, status \in {"sending", "declined", "finishedWithErrors",
                                      "nothingSelected"} : Answer(s, status)
    \/ \E s \in Sessions, hasError \in BOOLEAN : Finish(s, hasError)
    \/ \E rows \in Accounts : AccountChanges(rows)
    \/ Rebuild

Spec == Init /\ [][Next]_vars

\* A timer fires; the poller probes and a round of probes ends.  Neither the
\* user nor the network has to do anything.
Fairness ==
    /\ \A s \in Sessions :
          WF_vars(\E w \in live : w.session = s /\ Timeout(w))
    /\ WF_vars(StartProbes(Poller, ActiveIps)
               /\ UNCHANGED <<account, merged, sendMode, sendVars>>)
    /\ \A r \in Rounds :
          WF_vars(EndProbes(r) /\ UNCHANGED <<account, merged, sendMode, sendVars>>)
FairSpec == Spec /\ Fairness

-----------------------------------------------------------------------------
\* Properties.

Statuses == {"none", "waitingForDevice", "waitingForDeviceTimedOut", "waiting",
             "sending", "declined", "finished", "finishedWithErrors"}
IsSession(r) ==
    r \in [status : Statuses, target : {r.target}, stable : {r.stable},
           background : BOOLEAN]
IsWait(w) ==
    /\ w \in [session : Sessions, name : Waits, timer : BOOLEAN, events : {w.events}]
    /\ w.events \in Seq(ToSet(w.events)) /\ Len(w.events) <= MaxEvents

\* The type invariant.  A target is whatever the merged list has.
TypeOK ==
    /\ account \in Accounts
    /\ sendMode \in Modes
    /\ sessions = [s \in Sessions |-> sessions[s]]
    /\ \A s \in Sessions : IsSession(sessions[s])
    /\ pages \in [Sessions -> {"none", "own", "view"}]
    /\ pending \in [Sessions -> Waits \cup {None}]
    /\ uploads \in [Sessions -> Nat]
    /\ \A w \in live : IsWait(w)

\* A session that waits has one timer and one subscription, those of its latest
\* wait, and no other session has any: through Retry, Cancel, closing, timeouts
\* and the appearance of the device no timer is left to end a later wait early
\* and no subscription to start an upload for a session that is gone
\* (_startWaitForOnline, _stopWait, _onWaitTimeout, clearAllSessions).
OwnWait ==
    \A s \in Sessions :
        LET own == {w \in live : w.session = s}
        IN IF Is(s, {"waitingForDevice"})
           THEN \E w \in own : own = {w} /\ w.name = pending[s] /\ w.timer
           ELSE own = {} /\ pending[s] = None

\* A device that is in the list when, or after, its session began to wait is
\* noticed: the session is resolved, or the event that resolves it is under way
\* (_startWaitForOnline subscribes and then looks at the list).
NoLostWakeup ==
    \A w \in live :
        LET stable == sessions[w.session].stable
        IN Reachable(merged, stable) # 0 =>
               \E list \in ToSet(w.events) : Reachable(list, stable) # 0

\* However often the list reports the device, a session asks its receiver once,
\* and while it asks, it shows that (_onMergedDevicesUpdate, startSession).
OneUpload ==
    \A s \in Sessions :
        /\ uploads[s] <= 1
        /\ Exists(s) /\ uploads[s] = 1 => Is(s, {"waiting"})

\* The inductive invariant.
IndInv ==
    /\ TypeOK
    /\ OwnWait
    /\ OneUpload
    /\ NoLostWakeup

\* Every wait comes to an end (the timer of _startWaitForOnline).
WaitsEnd ==
    \A s \in Sessions : Is(s, {"waitingForDevice"}) ~> ~Is(s, {"waitingForDevice"})

\* A device that has gone is taken off the list for good: unless it is heard of,
\* or has a session, again and again, rounds that overlap notwithstanding
\* (ProbeAndPruneKnownDevicesAction, StartNearbyDevicesPoller).
GoneDevicesLeave ==
    \A d \in Announcements :
        \/ <>[](FirstIp(d) \notin KnownIps(devices))
        \/ []<>(FirstIp(d) \in ActiveIps)
        \/ []<><<\E o \in Announcements :
                    /\ FirstIp(o) = FirstIp(d)
                    /\ \/ RegisterDevice(o)
                       \/ \E r \in Rounds : ProbeAnswered(r, o)>>_vars

-----------------------------------------------------------------------------
(* What the merge promises, whether the state has these lists or not.      *)
(* Init => has TLC evaluate it once, not in every state.                   *)

Shown(network) == {d \in ToSet(network) : Listed(d, OwnCert, OwnIps)}
OtherRows(rows) == {row \in ToSet(rows) : IsOther(row, CurrentDeviceId, OwnCert)}
MergeOf(network, rows) ==
    MergeNetworkDevices(network, rows, CurrentDeviceId, OwnCert, OwnIps)

IsEntryOf(entry, d) ==
    entry.reachable /\ entry.device.http = d.http /\ entry.device.sig = d.sig
IsOfflineEntryOf(entry, row) ==
    /\ ~entry.reachable /\ entry.cloud = row.id
    /\ ~HasAnyEndpoint(entry.device)

\* Nothing is lost in the merge and nothing is listed twice: every device of the
\* network and every other row of the account is in exactly one entry, no
\* certificate in two, and there is no other entry; who is offline in the list
\* has no endpoint (mergeNetworkDevices, allDevices).
EveryDeviceOnce ==
    Init => \A lan \in LanLists, sig \in SignaledLists, rows \in RowLists :
        LET network == AllDevices(lan, sig)
            entries == MergeOf(network, rows)
        IN /\ \A row \in OtherRows(rows) :
                 Cardinality({i \in DOMAIN entries : entries[i].cloud = row.id}) = 1
           /\ \A d \in Shown(network) :
                 Cardinality({i \in DOMAIN entries : IsEntryOf(entries[i], d)}) = 1
           /\ \A i, j \in DOMAIN entries :
                 CertHashes(entries[i].device) \cap CertHashes(entries[j].device) # {}
                    => i = j
           /\ \A i \in DOMAIN entries :
                 \/ \E d \in Shown(network) : IsEntryOf(entries[i], d)
                 \/ \E row \in OtherRows(rows) : IsOfflineEntryOf(entries[i], row)

\* A row of the account is kept from its own device only by another row with
\* the device's name, or with the same certificate (mergeNetworkDevices).
TwinLostToName ==
    Init => \A lan \in LanLists, sig \in SignaledLists, rows \in RowLists :
        LET network == AllDevices(lan, sig)
            entries == MergeOf(network, rows)
        IN \A row \in OtherRows(rows), d \in Shown(network) :
              row.fp \in CertHashes(d) =>
              \/ \E e \in ToSet(entries) : e.cloud = row.id /\ e.device.http = d.http
              \/ \E other \in OtherRows(rows) \ {row} :
                    other.fp = row.fp \/ other.name = d.alias
=============================================================================
