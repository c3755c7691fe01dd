---------------------------- MODULE SendWait_proofs ----------------------------
(***************************************************************************)
(* Proofs about SendWait, for any number of sessions, devices and rows of  *)
(* the account, and whatever the merge makes of them: a session that waits *)
(* has one wait, of its own, asks its receiver once, and notices a device  *)
(* that appears.  Then, for lists of any length, what the merge itself     *)
(* makes of devices and rows: nothing is lost and nothing listed twice.    *)
(***************************************************************************)
EXTENDS SendWait, FiniteSetTheorems, TLAPS

-----------------------------------------------------------------------------
(* Lemmas about sequences, and about the records of the state.             *)

\* A sequence is one of the elements it has.
LEMMA OfItsElements ==
    ASSUME NEW S, NEW q \in Seq(S)
    PROVE  q \in Seq(ToSet(q))
<1>1. q = [i \in 1..Len(q) |-> q[i]] /\ Len(q) \in Nat
  OBVIOUS
<1>2. \A i \in 1..Len(q) : q[i] \in ToSet(q)
  BY DEF ToSet
<1> HIDE DEF ToSet
<1> QED
  BY <1>1, <1>2

\* What a sequence has once an event is appended to it.
LEMMA Appended ==
    ASSUME NEW q, q \in Seq(ToSet(q)), NEW e
    PROVE  /\ Append(q, e) \in Seq(ToSet(Append(q, e)))
           /\ ToSet(Append(q, e)) = ToSet(q) \cup {e}
           /\ Len(Append(q, e)) = Len(q) + 1
<1> DEFINE S == ToSet(q) \cup {e}
<1>1. q \in Seq(S) /\ e \in S
  BY DEF ToSet
<1>2. /\ Append(q, e) \in Seq(S)
      /\ Len(Append(q, e)) = Len(q) + 1
      /\ \A i \in 1..Len(q) : Append(q, e)[i] = q[i]
      /\ Append(q, e)[Len(q) + 1] = e
  BY <1>1
<1>3. ToSet(Append(q, e)) = S
  BY <1>1, <1>2 DEF ToSet
<1> QED
  BY <1>2, <1>3

\* What is left of it without its head.
LEMMA Taken ==
    ASSUME NEW q, q \in Seq(ToSet(q)), q # <<>>
    PROVE  /\ Tail(q) \in Seq(ToSet(Tail(q)))
           /\ ToSet(q) = {Head(q)} \cup ToSet(Tail(q))
           /\ Len(Tail(q)) = Len(q) - 1
<1>1. /\ Len(q) \in Nat /\ Len(q) > 0
      /\ Tail(q) \in Seq(ToSet(q)) /\ Len(Tail(q)) = Len(q) - 1
      /\ \A i \in 1..(Len(q) - 1) : Tail(q)[i] = q[i + 1]
      /\ DOMAIN Tail(q) = 1..(Len(q) - 1)
      /\ Head(q) = q[1]
  OBVIOUS
<1>2. Tail(q) \in Seq(ToSet(Tail(q)))
  BY <1>1, OfItsElements
<1>3. \A x : x \in ToSet(Tail(q)) <=> \E i \in 2..Len(q) : x = q[i]
  <2>1. \A x : x \in ToSet(Tail(q)) <=> \E i \in 1..(Len(q) - 1) : x = q[i + 1]
    BY <1>1 DEF ToSet
  <2>2. /\ \A i \in 2..Len(q) : i - 1 \in 1..(Len(q) - 1) /\ q[(i - 1) + 1] = q[i]
        /\ \A i \in 1..(Len(q) - 1) : i + 1 \in 2..Len(q)
    BY <1>1
  <2> QED
    BY <2>1, <2>2
<1>4. \A x : x \in ToSet(q) <=> x = q[1] \/ \E i \in 2..Len(q) : x = q[i]
  BY <1>1 DEF ToSet
<1> QED
  BY <1>1, <1>2, <1>3, <1>4

\* copyWith of a session.
LEMMA SessionFields ==
    ASSUME NEW r, IsSession(r), NEW status \in Statuses, NEW background \in BOOLEAN,
           NEW device
    PROVE  /\ IsSession([r EXCEPT !.status = status])
           /\ [r EXCEPT !.status = status].status = status
           /\ [r EXCEPT !.status = status].stable = r.stable
           /\ IsSession([r EXCEPT !.status = status, !.target = device])
           /\ [r EXCEPT !.status = status, !.target = device].status = status
           /\ IsSession([r EXCEPT !.background = background])
           /\ [r EXCEPT !.background = background].status = r.status
           /\ [r EXCEPT !.background = background].stable = r.stable
           /\ IsSession([r EXCEPT !.status = status, !.background = background])
           /\ [r EXCEPT !.status = status, !.background = background].status = status
<1> DEFINE R == [status : Statuses, target : {r.target}, stable : {r.stable},
                 background : BOOLEAN]
<1>1. r \in R
  BY DEF IsSession
<1>2. /\ [r EXCEPT !.status = status] \in R
      /\ [r EXCEPT !.background = background] \in R
      /\ [r EXCEPT !.status = status, !.background = background] \in R
      /\ [r EXCEPT !.status = status, !.target = device] \in
           [status : Statuses, target : {device}, stable : {r.stable},
            background : BOOLEAN]
  BY <1>1
<1>3. \A q \in R : q.target = r.target /\ q.stable = r.stable
  OBVIOUS
<1>4. \A q \in [status : Statuses, target : {device}, stable : {r.stable},
                background : BOOLEAN] : q.target = device /\ q.stable = r.stable
  OBVIOUS
<1>5. /\ [r EXCEPT !.status = status].status = status
      /\ [r EXCEPT !.background = background].status = r.status
      /\ [r EXCEPT !.status = status, !.background = background].status = status
      /\ [r EXCEPT !.status = status, !.target = device].status = status
  BY <1>1
<1> QED
  BY <1>2, <1>3, <1>4, <1>5 DEF IsSession

\* What a wait is after an event, and after its timer.
LEMMA WaitFields ==
    ASSUME NEW w, IsWait(w), NEW list
    PROVE  /\ [w EXCEPT !.events = list].session = w.session
           /\ [w EXCEPT !.events = list].name = w.name
           /\ [w EXCEPT !.events = list].timer = w.timer
           /\ [w EXCEPT !.events = list].events = list
           /\ list \in Seq(ToSet(list)) /\ Len(list) <= MaxEvents
                 => IsWait([w EXCEPT !.events = list])
BY DEF IsWait

\* A session that is not there.
LEMMA EmptySession ==
    IsSession(NoSession) /\ NoSession.status = "none"
BY DEF NoSession, IsSession, Statuses

-----------------------------------------------------------------------------
(* The invariant of one session, and of one wait.                          *)

\* The timers and subscriptions of a session.
Own(s) == {w \in live : w.session = s}

\* What TypeOK, OwnWait and OneUpload say of a session.
SessionInv(s) ==
    /\ IsSession(sessions[s])
    /\ pending[s] \in Waits \cup {None} /\ uploads[s] \in Nat
    /\ IF Is(s, {"waitingForDevice"})
       THEN \E w \in Own(s) : Own(s) = {w} /\ w.name = pending[s] /\ w.timer
       ELSE Own(s) = {} /\ pending[s] = None
    /\ uploads[s] <= 1
    /\ Exists(s) /\ uploads[s] = 1 => Is(s, {"waiting"})

\* What TypeOK and NoLostWakeup say of a wait whose session has this row.
WaitInv(w, stable) ==
    /\ IsWait(w)
    /\ Reachable(merged, stable) # 0 =>
          \E list \in ToSet(w.events) : Reachable(list, stable) # 0

\* The rest of TypeOK.
Functions ==
    /\ account \in Accounts /\ sendMode \in Modes
    /\ sessions = [s \in Sessions |-> sessions[s]]
    /\ pages \in [Sessions -> {"none", "own", "view"}]
    /\ pending = [s \in Sessions |-> pending[s]]
    /\ uploads = [s \in Sessions |-> uploads[s]]

\* The invariant, session by session and wait by wait, and that after a step.
LEMMA Parts ==
    IndInv <=> /\ Functions
               /\ \A s \in Sessions : SessionInv(s)
               /\ \A w \in live : WaitInv(w, sessions[w.session].stable)
<1>1. IndInv => /\ Functions
                /\ \A s \in Sessions : SessionInv(s)
                /\ \A w \in live : WaitInv(w, sessions[w.session].stable)
  BY DEF IndInv, TypeOK, OwnWait, OneUpload, NoLostWakeup, Functions, SessionInv, WaitInv, Own
<1>2. ASSUME Functions, \A s \in Sessions : SessionInv(s),
             \A w \in live : WaitInv(w, sessions[w.session].stable)
      PROVE  IndInv
  <2>1. TypeOK
    BY <1>2 DEF TypeOK, Functions, SessionInv, WaitInv
  <2>2. OwnWait /\ OneUpload
    BY <1>2 DEF OwnWait, OneUpload, SessionInv, Own
  <2>3. NoLostWakeup
    BY <1>2 DEF NoLostWakeup, WaitInv
  <2> QED
    BY <2>1, <2>2, <2>3 DEF IndInv
<1> QED
  BY <1>1, <1>2

LEMMA PartsNext ==
    IndInv' <=> /\ Functions'
                /\ (\A s \in Sessions : SessionInv(s))'
                /\ (\A w \in live : WaitInv(w, sessions[w.session].stable))'
BY Parts, PTL

\* Stopping the wait of a session stops all there are of it.
LEMMA StopsAll ==
    ASSUME IndInv, NEW s \in Sessions
    PROVE  Stopped(s) = Own(s)
BY Parts DEF SessionInv, Own, Stopped

\* A session that is left alone.
LEMMA SessionKept ==
    ASSUME NEW s \in Sessions, SessionInv(s),
           sessions'[s] = sessions[s], pending'[s] = pending[s],
           uploads'[s] = uploads[s], Own(s)' = Own(s)
    PROVE  SessionInv(s)'
BY DEF SessionInv, Is, Exists

\* A session without a wait that does not upload, or waits for the answer.
LEMMA SessionAtRest ==
    ASSUME NEW s \in Sessions, IsSession(sessions'[s]),
           Own(s)' = {}, pending'[s] = None, ~Is(s, {"waitingForDevice"})',
           uploads'[s] \in {0, 1},
           uploads'[s] = 1 => sessions'[s].status \in {"none", "waiting"}
    PROVE  SessionInv(s)'
BY DEF SessionInv, Is, Exists

\* Nothing but one session and its waits has changed.
LEMMA OneSession ==
    ASSUME IndInv, NEW s \in Sessions, UNCHANGED <<account, merged>>, Functions',
           \A u \in Sessions \ {s} :
              /\ sessions'[u] = sessions[u] /\ pending'[u] = pending[u]
              /\ uploads'[u] = uploads[u] /\ Own(u)' = Own(u),
           \A w \in live' : w.session \in Sessions,
           SessionInv(s)',
           \A w \in Own(s)' : WaitInv(w, sessions'[s].stable)
    PROVE  IndInv'
<1>1. \A u \in Sessions : SessionInv(u)'
  BY Parts, SessionKept
<1>2. \A w \in live' : WaitInv(w, sessions'[w.session].stable)
  <2> TAKE w \in live'
  <2>1. CASE w.session = s
    <3>1. w \in Own(s)'
      BY <2>1 DEF Own
    <3> QED
      BY <2>1, <3>1
  <2>2. CASE w.session # s
    <3>1. w \in Own(w.session)' /\ w.session \in Sessions
      BY DEF Own
    <3>2. w \in live
      BY <2>2, <3>1 DEF Own
    <3> QED
      BY <2>2, <3>1, <3>2, Parts
  <2> QED
    BY <2>1, <2>2
<1>3. (\A w \in live : WaitInv(w, sessions[w.session].stable))'
  BY <1>2 DEF WaitInv
<1> QED
  BY <1>1, <1>3, PartsNext

-----------------------------------------------------------------------------
(* What happens to one session.                                            *)

\* What an action of one session leaves to the others.
Apart ==
    /\ UNCHANGED <<account, merged>> /\ sendMode' \in Modes
    /\ pages' \in [Sessions -> {"none", "own", "view"}]

\* The wait of a session is over, if it had one.
LEMMA Ends ==
    ASSUME IndInv, Apart, NEW s \in Sessions, StopWait(s),
           NEW r, IsSession(r), r.status # "waitingForDevice",
           sessions' = [sessions EXCEPT ![s] = r],
           NEW n \in {0, 1}, uploads' = [uploads EXCEPT ![s] = n],
           n = 1 => r.status \in {"none", "waiting"}
    PROVE  IndInv'
<1>1. Functions
  BY Parts
<1>2. /\ live' = live \ Own(s) /\ pending' = [pending EXCEPT ![s] = None]
      /\ \A w \in live : w.session \in Sessions
  BY StopsAll, Parts DEF StopWait, WaitInv, IsWait
<1>3. /\ sessions'[s] = r /\ pending'[s] = None /\ uploads'[s] = n
      /\ \A u \in Sessions \ {s} :
            /\ sessions'[u] = sessions[u] /\ pending'[u] = pending[u]
            /\ uploads'[u] = uploads[u] /\ Own(u)' = Own(u)
      /\ Own(s)' = {}
  BY <1>1, <1>2 DEF Functions, Own
<1>4. Functions'
  BY <1>1, <1>2 DEF Functions, Apart
<1>5. SessionInv(s)'
  BY <1>3, SessionAtRest DEF Is
<1> QED
  BY <1>2, <1>3, <1>4, <1>5, OneSession DEF Apart

\* A session that has no wait changes.
LEMMA Changes ==
    ASSUME IndInv, Apart, NEW s \in Sessions, UNCHANGED <<pending, live>>,
           ~Is(s, {"waitingForDevice"}),
           NEW r, IsSession(r), r.status # "waitingForDevice",
           sessions' = [sessions EXCEPT ![s] = r],
           NEW n \in {0, 1}, uploads' = [uploads EXCEPT ![s] = n],
           n = 1 => r.status \in {"none", "waiting"}
    PROVE  IndInv'
<1>1. Functions /\ SessionInv(s) /\ Own(s) = {} /\ pending[s] = None
      /\ \A w \in live : w.session \in Sessions
  BY Parts DEF SessionInv, WaitInv, IsWait
<1>3. /\ sessions'[s] = r /\ pending'[s] = None /\ uploads'[s] = n
      /\ \A u \in Sessions \ {s} :
            /\ sessions'[u] = sessions[u] /\ pending'[u] = pending[u]
            /\ uploads'[u] = uploads[u] /\ Own(u)' = Own(u)
      /\ Own(s)' = {}
  BY <1>1 DEF Functions, Own
<1>4. Functions'
  BY <1>1 DEF Functions, Apart
<1>5. SessionInv(s)'
  BY <1>3, SessionAtRest DEF Is
<1> QED
  BY <1>1, <1>3, <1>4, <1>5, OneSession DEF Apart

\* A session of a device that is in the list asks its receiver.
LEMMA Resolves ==
    ASSUME IndInv, Apart, NEW s \in Sessions, uploads[s] = 0,
           NEW session, IsSession(session), NEW device, Resolve(s, session, device)
    PROVE  IndInv'
<1> DEFINE r == [session EXCEPT !.status = "waiting", !.target = device]
<1>1. IsSession(r) /\ r.status = "waiting"
  <2>1. session \in [status : Statuses, target : {session.target},
                     stable : {session.stable}, background : BOOLEAN]
    BY DEF IsSession
  <2>2. r \in [status : Statuses, target : {device}, stable : {session.stable},
               background : BOOLEAN] /\ r.status = "waiting"
    BY <2>1 DEF Statuses
  <2> HIDE DEF r
  <2> QED
    BY <2>2 DEF IsSession
<1>2. /\ StopWait(s) /\ sessions' = [sessions EXCEPT ![s] = r]
      /\ uploads' = [uploads EXCEPT ![s] = 1]
  BY DEF Resolve
<1> HIDE DEF r
<1> QED
  BY <1>1, <1>2, Ends

\* A wait begins.
LEMMA Waiting ==
    ASSUME IndInv, Apart, NEW s \in Sessions, uploads[s] = 0,
           NEW session, IsSession(session), session.status = "waitingForDevice",
           StartWait(s, session)
    PROVE  IndInv'
<1> DEFINE i == Reachable(merged, session.stable)
<1>1. CASE i # 0 /\ Resolve(s, session, merged[i].device)
  BY <1>1, Resolves
<1>2. CASE i = 0 /\ NewWaits(s) # {}
  <2> DEFINE name == Fresh(NewWaits(s))
             new == [session |-> s, name |-> name, timer |-> TRUE, events |-> <<>>]
  <2>1. /\ live' = (live \ Own(s)) \cup {new}
        /\ pending' = [pending EXCEPT ![s] = name]
        /\ sessions' = [sessions EXCEPT ![s] = session]
        /\ UNCHANGED uploads
    BY <1>2, StopsAll, Zenon DEF StartWait, Resolve
  <2>2. name \in Waits
    BY <1>2 DEF Fresh, NewWaits
  <2>3. IsWait(new) /\ new.session = s /\ new.timer /\ new.name = name
    <3>1. <<>> \in Seq(ToSet(<<>>)) /\ Len(<<>>) = 0
      BY DEF ToSet
    <3> HIDE DEF name
    <3> QED
      BY <2>2, <3>1, EventsAssumption DEF IsWait
  <2> HIDE DEF new, name
  <2>4. Functions /\ \A w \in live : w.session \in Sessions
    BY Parts DEF WaitInv, IsWait
  <2>5. /\ sessions'[s] = session /\ pending'[s] = name /\ uploads'[s] = 0
        /\ \A u \in Sessions \ {s} :
              /\ sessions'[u] = sessions[u] /\ pending'[u] = pending[u]
              /\ uploads'[u] = uploads[u] /\ Own(u)' = Own(u)
        /\ Own(s)' = {new}
    BY <2>1, <2>3, <2>4 DEF Functions, Own
  <2>6. Functions'
    BY <2>1, <2>4 DEF Functions, Apart
  <2>7. SessionInv(s)'
    BY <2>2, <2>3, <2>5 DEF SessionInv, Is, Exists
  <2>8. WaitInv(new, session.stable)
    BY <1>2, <2>3 DEF WaitInv
  <2>9. \A w \in live' : w.session \in Sessions
    BY <2>1, <2>3, <2>4
  <2> QED
    BY <2>5, <2>6, <2>7, <2>8, <2>9, OneSession DEF Apart
<1> QED
  BY <1>1, <1>2 DEF StartWait

\* A new session of a device, or of a row of the account.
LEMMA Starts ==
    ASSUME IndInv, Apart, NEW s \in Sessions, Unused(s), NEW device, NEW stable,
           NEW background \in BOOLEAN, StartSession(s, device, stable, background)
    PROVE  IndInv'
<1> DEFINE session == [status |-> "waitingForDevice", target |-> device,
                       stable |-> stable, background |-> background]
           asks == [session EXCEPT !.status = "waiting"]
           fails == [session EXCEPT !.status = "finishedWithErrors"]
<1>1. /\ IsSession(session) /\ session.status = "waitingForDevice"
      /\ IsSession(asks) /\ asks.status = "waiting"
      /\ IsSession(fails) /\ fails.status = "finishedWithErrors"
  BY DEF IsSession, Statuses
<1>2. uploads[s] = 0 /\ ~Is(s, {"waitingForDevice"}) /\ uploads = [uploads EXCEPT ![s] = 0]
  <2>1. Functions
    BY Parts
  <2> QED
    BY <2>1 DEF Unused, Exists, Is, Functions
<1> HIDE DEF session, asks, fails
<1>3. CASE /\ sessions' = [sessions EXCEPT ![s] = asks]
           /\ uploads' = [uploads EXCEPT ![s] = @ + 1]
           /\ UNCHANGED <<pending, live>>
  <2>1. uploads' = [uploads EXCEPT ![s] = 1]
    BY <1>2, <1>3
  <2> QED
    BY <1>1, <1>2, <1>3, <2>1, Changes
<1>4. CASE /\ sessions' = [sessions EXCEPT ![s] = fails]
           /\ UNCHANGED <<pending, live, uploads>>
  <2>1. uploads' = [uploads EXCEPT ![s] = 0]
    BY <1>2, <1>4
  <2>2. IsSession(fails) /\ fails.status # "waitingForDevice"
    BY <1>1
  <2>3. UNCHANGED <<pending, live>> /\ ~Is(s, {"waitingForDevice"})
    BY <1>2, <1>4
  <2>4. sessions' = [sessions EXCEPT ![s] = fails]
    BY <1>4
  <2>5. 0 \in {0, 1} /\ (0 = 1 => fails.status \in {"none", "waiting"})
    OBVIOUS
  <2> QED
    BY <2>1, <2>2, <2>3, <2>4, <2>5, Changes, Zenon
<1>5. CASE StartWait(s, session)
  BY <1>1, <1>2, <1>5, Waiting
<1> QED
  BY <1>3, <1>4, <1>5, Zenon DEF StartSession, session, asks, fails

\* The session goes into the background, or comes back, with or without a wait.
LEMMA Backgrounds ==
    ASSUME IndInv, Apart, NEW s \in Sessions, UNCHANGED <<pending, live, uploads>>,
           NEW b \in BOOLEAN, sessions' = [sessions EXCEPT ![s].background = b]
    PROVE  IndInv'
<1> DEFINE r == [sessions[s] EXCEPT !.background = b]
<1>1. /\ Functions /\ SessionInv(s) /\ IsSession(sessions[s])
      /\ \A w \in live : w.session \in Sessions
      /\ \A w \in Own(s) : w.session = s /\ WaitInv(w, sessions[s].stable)
  BY Parts DEF SessionInv, WaitInv, IsWait, Own
<1>2. /\ sessions' = [sessions EXCEPT ![s] = r]
      /\ IsSession(r) /\ r.status = sessions[s].status /\ r.stable = sessions[s].stable
  <2>1. sessions[s] \in [status : Statuses, target : {sessions[s].target},
                         stable : {sessions[s].stable}, background : BOOLEAN]
    BY <1>1 DEF IsSession
  <2>2. r \in [status : Statuses, target : {sessions[s].target},
               stable : {sessions[s].stable}, background : BOOLEAN]
        /\ r.status = sessions[s].status
    BY <2>1
  <2>3. IsSession(r) /\ r.stable = sessions[s].stable
    <3> HIDE DEF r
    <3> QED
      BY <2>2 DEF IsSession
  <2> QED
    BY <2>2, <2>3
<1> HIDE DEF r
<1>3. /\ sessions'[s] = r
      /\ \A u \in Sessions \ {s} : sessions'[u] = sessions[u]
      /\ Functions' /\ \A u \in Sessions : Own(u)' = Own(u)
  BY <1>1, <1>2 DEF Functions, Apart, Own
<1>4. SessionInv(s)'
  BY <1>1, <1>2, <1>3 DEF SessionInv, Is, Exists
<1> QED
  BY <1>1, <1>2, <1>3, <1>4, OneSession DEF Apart

\* What is known of the session of a wait.
LEMMA TheWait ==
    ASSUME IndInv, NEW w \in live
    PROVE  /\ w.session \in Sessions /\ Is(w.session, {"waitingForDevice"})
           /\ Exists(w.session) /\ uploads[w.session] = 0
           /\ Own(w.session) = {w} /\ w.name = pending[w.session] /\ w.timer
           /\ IsWait(w) /\ WaitInv(w, sessions[w.session].stable)
           /\ IsSession(sessions[w.session])
<1>1. IsWait(w) /\ WaitInv(w, sessions[w.session].stable) /\ w.session \in Sessions
  BY Parts DEF WaitInv, IsWait
<1>2. w \in Own(w.session) /\ SessionInv(w.session)
  BY <1>1, Parts DEF Own
<1> QED
  BY <1>1, <1>2 DEF SessionInv, Is, Exists

\* A wait takes an event that does not end it.
LEMMA EventPasses ==
    ASSUME IndInv, Apart, NEW w \in live, w.events # <<>>,
           UNCHANGED <<sessions, pending, uploads>>,
           Reachable(Head(w.events), sessions[w.session].stable) = 0,
           live' = (live \ {w}) \cup {[w EXCEPT !.events = Tail(w.events)]}
    PROVE  IndInv'
<1> DEFINE s == w.session
           new == [w EXCEPT !.events = Tail(w.events)]
<1>1. /\ s \in Sessions /\ Own(s) = {w} /\ SessionInv(s) /\ IsWait(w)
      /\ WaitInv(w, sessions[s].stable) /\ Functions
      /\ \A v \in live : v.session \in Sessions
  BY TheWait, Parts DEF WaitInv, IsWait
<1>2. /\ Tail(w.events) \in Seq(ToSet(Tail(w.events)))
      /\ ToSet(w.events) = {Head(w.events)} \cup ToSet(Tail(w.events))
      /\ Len(Tail(w.events)) <= MaxEvents
  <2>1. w.events \in Seq(ToSet(w.events)) /\ Len(w.events) <= MaxEvents
    BY <1>1 DEF IsWait
  <2>2. Len(w.events) \in Nat
    BY <2>1
  <2>3. /\ Tail(w.events) \in Seq(ToSet(Tail(w.events)))
        /\ ToSet(w.events) = {Head(w.events)} \cup ToSet(Tail(w.events))
        /\ Len(Tail(w.events)) = Len(w.events) - 1
    BY <2>1, Taken, Zenon
  <2> QED
    BY <2>1, <2>2, <2>3, EventsAssumption
<1>3. /\ new.session = s /\ new.name = w.name /\ new.timer = w.timer
      /\ new.events = Tail(w.events) /\ IsWait(new)
  BY <1>1, <1>2, WaitFields
<1>4. WaitInv(new, sessions[s].stable)
  BY <1>1, <1>2, <1>3 DEF WaitInv
<1> HIDE DEF new
<1>5. /\ \A u \in Sessions \ {s} : Own(u)' = Own(u)
      /\ Own(s)' = {new} /\ \A v \in live' : v.session \in Sessions
  BY <1>1, <1>3 DEF Own, new
<1>6. SessionInv(s)'
  BY <1>1, <1>3, <1>5, TheWait DEF SessionInv, Is, Exists
<1>7. Functions'
  BY <1>1 DEF Functions, Apart
<1> QED
  BY <1>1, <1>4, <1>5, <1>6, <1>7, OneSession DEF Apart

\* A wait whose session asks its receiver, is told to stop, or has timed out.
LEMMA WaitTaken ==
    ASSUME IndInv, NEW w \in live, Deliver(w) \/ Timeout(w)
    PROVE  IndInv'
<1> DEFINE s == w.session
           i == Reachable(Head(w.events), sessions[s].stable)
<1>1. /\ s \in Sessions /\ Is(s, {"waitingForDevice"}) /\ Exists(s)
      /\ uploads[s] = 0 /\ IsSession(sessions[s]) /\ Functions
  BY TheWait, Parts
<1>2. Apart
  BY <1>1 DEF Deliver, Timeout, Apart, Functions
<1>3. CASE w.events # <<>> /\ i # 0 /\ Resolve(s, sessions[s], Head(w.events)[i].device)
  <2> HIDE DEF i, s
  <2> QED
    BY <1>1, <1>2, <1>3, Resolves
<1>4. CASE /\ w.events # <<>> /\ i = 0 /\ UNCHANGED <<sessions, pending, uploads>>
           /\ live' = (live \ {w}) \cup {[w EXCEPT !.events = Tail(w.events)]}
  BY <1>2, <1>4, EventPasses
<1>5. CASE /\ StopWait(s) /\ UNCHANGED uploads
           /\ sessions' = [sessions EXCEPT ![s].status = "waitingForDeviceTimedOut"]
  <2> DEFINE r == [sessions[s] EXCEPT !.status = "waitingForDeviceTimedOut"]
  <2>1. sessions' = [sessions EXCEPT ![s] = r] /\ uploads' = [uploads EXCEPT ![s] = 0]
    BY <1>1, <1>5 DEF Functions
  <2>2. r \in [status : Statuses, target : {sessions[s].target},
               stable : {sessions[s].stable}, background : BOOLEAN]
        /\ r.status = "waitingForDeviceTimedOut"
    BY <1>1 DEF IsSession, Statuses
  <2> HIDE DEF r, s
  <2>3. IsSession(r) /\ r.status # "waitingForDevice"
    BY <2>2 DEF IsSession
  <2>4. 0 \in {0, 1} /\ (0 = 1 => r.status \in {"none", "waiting"})
    OBVIOUS
  <2> QED
    BY <1>1, <1>2, <1>5, <2>1, <2>3, <2>4, Ends, Zenon
<1>6. CASE Deliver(w)
  <2> HIDE DEF s
  <2> QED
    BY <1>1, <1>3, <1>4, <1>6, Zenon DEF Deliver, s
<1>7. CASE Timeout(w)
  BY <1>1, <1>5, <1>7 DEF Timeout
<1> QED
  BY <1>6, <1>7

\* The variables of the waits are left alone.
LEMMA NothingWaits ==
    ASSUME IndInv, UNCHANGED <<merged, sessions, pending, live, uploads>>,
           account' \in Accounts, sendMode' \in Modes,
           pages' \in [Sessions -> {"none", "own", "view"}]
    PROVE  IndInv'
<1>1. Functions /\ \A s \in Sessions : SessionInv(s)
  BY Parts
<1>2. Functions'
  BY <1>1 DEF Functions
<1>3. \A s \in Sessions : SessionInv(s)'
  BY <1>1, SessionKept DEF Own
<1>4. (\A w \in live : WaitInv(w, sessions[w.session].stable))'
  BY Parts DEF WaitInv
<1> QED
  BY <1>2, <1>3, <1>4, PartsNext

\* A session in single mode, and one that replaces another in multiple mode.
LEMMA DeviceTapped ==
    ASSUME IndInv, NEW s \in Sessions, NEW entry,
           TapDevice(s, entry) \/ TapDeviceMulti(s, entry)
    PROVE  IndInv'
<1>1. Functions /\ \A u \in Sessions : SessionInv(u)
  BY Parts
<1>2. Apart
  BY <1>1 DEF TapDevice, TapDeviceMulti, Functions, Apart
<1>3. ASSUME Unused(s), NEW b \in BOOLEAN, StartSession(s, entry.device, entry.cloud, b)
      PROVE  IndInv'
  BY <1>2, <1>3, Starts
<1>4. ASSUME TapDeviceMulti(s, entry), NEW t \in Sessions, t \in SessionAt(entry.device),
             Is(t, {"declined", "finished"}),
             sessions' = [[u \in Sessions |-> IF u \in {t} THEN NoSession ELSE sessions[u]]
                          EXCEPT ![s] =
                             [status |-> "waiting", target |-> entry.device,
                              stable |-> entry.cloud, background |-> TRUE]],
             uploads' = [uploads EXCEPT ![s] = @ + 1],
             UNCHANGED <<pending, live>>
      PROVE  IndInv'
  <2> DEFINE r == [status |-> "waiting", target |-> entry.device,
                   stable |-> entry.cloud, background |-> TRUE]
  <2>1. /\ Unused(s) /\ Exists(t) /\ s # t
        /\ uploads[s] = 0 /\ uploads[t] = 0 /\ ~Is(s, {"waitingForDevice"})
        /\ ~Is(t, {"waitingForDevice"})
    BY <1>1, <1>4 DEF TapDeviceMulti, Unused, SessionAt, Exists, Is, SessionInv
  <2>2. IsSession(r) /\ r.status = "waiting"
    BY DEF IsSession, Statuses
  <2> HIDE DEF r
  <2>s. sessions' = [u \in Sessions |->
                        IF u = s THEN r ELSE IF u = t THEN NoSession ELSE sessions[u]]
    BY <1>4, <2>1 DEF r
  <2>u. uploads' = [u \in Sessions |-> IF u = s THEN 1 ELSE uploads[u]]
    BY <1>1, <1>4, <2>1 DEF Functions
  <2>3. /\ sessions'[s] = r /\ sessions'[t] = NoSession
        /\ \A u \in Sessions \ {s, t} : sessions'[u] = sessions[u]
        /\ uploads'[s] = 1 /\ \A u \in Sessions \ {s} : uploads'[u] = uploads[u]
        /\ sessions' = [u \in Sessions |-> sessions'[u]]
        /\ uploads' = [u \in Sessions |-> uploads'[u]]
    BY <2>s, <2>u, <2>1
  <2>4. Own(s) = {} /\ pending[s] = None /\ Own(t) = {} /\ pending[t] = None
    BY <1>1, <2>1 DEF SessionInv
  <2>5. \A u \in Sessions : Own(u)' = Own(u)
    BY <1>4 DEF Own
  <2>6. SessionInv(s)'
    BY <1>4, <2>2, <2>3, <2>4, <2>5, SessionAtRest DEF Is
  <2>7. SessionInv(t)'
    BY <1>4, <2>1, <2>3, <2>4, <2>5, SessionAtRest, EmptySession DEF Is
  <2>8. \A u \in Sessions : SessionInv(u)'
    BY <1>1, <1>4, <2>3, <2>5, <2>6, <2>7, SessionKept
  <2>9. (\A w \in live : WaitInv(w, sessions[w.session].stable))'
    <3>1. \A w \in live : w.session \in Sessions \ {s, t}
                          /\ WaitInv(w, sessions[w.session].stable)
      BY <2>4, Parts DEF Own, WaitInv, IsWait
    <3> QED
      BY <1>2, <1>4, <2>3, <3>1 DEF WaitInv, Apart
  <2>10. Functions'
    BY <1>1, <1>2, <1>4, <2>3 DEF Functions, Apart
  <2> QED
    BY <2>8, <2>9, <2>10, PartsNext
<1>5. CASE TapDevice(s, entry)
  BY <1>3, <1>5 DEF TapDevice
<1>6. CASE TapDeviceMulti(s, entry)
  <2>1. Unused(s) /\ TRUE \in BOOLEAN
    BY <1>6 DEF TapDeviceMulti
  <2>2. CASE StartSession(s, entry.device, entry.cloud, TRUE)
    BY <1>3, <2>1, <2>2
  <2>3. CASE \E t \in SessionAt(entry.device) :
                /\ Is(t, {"declined", "finished"})
                /\ sessions' =
                     [[u \in Sessions |-> IF u \in {t} THEN NoSession ELSE sessions[u]]
                      EXCEPT ![s] =
                         [status |-> "waiting", target |-> entry.device,
                          stable |-> entry.cloud, background |-> TRUE]]
                /\ uploads' = [uploads EXCEPT ![s] = @ + 1]
                /\ UNCHANGED <<pending, live>>
    <3>1. \A t \in SessionAt(entry.device) : t \in Sessions
      BY DEF SessionAt
    <3> QED
      BY <1>4, <1>6, <2>3, <3>1
  <2> QED
    BY <1>6, <2>2, <2>3, Zenon DEF TapDeviceMulti
<1> QED
  BY <1>5, <1>6

\* Every session is closed, or none.
LEMMA ModeSet ==
    ASSUME IndInv, NEW mode \in Modes, SetSendMode(mode)
    PROVE  IndInv'
<1>1. Functions /\ \A u \in Sessions : SessionInv(u)
  BY Parts
<1>2. /\ UNCHANGED <<account, merged, pages, uploads>> /\ sendMode' \in Modes
  BY DEF SetSendMode
<1>3. CASE mode = "multiple"
  <2>1. UNCHANGED <<sessions, pending, live>>
    BY <1>3 DEF SetSendMode
  <2> QED
    BY <1>1, <1>2, <2>1, NothingWaits DEF Functions
<1>4. CASE mode # "multiple"
  <2>1. /\ live' = live \ UNION {Stopped(s) : s \in Sessions}
        /\ pending' = [s \in Sessions |-> None]
        /\ sessions' = [s \in Sessions |-> NoSession]
    BY <1>4 DEF SetSendMode
  <2>2. live' = {}
    <3>1. \A w \in live : w.session \in Sessions /\ w \in Own(w.session)
      BY Parts DEF WaitInv, IsWait, Own
    <3>2. \A w \in live : w.session \in Sessions /\ w \in Stopped(w.session)
      BY <3>1, StopsAll
    <3> QED
      BY <2>1, <3>2
  <2>3. \A s \in Sessions : SessionInv(s)'
    <3> TAKE s \in Sessions
    <3>1. uploads'[s] \in {0, 1}
      BY <1>1, <1>2 DEF SessionInv
    <3> QED
      BY <2>1, <2>2, <3>1, EmptySession, SessionAtRest DEF Own, Is
  <2>4. Functions'
    BY <1>1, <1>2, <2>1 DEF Functions
  <2> QED
    BY <2>2, <2>3, <2>4, PartsNext
<1> QED
  BY <1>3, <1>4

\* The pages of a session, and its end.
LEMMA PageLeft ==
    ASSUME IndInv, NEW s \in Sessions,
           \/ \E entry : ViewSession(s, entry)
           \/ Retry(s) \/ CloseSession(s)
           \/ \E cancels \in BOOLEAN : LeavePage(s, cancels)
    PROVE  IndInv'
<1>1. /\ Functions /\ SessionInv(s) /\ IsSession(sessions[s])
      /\ uploads[s] \in {0, 1} /\ uploads = [uploads EXCEPT ![s] = uploads[s]]
  BY Parts DEF SessionInv, Functions
<1>2. Apart
  BY <1>1 DEF ViewSession, Retry, CloseSession, LeavePage, Functions, Apart
<1>3. ASSUME StopWait(s), sessions' = [sessions EXCEPT ![s] = NoSession], UNCHANGED uploads
      PROVE  IndInv'
  <2>1. uploads' = [uploads EXCEPT ![s] = uploads[s]]
    BY <1>1, <1>3
  <2>2. /\ NoSession.status # "waitingForDevice"
        /\ uploads[s] = 1 => NoSession.status \in {"none", "waiting"}
    BY EmptySession
  <2> QED
    BY <1>1, <1>2, <1>3, <2>1, <2>2, EmptySession, Ends, Zenon
<1>4. ASSUME NEW b \in BOOLEAN, sessions' = [sessions EXCEPT ![s].background = b],
             UNCHANGED <<pending, live, uploads>>
      PROVE  IndInv'
  BY <1>2, <1>4, Backgrounds
<1>5. ASSUME NEW entry, ViewSession(s, entry) PROVE IndInv'
  BY <1>4, <1>5 DEF ViewSession
<1>6. CASE Retry(s)
  <2> DEFINE r == [sessions[s] EXCEPT !.status = "waitingForDevice"]
  <2>1. StartWait(s, r) /\ uploads[s] = 0
    BY <1>1, <1>6 DEF Retry, SessionInv, Is, Exists
  <2>2. r \in [status : Statuses, target : {sessions[s].target},
               stable : {sessions[s].stable}, background : BOOLEAN]
        /\ r.status = "waitingForDevice"
    BY <1>1 DEF IsSession, Statuses
  <2> HIDE DEF r
  <2>3. IsSession(r)
    BY <2>2 DEF IsSession
  <2> QED
    BY <1>2, <2>1, <2>2, <2>3, Waiting
<1>7. CASE CloseSession(s)
  BY <1>3, <1>7 DEF CloseSession
<1>8. ASSUME NEW cancels \in BOOLEAN, LeavePage(s, cancels) PROVE IndInv'
  <2>1. CASE cancels
    BY <1>3, <1>8, <2>1 DEF LeavePage
  <2>2. CASE ~cancels /\ Exists(s)
    <3>1. sessions' = [sessions EXCEPT ![s].background = TRUE]
          /\ UNCHANGED <<pending, live, uploads>>
      BY <1>8, <2>2 DEF LeavePage
    <3> QED
      BY <1>4, <3>1
  <2>3. CASE ~cancels /\ ~Exists(s)
    <3>1. UNCHANGED <<merged, sessions, pending, live, uploads>>
      BY <1>8, <2>3 DEF LeavePage
    <3>2. /\ account' \in Accounts /\ sendMode' \in Modes
          /\ pages' \in [Sessions -> {"none", "own", "view"}]
      BY <1>1, <1>2, <1>8 DEF Apart, Functions
    <3> QED
      BY <3>1, <3>2, NothingWaits
  <2> QED
    BY <2>1, <2>2, <2>3
<1> QED
  BY <1>5, <1>6, <1>7, <1>8

\* The answer to the request of a session.
LEMMA RequestAnswered ==
    ASSUME IndInv, NEW s \in Sessions,
           NEW status \in {"sending", "declined", "finishedWithErrors", "nothingSelected"},
           Answer(s, status)
    PROVE  IndInv'
<1> DEFINE foreground == Exists(s) /\ ~sessions[s].background
           leaves == /\ foreground
                     /\ status = "nothingSelected" \/ (status = "sending" /\ pages[s] = "view")
           r == [sessions[s] EXCEPT !.status = status, !.background = @ \/ leaves]
<1>1. /\ Functions /\ SessionInv(s) /\ IsSession(sessions[s])
      /\ uploads[s] = 1 /\ uploads' = [uploads EXCEPT ![s] = 0]
      /\ ~Is(s, {"waitingForDevice"})
  <2>1. Functions /\ SessionInv(s) /\ IsSession(sessions[s])
    BY Parts DEF SessionInv
  <2>2. uploads[s] > 0 /\ uploads' = [uploads EXCEPT ![s] = uploads[s] - 1]
    BY DEF Answer
  <2>3. uploads[s] = 1 /\ ~Is(s, {"waitingForDevice"})
    BY <2>1, <2>2 DEF SessionInv, Is, Exists
  <2> QED
    BY <2>1, <2>2, <2>3
<1>2. Apart
  <2>1. UNCHANGED <<account, merged, sendMode>>
        /\ pages' = [pages EXCEPT ![s] = IF leaves THEN "none" ELSE pages[s]]
    BY DEF Answer
  <2> QED
    BY <1>1, <2>1 DEF Functions, Apart
<1>3. ASSUME NEW q, IsSession(q), q.status # "waitingForDevice",
             sessions' = [sessions EXCEPT ![s] = q],
             StopWait(s) \/ UNCHANGED <<pending, live>>
      PROVE  IndInv'
  <2>1. 0 \in {0, 1} /\ (0 = 1 => q.status \in {"none", "waiting"})
    OBVIOUS
  <2>2. CASE StopWait(s)
    BY <1>1, <1>2, <1>3, <2>1, <2>2, Ends, Zenon
  <2>3. CASE UNCHANGED <<pending, live>>
    BY <1>1, <1>2, <1>3, <2>1, <2>3, Changes, Zenon
  <2> QED
    BY <1>3, <2>2, <2>3
<1>4. StopWait(s) \/ UNCHANGED <<pending, live>>
  BY DEF Answer
<1>5. CASE ~Exists(s) \/ status = "nothingSelected"
  <2>1. sessions' = [sessions EXCEPT ![s] = NoSession]
    BY <1>5 DEF Answer
  <2>2. IsSession(NoSession) /\ NoSession.status # "waitingForDevice"
    BY EmptySession
  <2> QED
    BY <1>3, <1>4, <2>1, <2>2
<1>6. CASE Exists(s) /\ status # "nothingSelected"
  <2>1. sessions' = [sessions EXCEPT ![s] = r]
    <3>1. sessions' = [sessions EXCEPT ![s] =
                          IF ~Exists(s) \/ status = "nothingSelected" THEN NoSession ELSE r]
      BY DEF Answer
    <3> HIDE DEF r
    <3> QED
      BY <1>6, <3>1
  <2>2. status \in Statuses /\ status # "waitingForDevice"
    BY <1>6 DEF Statuses
  <2>3. (sessions[s].background \/ leaves) \in BOOLEAN
    OBVIOUS
  <2> HIDE DEF leaves
  <2>4. r \in [status : Statuses, target : {sessions[s].target},
               stable : {sessions[s].stable}, background : BOOLEAN]
        /\ r.status = status
    BY <1>1, <2>2, <2>3 DEF IsSession
  <2> HIDE DEF r
  <2>5. IsSession(r)
    BY <2>4 DEF IsSession
  <2> QED
    BY <1>3, <1>4, <2>1, <2>2, <2>4, <2>5
<1> QED
  BY <1>5, <1>6

\* The end of a transfer.
LEMMA TransferFinished ==
    ASSUME IndInv, NEW s \in Sessions, NEW hasError \in BOOLEAN, Finish(s, hasError)
    PROVE  IndInv'
<1> DEFINE status == IF hasError THEN "finishedWithErrors" ELSE "finished"
           r == [sessions[s] EXCEPT !.status = status]
<1>1. /\ Functions /\ IsSession(sessions[s]) /\ ~Is(s, {"waitingForDevice"})
      /\ uploads[s] = 0
  BY Parts DEF SessionInv, Finish, Is, Exists
<1>2. uploads' = [uploads EXCEPT ![s] = 0] /\ Apart
  BY <1>1 DEF Finish, Functions, Apart
<1>3. CASE StopWait(s) /\ sessions' = [sessions EXCEPT ![s] = NoSession]
  <2>1. /\ 0 \in {0, 1} /\ (0 = 1 => NoSession.status \in {"none", "waiting"})
        /\ NoSession.status # "waitingForDevice"
    BY EmptySession
  <2> QED
    BY <1>1, <1>2, <1>3, <2>1, EmptySession, Ends, Zenon
<1>4. CASE UNCHANGED <<pending, live>> /\ sessions' = [sessions EXCEPT ![s].status = status]
  <2>1. sessions' = [sessions EXCEPT ![s] = r]
    BY <1>4
  <2>2. status \in Statuses /\ status # "waitingForDevice"
    BY DEF Statuses
  <2> HIDE DEF status
  <2>3. r \in [status : Statuses, target : {sessions[s].target},
               stable : {sessions[s].stable}, background : BOOLEAN]
        /\ r.status = status
    BY <1>1, <2>2 DEF IsSession
  <2> HIDE DEF r
  <2>4. IsSession(r) /\ r.status # "waitingForDevice"
    BY <2>2, <2>3 DEF IsSession
  <2>5. 0 \in {0, 1} /\ (0 = 1 => r.status \in {"none", "waiting"})
    OBVIOUS
  <2> QED
    BY <1>1, <1>2, <1>4, <2>1, <2>4, <2>5, Changes, Zenon
<1> QED
  BY <1>3, <1>4 DEF Finish

\* The list is rebuilt: every wait has the new one among its events.
LEMMA ListRebuilt ==
    ASSUME IndInv, Rebuild
    PROVE  IndInv'
<1> DEFINE Told(w) == [w EXCEPT !.events = Append(w.events, Merged)]
<1>1. /\ Functions /\ \A s \in Sessions : SessionInv(s)
      /\ \A w \in live : IsWait(w) /\ w.session \in Sessions
  BY Parts DEF WaitInv, IsWait
<1>2. /\ live' = {Told(w) : w \in live} /\ merged' = Merged
      /\ UNCHANGED <<account, sendMode, sessions, pages, pending, uploads>>
      /\ \A w \in live : Len(w.events) < MaxEvents
  BY DEF Rebuild
<1>3. ASSUME NEW w \in live
      PROVE  /\ Told(w).session = w.session /\ Told(w).name = w.name
             /\ Told(w).timer = w.timer /\ IsWait(Told(w))
             /\ Merged \in ToSet(Told(w).events)
  <2>1. w.events \in Seq(ToSet(w.events)) /\ Len(w.events) < MaxEvents
    BY <1>1, <1>2 DEF IsWait
  <2>2. /\ Append(w.events, Merged) \in Seq(ToSet(Append(w.events, Merged)))
        /\ ToSet(Append(w.events, Merged)) = ToSet(w.events) \cup {Merged}
        /\ Len(Append(w.events, Merged)) = Len(w.events) + 1
    BY <2>1, Appended, Zenon
  <2>3. Len(Append(w.events, Merged)) <= MaxEvents
    <3>1. Len(w.events) \in Nat
      BY <2>1
    <3> QED
      BY <2>1, <2>2, <3>1, EventsAssumption
  <2>4. IsWait(w)
    BY <1>1
  <2> QED
    BY <2>2, <2>3, <2>4, WaitFields
<1> HIDE DEF Told
<1>4. \A s \in Sessions : SessionInv(s)'
  <2> TAKE s \in Sessions
  <2>1. Own(s)' = {Told(w) : w \in Own(s)}
    BY <1>2, <1>3 DEF Own
  <2>2. SessionInv(s)
    BY <1>1
  <2>3. CASE Is(s, {"waitingForDevice"})
    <3>1. PICK w \in Own(s) : Own(s) = {w} /\ w.name = pending[s] /\ w.timer
      BY <2>2, <2>3 DEF SessionInv
    <3>2. w \in live
      BY DEF Own
    <3>3. Own(s)' = {Told(w)} /\ Told(w).name = pending[s] /\ Told(w).timer
      BY <1>3, <2>1, <3>1, <3>2
    <3> QED
      BY <1>2, <2>2, <2>3, <3>3 DEF SessionInv, Is, Exists
  <2>4. CASE ~Is(s, {"waitingForDevice"})
    <3>1. Own(s)' = {}
      BY <2>1, <2>2, <2>4 DEF SessionInv
    <3> QED
      BY <1>2, <2>2, <2>4, <3>1 DEF SessionInv, Is, Exists
  <2> QED
    BY <2>3, <2>4
<1>5. (\A w \in live : WaitInv(w, sessions[w.session].stable))'
  <2> SUFFICES ASSUME NEW v \in live'
               PROVE  WaitInv(v, sessions[v.session].stable)'
    OBVIOUS
  <2>1. IsWait(v) /\ Merged \in ToSet(v.events)
    BY <1>2, <1>3
  <2> QED
    BY <1>2, <2>1 DEF WaitInv
<1>6. Functions'
  BY <1>1, <1>2 DEF Functions
<1> QED
  BY <1>4, <1>5, <1>6, PartsNext

-----------------------------------------------------------------------------
(* The theorems.                                                           *)

\* The initial states satisfy the invariant.
LEMMA InitInv == Init => IndInv
<1> SUFFICES ASSUME Init PROVE IndInv
  OBVIOUS
<1>1. Functions
  BY DEF Init, Functions
<1>2. \A s \in Sessions : SessionInv(s)
  BY EmptySession DEF Init, SessionInv, Own, Is, Exists
<1>3. live = {}
  BY DEF Init
<1> QED
  BY <1>1, <1>2, <1>3, Parts

\* Every step keeps it.
LEMMA StepInv == IndInv /\ [Next]_vars => IndInv'
<1> SUFFICES ASSUME IndInv, [Next]_vars PROVE IndInv'
  OBVIOUS
<1>1. Functions
  BY Parts
<1>2. ASSUME UNCHANGED <<merged, sessions, pending, live, uploads, sendMode, pages>>,
             account' \in Accounts
      PROVE  IndInv'
  BY <1>1, <1>2, NothingWaits DEF Functions
<1>3. CASE Nearby \/ UNCHANGED vars \/ \E rows \in Accounts : AccountChanges(rows)
  BY <1>1, <1>2, <1>3 DEF Nearby, AccountChanges, vars, sendVars, Functions
<1>4. CASE User
  <2>1. ASSUME NEW s \in Sessions, NEW entry,
               TapDevice(s, entry) \/ TapDeviceMulti(s, entry)
        PROVE  IndInv'
    BY <2>1, DeviceTapped
  <2>2. ASSUME NEW s \in Sessions, \/ \E entry : ViewSession(s, entry)
                                   \/ Retry(s) \/ CloseSession(s)
                                   \/ \E cancels \in BOOLEAN : LeavePage(s, cancels)
        PROVE  IndInv'
    BY <2>2, PageLeft
  <2>3. ASSUME NEW mode \in Modes, SetSendMode(mode) PROVE IndInv'
    BY <2>3, ModeSet
  <2> QED
    BY <1>4, <2>1, <2>2, <2>3 DEF User
<1>5. ASSUME NEW w \in live, Deliver(w) \/ Timeout(w) PROVE IndInv'
  BY <1>5, WaitTaken
<1>6. ASSUME NEW s \in Sessions,
             NEW status \in {"sending", "declined", "finishedWithErrors", "nothingSelected"},
             Answer(s, status)
      PROVE  IndInv'
  BY <1>6, RequestAnswered
<1>7. ASSUME NEW s \in Sessions, NEW hasError \in BOOLEAN, Finish(s, hasError)
      PROVE  IndInv'
  BY <1>7, TransferFinished
<1>8. CASE Rebuild
  BY <1>8, ListRebuilt
<1> QED
  BY <1>3, <1>4, <1>5, <1>6, <1>7, <1>8 DEF Next

\* The invariant is inductive: what a session, its wait, the events under way to
\* it and its request are to one another holds after every step.
THEOREM Inductive == Spec => []IndInv
BY InitInv, StepInv, PTL DEF Spec

\* A session that waits has one timer and one subscription, and no other session
\* has any, for any number of sessions and waits (OwnWait): _stopWait finds
\* whatever an earlier wait of the session has left.
THEOREM OneWaitEach == Spec => []OwnWait
<1>1. IndInv => OwnWait
  BY DEF IndInv
<1> QED
  BY <1>1, Inductive, PTL

\* A device that is in the list is noticed by the session that waits for its row,
\* whatever the merge of the two lists is (NoLostWakeup): the look at the list
\* covers what was there before the wait, its subscription what comes after.
THEOREM Noticed == Spec => []NoLostWakeup
<1>1. IndInv => NoLostWakeup
  BY DEF IndInv
<1> QED
  BY <1>1, Inductive, PTL

\* A session asks its receiver once at a time, and shows that it does
\* (OneUpload), however often its device is reported, tapped or retried.
THEOREM AsksOnce == Spec => []OneUpload
<1>1. IndInv => OneUpload
  BY DEF IndInv
<1> QED
  BY <1>1, Inductive, PTL

-----------------------------------------------------------------------------
(* Folds over a sequence.                                                  *)

LEMMA Induction ==
    ASSUME NEW T, 0 \in T, \A n \in Nat : n \in T => n + 1 \in T
    PROVE  Nat \subseteq T
<1> DEFINE U == Nat \ T
           R == OpToRel(<, Nat)
<1>1. \A m, n \in Nat : m < n => <<m, n>> \in R
  BY DEF OpToRel
<1>2. IsWellFoundedOn(R, Nat)
  BY NatLessThanWellFounded
<1> HIDE DEF R
<1> SUFFICES ASSUME U # {} PROVE FALSE
  OBVIOUS
<1>3. PICK x \in U : \A y \in U : ~ (<<y, x>> \in R)
  BY <1>2, WFMin
<1>4. x \in Nat \ {0}
  OBVIOUS
<1>5. x - 1 \in Nat /\ x - 1 < x /\ (x - 1) + 1 = x
  BY <1>4
<1>6. x - 1 \in T
  BY <1>1, <1>3, <1>5
<1> QED
  BY <1>5, <1>6

\* The last of the first k numbers, and of others among them.
LEMMA LastOf ==
    ASSUME NEW k \in Nat, NEW S \in SUBSET (1..(k + 1)), k + 1 \in S
    PROVE  Max(S) = k + 1
<1>1. \A x \in S : (k + 1 >= x) /\ (x >= k + 1 => x = k + 1)
  OBVIOUS
<1>2. \E x \in S : \A y \in S : x >= y
  BY <1>1
<1>3. Max(S) \in S /\ \A y \in S : Max(S) >= y
  BY <1>2, Zenon DEF Max
<1> QED
  BY <1>1, <1>3

\* What the folds of the merge do with one element.
Step(kind, result, x) ==
    IF kind = "endpoint" THEN AddEndpoint(result, x) ELSE
    IF kind = "lan" THEN CollapseLan(result, x) ELSE
    IF kind = "signaling" THEN MergeSignaling(result, x) ELSE
    IF kind = "listed" THEN AddListed(result, x, OwnCert, OwnIps) ELSE
    FoldOther(result, x, CurrentDeviceId, OwnCert)

\* g is what FoldLeft computes of the first n elements, for every set of them.
Folds(g, kind, base, seq, n) ==
    g = [S \in SUBSET (1..n) |->
            IF S = {} THEN base
            ELSE Step(kind, g[S \ {Max(S)}], seq[Max(S)])]

\* There is such a function ...
LEMMA FoldExists ==
    ASSUME NEW kind, NEW base, NEW seq, NEW n \in Nat
    PROVE  \E g : Folds(g, kind, base, seq, n)
<1> DEFINE T == {m \in Nat : \E g : Folds(g, kind, base, seq, m)}
<1>1. 0 \in T
  <2> DEFINE g == [S \in SUBSET (1..0) |-> base]
  <2>1. \A S \in SUBSET (1..0) : S = {}
    OBVIOUS
  <2>2. Folds(g, kind, base, seq, 0)
    BY <2>1 DEF Folds
  <2> QED
    BY <2>2
<1>2. ASSUME NEW m \in Nat, m \in T PROVE m + 1 \in T
  <2>1. PICK g : Folds(g, kind, base, seq, m)
    BY <1>2
  <2> DEFINE D == SUBSET (1..m)
             h == [S \in SUBSET (1..(m + 1)) |->
                      IF m + 1 \in S THEN Step(kind, g[S \ {m + 1}], seq[m + 1]) ELSE g[S]]
  <2>2. \A S \in D : S \in SUBSET (1..(m + 1)) /\ m + 1 \notin S
    OBVIOUS
  <2>3. \A S \in D : h[S] = g[S]
    BY <2>2
  <2>4. ASSUME NEW S \in SUBSET (1..(m + 1))
        PROVE  h[S] = IF S = {} THEN base
                      ELSE Step(kind, h[S \ {Max(S)}], seq[Max(S)])
    <3>1. CASE m + 1 \in S
      <4>1. Max(S) = m + 1
        BY <3>1, LastOf
      <4>2. S \ {m + 1} \in D
        OBVIOUS
      <4>3. h[S \ {m + 1}] = g[S \ {m + 1}]
        BY <2>3, <4>2
      <4>4. h[S] = Step(kind, g[S \ {m + 1}], seq[m + 1])
        BY <3>1
      <4> HIDE DEF h
      <4> QED
        BY <3>1, <4>1, <4>3, <4>4
    <3>2. CASE m + 1 \notin S
      <4>0. \A x \in S : x \in 1..m
        BY <3>2
      <4>1. S \in D /\ \A x : S \ {x} \in D
        BY <4>0
      <4>2. h[S] = g[S] /\ h[S \ {Max(S)}] = g[S \ {Max(S)}]
        BY <2>3, <4>1
      <4>3. g[S] = IF S = {} THEN base ELSE Step(kind, g[S \ {Max(S)}], seq[Max(S)])
        BY <2>1, <4>1, Zenon DEF Folds
      <4> HIDE DEF h
      <4> QED
        BY <4>2, <4>3
    <3> QED
      BY <3>1, <3>2
  <2>5. h = [S \in SUBSET (1..(m + 1)) |-> h[S]]
    OBVIOUS
  <2> HIDE DEF h
  <2>6. Folds(h, kind, base, seq, m + 1)
    <3>1. h = [S \in SUBSET (1..(m + 1)) |->
                  IF S = {} THEN base ELSE Step(kind, h[S \ {Max(S)}], seq[Max(S)])]
      BY <2>4, <2>5, Zenon
    <3> QED
      BY <3>1 DEF Folds
  <2> QED
    BY <2>6
<1> HIDE DEF T
<1>3. Nat \subseteq T
  BY <1>1, <1>2, Induction
<1> QED
  BY <1>3 DEF T

\* ... and of the first elements, in their order, it is the fold.
LEMMA FoldBase ==
    ASSUME NEW kind, NEW base, NEW seq, NEW n \in Nat, NEW g,
           Folds(g, kind, base, seq, n)
    PROVE  g[1..0] = base
<1>1. 1..0 \in SUBSET (1..n) /\ 1..0 = {}
  OBVIOUS
<1>2. g[1..0] = IF 1..0 = {} THEN base
                ELSE Step(kind, g[(1..0) \ {Max(1..0)}], seq[Max(1..0)])
  BY <1>1, Zenon DEF Folds
<1> QED
  BY <1>1, <1>2

LEMMA FoldStep ==
    ASSUME NEW kind, NEW base, NEW seq, NEW n \in Nat, NEW g,
           Folds(g, kind, base, seq, n), NEW k \in Nat, k < n
    PROVE  g[1..(k + 1)] = Step(kind, g[1..k], seq[k + 1])
<1>1. \A S \in SUBSET (1..n) :
          g[S] = IF S = {} THEN base ELSE Step(kind, g[S \ {Max(S)}], seq[Max(S)])
  BY Zenon DEF Folds
<1>2. /\ 1..(k + 1) \in SUBSET (1..n) /\ k + 1 \in 1..(k + 1)
      /\ (1..(k + 1)) \ {k + 1} = 1..k
  OBVIOUS
<1>3. Max(1..(k + 1)) = k + 1
  BY <1>2, LastOf
<1> QED
  BY <1>1, <1>2, <1>3

\* A fold keeps what every step keeps: P[k] is what may be had of k elements.
LEMMA FoldInduction ==
    ASSUME NEW kind, NEW base, NEW seq, NEW n \in Nat, NEW g,
           Folds(g, kind, base, seq, n), NEW P, base \in P[0],
           \A k \in Nat : \A x \in P[k] : k < n => Step(kind, x, seq[k + 1]) \in P[k + 1]
    PROVE  g[1..n] \in P[n]
<1> DEFINE T == {k \in Nat : k =< n => g[1..k] \in P[k]}
<1>1. 0 \in T
  <2>1. g[1..0] = base
    BY FoldBase
  <2> QED
    BY <2>1
<1>2. ASSUME NEW k \in Nat, k \in T PROVE k + 1 \in T
  <2>1. CASE k < n
    <3>1. g[1..(k + 1)] = Step(kind, g[1..k], seq[k + 1])
      BY <2>1, FoldStep
    <3>2. g[1..k] \in P[k]
      BY <1>2, <2>1
    <3>3. Step(kind, g[1..k], seq[k + 1]) \in P[k + 1]
      BY <2>1, <3>2
    <3>4. g[1..(k + 1)] \in P[k + 1]
      BY <3>1, <3>3, Zenon
    <3> QED
      BY <3>4
  <2>2. CASE ~ (k < n)
    BY <2>2
  <2> QED
    BY <2>1, <2>2
<1> HIDE DEF T
<1>3. Nat \subseteq T
  BY <1>1, <1>2, Induction
<1> QED
  BY <1>3 DEF T

\* Each FoldLeft of the merge is such a fold.
LEMMA EndpointsFolded ==
    ASSUME NEW base, NEW seq, Len(seq) \in Nat, DOMAIN seq = 1..Len(seq),
           NEW P, base \in P[0],
           \A k \in Nat : \A x \in P[k] :
              k < Len(seq) => AddEndpoint(x, seq[k + 1]) \in P[k + 1]
    PROVE  FoldLeft(AddEndpoint,
                    base, seq) \in P[Len(seq)]
<1> DEFINE n == Len(seq)
           Folding(g) == g = [S \in SUBSET DOMAIN seq |->
                                 IF S = {} THEN base
                                 ELSE AddEndpoint(g[S \ {Max(S)}], seq[Max(S)])]
           h == CHOOSE g : Folding(g)
<1>1. \A g : Folds(g, "endpoint", base, seq, n) <=> Folding(g)
  BY DEF Folds, Step
<1>2. \E g : Folding(g)
  BY <1>1, FoldExists
<1>3. Folding(h)
  BY <1>2
<1>4. FoldLeft(AddEndpoint,
               base, seq) = h[DOMAIN seq]
  BY DEF FoldLeft, MapThenFoldSet
<1>5. Folds(h, "endpoint", base, seq, n) /\ n \in Nat
  BY <1>1, <1>3
<1>6. \A k \in Nat : \A x \in P[k] :
         k < n => Step("endpoint", x, seq[k + 1]) \in P[k + 1]
  BY DEF Step
<1>7. h[1..n] \in P[n]
  <2> HIDE DEF n, h
  <2> QED
    BY <1>5, <1>6, FoldInduction
<1> QED
  BY <1>4, <1>7

LEMMA LanFolded ==
    ASSUME NEW base, NEW seq, Len(seq) \in Nat, DOMAIN seq = 1..Len(seq),
           NEW P, base \in P[0],
           \A k \in Nat : \A x \in P[k] :
              k < Len(seq) => CollapseLan(x, seq[k + 1]) \in P[k + 1]
    PROVE  FoldLeft(CollapseLan,
                    base, seq) \in P[Len(seq)]
<1> DEFINE n == Len(seq)
           Folding(g) == g = [S \in SUBSET DOMAIN seq |->
                                 IF S = {} THEN base
                                 ELSE CollapseLan(g[S \ {Max(S)}], seq[Max(S)])]
           h == CHOOSE g : Folding(g)
<1>1. \A g : Folds(g, "lan", base, seq, n) <=> Folding(g)
  BY DEF Folds, Step
<1>2. \E g : Folding(g)
  BY <1>1, FoldExists
<1>3. Folding(h)
  BY <1>2
<1>4. FoldLeft(CollapseLan,
               base, seq) = h[DOMAIN seq]
  BY DEF FoldLeft, MapThenFoldSet
<1>5. Folds(h, "lan", base, seq, n) /\ n \in Nat
  BY <1>1, <1>3
<1>6. \A k \in Nat : \A x \in P[k] :
         k < n => Step("lan", x, seq[k + 1]) \in P[k + 1]
  BY DEF Step
<1>7. h[1..n] \in P[n]
  <2> HIDE DEF n, h
  <2> QED
    BY <1>5, <1>6, FoldInduction
<1> QED
  BY <1>4, <1>7

LEMMA SignalingFolded ==
    ASSUME NEW base, NEW seq, Len(seq) \in Nat, DOMAIN seq = 1..Len(seq),
           NEW P, base \in P[0],
           \A k \in Nat : \A x \in P[k] :
              k < Len(seq) => MergeSignaling(x, seq[k + 1]) \in P[k + 1]
    PROVE  FoldLeft(MergeSignaling,
                    base, seq) \in P[Len(seq)]
<1> DEFINE n == Len(seq)
           Folding(g) == g = [S \in SUBSET DOMAIN seq |->
                                 IF S = {} THEN base
                                 ELSE MergeSignaling(g[S \ {Max(S)}], seq[Max(S)])]
           h == CHOOSE g : Folding(g)
<1>1. \A g : Folds(g, "signaling", base, seq, n) <=> Folding(g)
  BY DEF Folds, Step
<1>2. \E g : Folding(g)
  BY <1>1, FoldExists
<1>3. Folding(h)
  BY <1>2
<1>4. FoldLeft(MergeSignaling,
               base, seq) = h[DOMAIN seq]
  BY DEF FoldLeft, MapThenFoldSet
<1>5. Folds(h, "signaling", base, seq, n) /\ n \in Nat
  BY <1>1, <1>3
<1>6. \A k \in Nat : \A x \in P[k] :
         k < n => Step("signaling", x, seq[k + 1]) \in P[k + 1]
  BY DEF Step
<1>7. h[1..n] \in P[n]
  <2> HIDE DEF n, h
  <2> QED
    BY <1>5, <1>6, FoldInduction
<1> QED
  BY <1>4, <1>7

LEMMA ListedFolded ==
    ASSUME NEW base, NEW seq, Len(seq) \in Nat, DOMAIN seq = 1..Len(seq),
           NEW P, base \in P[0],
           \A k \in Nat : \A x \in P[k] :
              k < Len(seq) => AddListed(x, seq[k + 1], OwnCert, OwnIps) \in P[k + 1]
    PROVE  FoldLeft(LAMBDA entries, device :
                                AddListed(entries, device, OwnCert, OwnIps),
                    base, seq) \in P[Len(seq)]
<1> DEFINE n == Len(seq)
           Folding(g) == g = [S \in SUBSET DOMAIN seq |->
                                 IF S = {} THEN base
                                 ELSE AddListed(g[S \ {Max(S)}], seq[Max(S)], OwnCert, OwnIps)]
           h == CHOOSE g : Folding(g)
<1>1. \A g : Folds(g, "listed", base, seq, n) <=> Folding(g)
  BY DEF Folds, Step
<1>2. \E g : Folding(g)
  BY <1>1, FoldExists
<1>3. Folding(h)
  BY <1>2
<1>4. FoldLeft(LAMBDA entries, device :
                                AddListed(entries, device, OwnCert, OwnIps),
               base, seq) = h[DOMAIN seq]
  BY DEF FoldLeft, MapThenFoldSet
<1>5. Folds(h, "listed", base, seq, n) /\ n \in Nat
  BY <1>1, <1>3
<1>6. \A k \in Nat : \A x \in P[k] :
         k < n => Step("listed", x, seq[k + 1]) \in P[k + 1]
  BY DEF Step
<1>7. h[1..n] \in P[n]
  <2> HIDE DEF n, h
  <2> QED
    BY <1>5, <1>6, FoldInduction
<1> QED
  BY <1>4, <1>7

LEMMA RowsFolded ==
    ASSUME NEW base, NEW seq, Len(seq) \in Nat, DOMAIN seq = 1..Len(seq),
           NEW P, base \in P[0],
           \A k \in Nat : \A x \in P[k] :
              k < Len(seq) => FoldOther(x, seq[k + 1], CurrentDeviceId, OwnCert) \in P[k + 1]
    PROVE  FoldLeft(LAMBDA entries, row :
                                FoldOther(entries, row, CurrentDeviceId, OwnCert),
                    base, seq) \in P[Len(seq)]
<1> DEFINE n == Len(seq)
           Folding(g) == g = [S \in SUBSET DOMAIN seq |->
                                 IF S = {} THEN base
                                 ELSE FoldOther(g[S \ {Max(S)}], seq[Max(S)], CurrentDeviceId, OwnCert)]
           h == CHOOSE g : Folding(g)
<1>1. \A g : Folds(g, "row", base, seq, n) <=> Folding(g)
  BY DEF Folds, Step
<1>2. \E g : Folding(g)
  BY <1>1, FoldExists
<1>3. Folding(h)
  BY <1>2
<1>4. FoldLeft(LAMBDA entries, row :
                                FoldOther(entries, row, CurrentDeviceId, OwnCert),
               base, seq) = h[DOMAIN seq]
  BY DEF FoldLeft, MapThenFoldSet
<1>5. Folds(h, "row", base, seq, n) /\ n \in Nat
  BY <1>1, <1>3
<1>6. \A k \in Nat : \A x \in P[k] :
         k < n => Step("row", x, seq[k + 1]) \in P[k + 1]
  BY DEF Step
<1>7. h[1..n] \in P[n]
  <2> HIDE DEF n, h
  <2> QED
    BY <1>5, <1>6, FoldInduction
<1> QED
  BY <1>4, <1>7

-----------------------------------------------------------------------------
(* Searching a sequence.                                                   *)

LEMMA FirstOf ==
    ASSUME NEW n \in Nat, NEW I \in SUBSET (1..n), I # {}
    PROVE  Min(I) \in I
<1> DEFINE R == OpToRel(<, Nat)
<1>1. IsWellFoundedOn(R, Nat)
  BY NatLessThanWellFounded
<1>2. \A m, k \in Nat : m < k => <<m, k>> \in R
  BY DEF OpToRel
<1> HIDE DEF R
<1>3. I \subseteq Nat
  OBVIOUS
<1>4. PICK x \in I : \A y \in I : ~ (<<y, x>> \in R)
  BY <1>1, <1>3, WFMin
<1>5. ASSUME NEW y \in I PROVE x =< y
  <2>1. x \in Nat /\ y \in Nat /\ ~ (y < x)
    BY <1>2, <1>3, <1>4
  <2> QED
    BY <2>1
<1> QED
  BY <1>5, Zenon DEF Min

\* What a search finds passes its test, and it finds what there is.
LEMMA CertFound ==
    ASSUME NEW result, Len(result) \in Nat, NEW device, NEW i,
           i = CertHashMatch(result, device)
    PROVE  \/ /\ i \in 1..Len(result)
              /\ CertHashes(result[i].device) \cap CertHashes(device) # {}
           \/ /\ i = 0
              /\ \A j \in 1..Len(result) :
                    CertHashes(result[j].device) \cap CertHashes(device) = {}
<1> DEFINE I == {j \in 1..Len(result) :
                    CertHashes(result[j].device) \cap CertHashes(device) # {}}
<1>1. i = IF I # {} THEN Min(I) ELSE 0
  BY DEF CertHashMatch, SelectInSeq
<1>2. I # {} => Min(I) \in I
  BY FirstOf
<1> QED
  BY <1>1, <1>2

LEMMA IdentityFound ==
    ASSUME NEW result, Len(result) \in Nat, NEW device, NEW i,
           i = IdentityMatch(result, device)
    PROVE  \/ i \in 1..Len(result) /\ (/\ result[i].device.alias = device.alias
                                       /\ result[i].device.model = device.model)
           \/ /\ i = 0
              /\ \A j \in 1..Len(result) : ~ (/\ result[j].device.alias = device.alias
                                              /\ result[j].device.model = device.model)
<1> DEFINE I == {j \in 1..Len(result) : /\ result[j].device.alias = device.alias
                                        /\ result[j].device.model = device.model}
<1>1. i = IF I # {} THEN Min(I) ELSE 0
  BY DEF IdentityMatch, SelectInSeq
<1>2. I # {} => Min(I) \in I
  BY FirstOf
<1> QED
  BY <1>1, <1>2

LEMMA KeyFound ==
    ASSUME NEW result, Len(result) \in Nat, NEW key, NEW i,
           i = KeyMatch(result, key)
    PROVE  \/ i \in 1..Len(result) /\ result[i].key = key
           \/ /\ i = 0
              /\ \A j \in 1..Len(result) : ~ (result[j].key = key)
<1> DEFINE I == {j \in 1..Len(result) : result[j].key = key}
<1>1. i = IF I # {} THEN Min(I) ELSE 0
  BY DEF KeyMatch, SelectInSeq
<1>2. I # {} => Min(I) \in I
  BY FirstOf
<1> QED
  BY <1>1, <1>2

LEMMA AliasFound ==
    ASSUME NEW entries, Len(entries) \in Nat, NEW name, NEW i,
           i = AliasMatch(entries, name)
    PROVE  \/ i \in 1..Len(entries) /\ (/\ entries[i].cloud = Unknown
                                        /\ entries[i].device.alias = name)
           \/ /\ i = 0
              /\ \A j \in 1..Len(entries) : ~ (/\ entries[j].cloud = Unknown
                                               /\ entries[j].device.alias = name)
<1> DEFINE I == {j \in 1..Len(entries) : /\ entries[j].cloud = Unknown
                                         /\ entries[j].device.alias = name}
<1>1. i = IF I # {} THEN Min(I) ELSE 0
  BY DEF AliasMatch, SelectInSeq
<1>2. I # {} => Min(I) \in I
  BY FirstOf
<1> QED
  BY <1>1, <1>2

LEMMA TwinFound ==
    ASSUME NEW entries, Len(entries) \in Nat, NEW row, NEW i,
           i = TwinMatch(entries, row)
    PROVE  \/ i \in 1..Len(entries) /\ (/\ row.fp # Unknown
                                        /\ entries[i].cloud = Unknown
                                        /\ row.fp \in CertHashes(entries[i].device))
           \/ /\ i = 0
              /\ \A j \in 1..Len(entries) : ~ (/\ row.fp # Unknown
                                               /\ entries[j].cloud = Unknown
                                               /\ row.fp \in CertHashes(entries[j].device))
<1> DEFINE I == {j \in 1..Len(entries) : /\ row.fp # Unknown
                                         /\ entries[j].cloud = Unknown
                                         /\ row.fp \in CertHashes(entries[j].device)}
<1>1. i = IF I # {} THEN Min(I) ELSE 0
  BY DEF TwinMatch, SelectInSeq
<1>2. I # {} => Min(I) \in I
  BY FirstOf
<1> QED
  BY <1>1, <1>2

-----------------------------------------------------------------------------
(* The map of allDevices.                                                  *)

Announced == UNION {ToSet(l) : l \in LanLists \cup SignaledLists}
Aliases == {d.alias : d \in Announced} \cup {row.name : row \in UNION {ToSet(l) : l \in RowLists}}
Models == {d.model : d \in Announced} \cup {Unknown}
HttpEndpoints == {e \in {d.http[1] : d \in Announced} : e.cert # Unknown}
SigEndpoints == {d.sig[1] : d \in Announced}
Keys == {e.cert : e \in HttpEndpoints} \cup {e.token : e \in SigEndpoints}
Device == [alias : Aliases, model : Models, http : Seq(HttpEndpoints), sig : Seq(SigEndpoints)]
Keyed == [key : Keys, device : Device]

LanDevice == {d \in Device : /\ Len(d.http) = 1 /\ d.http[1].cert # Unknown
                             /\ d.sig = <<>>}
SignaledDevice == {d \in Device : Len(d.sig) = 1 /\ d.http = <<>>}

LEMMA ListTypes ==
    /\ LanLists \subseteq Seq(LanDevice)
    /\ SignaledLists \subseteq Seq(SignaledDevice)
<1>1. ASSUME NEW l \in LanLists PROVE l \in Seq(LanDevice)
  <2>1. l \in Seq(ToSet(l)) /\ \A d \in ToSet(l) : IsLanDevice(d)
    BY ListsAssumption
  <2>2. ASSUME NEW d \in ToSet(l) PROVE d \in LanDevice
    <3>1. d \in Announced
      BY DEF Announced
    <3>2. /\ d.http = <<d.http[1]>> /\ d.sig = <<>> /\ d.http[1].cert # Unknown
          /\ d = [alias |-> d.alias, model |-> d.model, http |-> d.http, sig |-> d.sig]
      BY <2>1 DEF IsLanDevice
    <3>3. d.http \in Seq(HttpEndpoints) /\ Len(d.http) = 1
      <4> DEFINE e == d.http[1]
      <4>1. e \in HttpEndpoints
        BY <3>1, <3>2 DEF HttpEndpoints
      <4>2. d.http = <<e>>
        BY <3>2
      <4> HIDE DEF e
      <4> QED
        BY <4>1, <4>2
    <3>5. d.sig \in Seq(SigEndpoints)
      BY <3>2
    <3>4. d.alias \in Aliases /\ d.model \in Models
      BY <3>1 DEF Aliases, Models
    <3> QED
      BY <3>2, <3>3, <3>4, <3>5 DEF LanDevice, Device
  <2> QED
    BY <2>1, <2>2
<1>2. ASSUME NEW l \in SignaledLists PROVE l \in Seq(SignaledDevice)
  <2>1. l \in Seq(ToSet(l)) /\ \A d \in ToSet(l) : IsSignaledDevice(d)
    BY ListsAssumption
  <2>2. ASSUME NEW d \in ToSet(l) PROVE d \in SignaledDevice
    <3>1. d \in Announced
      BY DEF Announced
    <3>2. /\ d.sig = <<d.sig[1]>> /\ d.http = <<>>
          /\ d = [alias |-> d.alias, model |-> d.model, http |-> d.http, sig |-> d.sig]
      BY <2>1 DEF IsSignaledDevice
    <3>3. d.sig \in Seq(SigEndpoints) /\ Len(d.sig) = 1
      <4> DEFINE e == d.sig[1]
      <4>1. e \in SigEndpoints
        BY <3>1 DEF SigEndpoints
      <4>2. d.sig = <<e>>
        BY <3>2
      <4> HIDE DEF e
      <4> QED
        BY <4>1, <4>2
    <3>5. d.http \in Seq(HttpEndpoints)
      BY <3>2
    <3>4. d.alias \in Aliases /\ d.model \in Models
      BY <3>1 DEF Aliases, Models
    <3> QED
      BY <3>2, <3>3, <3>4, <3>5 DEF SignaledDevice, Device
  <2> QED
    BY <2>1, <2>2
<1> QED
  BY <1>1, <1>2

\* A union with no endpoint, and with one.
LEMMA UnionOf ==
    ASSUME NEW s, NEW t, DOMAIN t = 1..Len(t)
    PROVE  /\ Len(t) = 0 => FoldLeft(AddEndpoint, s, t) = s
           /\ Len(t) = 1 => FoldLeft(AddEndpoint, s, t) = AddEndpoint(s, t[1])
<1> DEFINE P == [k \in {0, 1} |-> IF k = 0 THEN {s} ELSE {AddEndpoint(s, t[1])}]
<1>1. s \in P[0]
  OBVIOUS
<1>2. ASSUME NEW k \in Nat, NEW x \in P[k], k < Len(t), Len(t) = 0 \/ Len(t) = 1
      PROVE  AddEndpoint(x, t[k + 1]) \in P[k + 1]
  <2>1. k = 0
    BY <1>2
  <2> QED
    BY <2>1
<1>3. P[0] = {s} /\ P[1] = {AddEndpoint(s, t[1])}
  OBVIOUS
<1> HIDE DEF P
<1>4. ASSUME Len(t) = 0 \/ Len(t) = 1
      PROVE  FoldLeft(AddEndpoint, s, t) \in P[Len(t)]
  <2>1. Len(t) \in Nat
    BY <1>4
  <2>2. \A k \in Nat : \A x \in P[k] :
           k < Len(t) => AddEndpoint(x, t[k + 1]) \in P[k + 1]
    BY <1>2, <1>4
  <2> QED
    BY <1>1, <2>1, <2>2, EndpointsFolded
<1> QED
  BY <1>3, <1>4

\* What is merged into a device is added to its endpoints.
LEMMA MergedLan ==
    ASSUME NEW a \in Device, NEW b \in LanDevice
    PROVE  /\ MergeDevice(a, b) \in Device
           /\ MergeDevice(a, b).http = AddEndpoint(a.http, b.http[1])
           /\ MergeDevice(a, b).sig = a.sig
<1>1. /\ FoldLeft(AddEndpoint, a.http, b.http) = AddEndpoint(a.http, b.http[1])
      /\ FoldLeft(AddEndpoint, a.sig, b.sig) = a.sig
  <2>1. Len(b.http) = 1 /\ DOMAIN b.http = 1..Len(b.http)
    BY DEF LanDevice, Device
  <2>2. b.sig = <<>> /\ Len(b.sig) = 0 /\ DOMAIN b.sig = 1..Len(b.sig)
    BY DEF LanDevice
  <2> QED
    BY <2>1, <2>2, UnionOf
<1>2. b.http[1] \in HttpEndpoints
  BY DEF LanDevice, Device
<1>3. AddEndpoint(a.http, b.http[1]) \in Seq(HttpEndpoints)
  BY <1>2 DEF AddEndpoint, Device
<1> QED
  BY <1>1, <1>3 DEF MergeDevice, Device

LEMMA MergedSignaled ==
    ASSUME NEW a \in Device, NEW b \in SignaledDevice
    PROVE  /\ MergeDevice(a, b) \in Device
           /\ MergeDevice(a, b).http = a.http
           /\ MergeDevice(a, b).sig = AddEndpoint(a.sig, b.sig[1])
<1>1. /\ FoldLeft(AddEndpoint, a.sig, b.sig) = AddEndpoint(a.sig, b.sig[1])
      /\ FoldLeft(AddEndpoint, a.http, b.http) = a.http
  <2>1. Len(b.sig) = 1 /\ DOMAIN b.sig = 1..Len(b.sig)
    BY DEF SignaledDevice, Device
  <2>2. b.http = <<>> /\ Len(b.http) = 0 /\ DOMAIN b.http = 1..Len(b.http)
    BY DEF SignaledDevice
  <2> QED
    BY <2>1, <2>2, UnionOf
<1>2. b.sig[1] \in SigEndpoints
  BY DEF SignaledDevice, Device
<1>3. AddEndpoint(a.sig, b.sig[1]) \in Seq(SigEndpoints)
  BY <1>2 DEF AddEndpoint, Device
<1> QED
  BY <1>1, <1>3 DEF MergeDevice, Device

\* An endpoint is added at the end.
LEMMA Added ==
    ASSUME NEW E, NEW s \in Seq(E), NEW e \in E
    PROVE  /\ AddEndpoint(s, e) \in Seq(E)
           /\ AddEndpoint(s, e) # <<>>
           /\ ToSet(AddEndpoint(s, e)) = ToSet(s) \cup {e}
           /\ s # <<>> => AddEndpoint(s, e)[1] = s[1]
<1>1. CASE e \in ToSet(s)
  <2>1. AddEndpoint(s, e) = s
    BY <1>1 DEF AddEndpoint
  <2>2. s # <<>>
    BY <1>1 DEF ToSet
  <2>3. ToSet(s) \cup {e} = ToSet(s)
    BY <1>1
  <2> QED
    BY <2>1, <2>2, <2>3, Zenon
<1>2. CASE e \notin ToSet(s)
  <2> DEFINE t == Append(s, e)
  <2>1. /\ t \in Seq(E) /\ Len(t) = Len(s) + 1 /\ Len(s) \in Nat
        /\ DOMAIN t = 1..Len(t) /\ DOMAIN s = 1..Len(s)
        /\ \A i \in 1..Len(s) : t[i] = s[i]
        /\ t[Len(s) + 1] = e
    OBVIOUS
  <2>2. AddEndpoint(s, e) = t
    BY <1>2 DEF AddEndpoint
  <2> HIDE DEF t
  <2>3. ToSet(t) = ToSet(s) \cup {e}
    BY <2>1 DEF ToSet
  <2>4. t # <<>> /\ (s # <<>> => t[1] = s[1])
    BY <2>1
  <2> QED
    BY <2>1, <2>2, <2>3, <2>4
<1> QED
  BY <1>1, <1>2

\* The key of an entry is the certificate of all its HTTP endpoints or, when it
\* has none, the token of its first signaling endpoint.
IsKey(key, d) ==
    IF d.http # <<>> THEN CertHashes(d) = {key}
    ELSE d.sig # <<>> /\ d.sig[1].token = key
\* The maps allDevices makes.
Maps == {result \in Seq(Keyed) :
            /\ \A i \in DOMAIN result : IsKey(result[i].key, result[i].device)
            /\ \A i, j \in DOMAIN result : result[i].key = result[j].key => i = j}

LEMMA MapTypes ==
    ASSUME NEW result \in Maps
    PROVE  /\ Len(result) \in Nat /\ DOMAIN result = 1..Len(result)
           /\ \A i \in 1..Len(result) :
                 /\ result[i] \in Keyed
                 /\ result[i].device \in Device
                 /\ IsKey(result[i].key, result[i].device)
<1>1. result \in Seq(Keyed) /\ \A i \in DOMAIN result : IsKey(result[i].key, result[i].device)
  BY Zenon DEF Maps
<1>2. Len(result) \in Nat /\ DOMAIN result = 1..Len(result)
  BY <1>1
<1>3. \A i \in 1..Len(result) : result[i] \in Keyed
  BY <1>1
<1>4. \A x \in Keyed : x.device \in Device
  BY DEF Keyed
<1> QED
  BY <1>1, <1>2, <1>3, <1>4, Zenon

\* A device may be changed if its key stays right.
LEMMA MergedAt ==
    ASSUME NEW result \in Maps, NEW i \in 1..Len(result), NEW device,
           MergeDevice(result[i].device, device) \in Device,
           IsKey(result[i].key, MergeDevice(result[i].device, device))
    PROVE  MergeAt(result, i, device) \in Maps
<1> DEFINE r == MergeAt(result, i, device)
           m == MergeDevice(result[i].device, device)
           x == [result[i] EXCEPT !.device = m]
<1>1. /\ result \in Seq(Keyed) /\ Len(result) \in Nat /\ DOMAIN result = 1..Len(result)
      /\ \A j \in 1..Len(result) : result[j] \in Keyed /\ IsKey(result[j].key, result[j].device)
  BY MapTypes DEF Maps
<1>2. x \in Keyed /\ x.key = result[i].key /\ x.device = m
  BY <1>1 DEF Keyed
<1>3. r = [result EXCEPT ![i] = x]
  BY DEF MergeAt
<1> HIDE DEF r, x, m
<1>4. /\ r \in Seq(Keyed) /\ DOMAIN r = 1..Len(result)
      /\ r[i] = x /\ \A j \in 1..Len(result) : j # i => r[j] = result[j]
  BY <1>1, <1>2, <1>3
<1>5. \A j \in 1..Len(result) : r[j].key = result[j].key /\ IsKey(r[j].key, r[j].device)
  BY <1>1, <1>2, <1>4 DEF m
<1>6. \A j, k \in 1..Len(result) : result[j].key = result[k].key => j = k
  BY <1>1 DEF Maps
<1> QED
  BY <1>4, <1>5, <1>6 DEF Maps, r

\* A new entry takes the place of the one with its key.
LEMMA PutIn ==
    ASSUME NEW result \in Maps, NEW key \in Keys, NEW device \in Device,
           IsKey(key, device)
    PROVE  Put(result, key, device) \in Maps
<1> DEFINE entry == [key |-> key, device |-> device]
<1>1. /\ result \in Seq(Keyed) /\ Len(result) \in Nat /\ DOMAIN result = 1..Len(result)
      /\ \A j \in 1..Len(result) : result[j] \in Keyed /\ IsKey(result[j].key, result[j].device)
      /\ \A j, k \in 1..Len(result) : result[j].key = result[k].key => j = k
  BY MapTypes DEF Maps
<1>0. Len(result) \in Nat
  BY <1>1
<1>2. entry \in Keyed /\ entry.key = key /\ entry.device = device
  BY DEF Keyed
<1>3. PICK i : i = KeyMatch(result, key)
  OBVIOUS
<1>4. Put(result, key, device) = IF i = 0 THEN Append(result, entry)
                                 ELSE ReplaceAt(result, i, entry)
  BY <1>3 DEF Put
<1> HIDE DEF entry
<1>5. CASE i = 0
  <2>1. \A j \in 1..Len(result) : result[j].key # key
    <3>1. \/ i \in 1..Len(result) /\ result[i].key = key
          \/ /\ i = 0
             /\ \A j \in 1..Len(result) : ~ (result[j].key = key)
      BY <1>0, <1>3, KeyFound
    <3> QED
      BY <1>1, <1>5, <3>1
  <2> DEFINE r == Append(result, entry)
  <2>2. /\ r \in Seq(Keyed) /\ Len(r) = Len(result) + 1 /\ DOMAIN r = 1..(Len(result) + 1)
        /\ \A j \in 1..Len(result) : r[j] = result[j]
        /\ r[Len(result) + 1] = entry
    BY <1>1, <1>2
  <2> HIDE DEF r
  <2>3. \A j \in DOMAIN r : IsKey(r[j].key, r[j].device)
    BY <1>1, <1>2, <2>2
  <2>4. \A j, k \in DOMAIN r : r[j].key = r[k].key => j = k
    BY <1>1, <1>2, <2>1, <2>2
  <2>5. r \in Maps
    BY <2>2, <2>3, <2>4 DEF Maps
  <2> QED
    BY <1>4, <1>5, <2>5 DEF r
<1>6. CASE i # 0
  <2>1. i \in 1..Len(result) /\ result[i].key = key
    BY <1>1, <1>3, <1>6, KeyFound
  <2> DEFINE r == [result EXCEPT ![i] = entry]
  <2>2. Put(result, key, device) = r
    BY <1>4, <1>6 DEF ReplaceAt
  <2>3. /\ r \in Seq(Keyed) /\ DOMAIN r = 1..Len(result)
        /\ r[i] = entry /\ \A j \in 1..Len(result) : j # i => r[j] = result[j]
    BY <1>1, <1>2, <2>1
  <2> HIDE DEF r
  <2>4. \A j \in 1..Len(result) : r[j].key = result[j].key /\ IsKey(r[j].key, r[j].device)
    BY <1>1, <1>2, <2>1, <2>3
  <2>5. r \in Maps
    BY <1>1, <2>3, <2>4 DEF Maps
  <2> QED
    BY <2>2, <2>5
<1> QED
  BY <1>5, <1>6

LEMMA LanCollapsed ==
    ASSUME NEW result \in Maps, NEW device \in LanDevice
    PROVE  CollapseLan(result, device) \in Maps
<1>1. /\ device \in Device /\ Len(device.http) = 1 /\ device.http \in Seq(HttpEndpoints)
      /\ device.http[1] \in HttpEndpoints /\ device.http # <<>>
      /\ device.http[1].cert \in Keys
  BY DEF LanDevice, Device, Keys
<1>2. CertHashes(device) = {device.http[1].cert}
  <2>1. ToSet(device.http) = {device.http[1]}
    BY <1>1 DEF ToSet
  <2> QED
    BY <2>1 DEF CertHashes
<1>3. PICK i : i = CertHashMatch(result, device)
  OBVIOUS
<1>4. Len(result) \in Nat
  BY MapTypes
<1>5. CASE i = 0
  <2>1. CollapseLan(result, device) = Put(result, device.http[1].cert, device)
    BY <1>3, <1>5 DEF CollapseLan
  <2>2. IsKey(device.http[1].cert, device)
    BY <1>1, <1>2 DEF IsKey
  <2> QED
    BY <1>1, <2>1, <2>2, PutIn
<1>6. CASE i # 0
  <2>1. CollapseLan(result, device) = MergeAt(result, i, device)
    BY <1>3, <1>6 DEF CollapseLan
  <2>2. /\ i \in 1..Len(result)
        /\ CertHashes(result[i].device) \cap CertHashes(device) # {}
    BY <1>3, <1>4, <1>6, CertFound
  <2> DEFINE a == result[i].device
             m == MergeDevice(a, device)
  <2>3. a \in Device /\ IsKey(result[i].key, a) /\ a.http \in Seq(HttpEndpoints)
    BY <2>2, MapTypes DEF Device
  <2>4. m \in Device /\ m.http = AddEndpoint(a.http, device.http[1])
    BY <2>3, MergedLan
  <2> HIDE DEF a, m
  <2>5. m.http # <<>> /\ ToSet(m.http) = ToSet(a.http) \cup {device.http[1]}
    <3>1. \A s \in Seq(HttpEndpoints), e \in HttpEndpoints :
             AddEndpoint(s, e) # <<>> /\ ToSet(AddEndpoint(s, e)) = ToSet(s) \cup {e}
      BY Added
    <3> QED
      BY <1>1, <2>3, <2>4, <3>1, Zenon
  <2>6. CertHashes(m) = CertHashes(a) \cup CertHashes(device)
    BY <1>2, <2>5 DEF CertHashes
  <2>7. CertHashes(a) = {result[i].key}
    <3>1. a.http # <<>>
      BY <2>2 DEF a, CertHashes, ToSet
    <3> QED
      BY <2>3, <3>1 DEF IsKey
  <2>8. CertHashes(m) = {result[i].key}
    BY <1>2, <2>2, <2>6, <2>7 DEF a
  <2>9. IsKey(result[i].key, m)
    BY <2>5, <2>8 DEF IsKey
  <2> QED
    BY <2>1, <2>2, <2>4, <2>9, MergedAt DEF m, a
<1> QED
  BY <1>5, <1>6

LEMMA SignalingMerged ==
    ASSUME NEW result \in Maps, NEW device \in SignaledDevice
    PROVE  MergeSignaling(result, device) \in Maps
<1>1. /\ device \in Device /\ Len(device.sig) = 1 /\ device.sig \in Seq(SigEndpoints)
      /\ device.sig[1] \in SigEndpoints /\ device.sig # <<>> /\ device.http = <<>>
      /\ device.sig[1].token \in Keys
  <2>1. /\ device \in Device /\ Len(device.sig) = 1 /\ device.http = <<>>
        /\ device.sig \in Seq(SigEndpoints)
    BY DEF SignaledDevice, Device
  <2>2. device.sig[1] \in SigEndpoints /\ device.sig # <<>>
    <3> \A s \in Seq(SigEndpoints) : Len(s) = 1 => s[1] \in SigEndpoints /\ s # <<>>
      OBVIOUS
    <3> QED
      BY <2>1
  <2> QED
    BY <2>1, <2>2 DEF Keys
<1>3. PICK i : i = IdentityMatch(result, device)
  OBVIOUS
<1>4. Len(result) \in Nat
  BY MapTypes
<1>5. CASE i = 0
  <2>1. MergeSignaling(result, device) = Put(result, device.sig[1].token, device)
    BY <1>3, <1>5 DEF MergeSignaling, Token
  <2>2. IsKey(device.sig[1].token, device)
    BY <1>1 DEF IsKey
  <2> QED
    BY <1>1, <2>1, <2>2, PutIn
<1>6. CASE i # 0
  <2>1. MergeSignaling(result, device) = MergeAt(result, i, device)
    BY <1>3, <1>6 DEF MergeSignaling
  <2>2. i \in 1..Len(result)
    BY <1>3, <1>4, <1>6, IdentityFound
  <2> DEFINE a == result[i].device
             m == MergeDevice(a, device)
  <2>3. a \in Device /\ IsKey(result[i].key, a) /\ a.sig \in Seq(SigEndpoints)
    BY <2>2, MapTypes DEF Device
  <2>4. m \in Device /\ m.http = a.http /\ m.sig = AddEndpoint(a.sig, device.sig[1])
    BY <2>3, MergedSignaled
  <2> HIDE DEF a, m
  <2>5. m.sig # <<>> /\ (a.sig # <<>> => m.sig[1] = a.sig[1])
    <3>1. \A s \in Seq(SigEndpoints), e \in SigEndpoints :
             /\ AddEndpoint(s, e) # <<>>
             /\ s # <<>> => AddEndpoint(s, e)[1] = s[1]
      BY Added
    <3> QED
      BY <1>1, <2>3, <2>4, <3>1, Zenon
  <2>6. CertHashes(m) = CertHashes(a)
    BY <2>4 DEF CertHashes
  <2>9. IsKey(result[i].key, m)
    BY <2>3, <2>4, <2>5, <2>6 DEF IsKey
  <2> QED
    BY <2>1, <2>2, <2>4, <2>9, MergedAt DEF m, a
<1> QED
  BY <1>5, <1>6

\* What the lists of devices are merged into: no certificate in two of the devices,
\* none with two, and none listed twice.
Networks == {l \in Seq(Device) :
                /\ \A i \in DOMAIN l : \A c, e \in CertHashes(l[i]) : c = e
                /\ \A i, j \in DOMAIN l :
                      /\ CertHashes(l[i]) \cap CertHashes(l[j]) # {} => i = j
                      /\ l[i].http = l[j].http /\ l[i].sig = l[j].sig => i = j}

LEMMA AllDevicesOf ==
    ASSUME NEW lan \in LanLists, NEW signaled \in SignaledLists
    PROVE  AllDevices(lan, signaled) \in Networks
<1>1. /\ lan \in Seq(LanDevice) /\ signaled \in Seq(SignaledDevice)
      /\ Len(lan) \in Nat /\ DOMAIN lan = 1..Len(lan)
      /\ Len(signaled) \in Nat /\ DOMAIN signaled = 1..Len(signaled)
      /\ \A k \in 1..Len(lan) : lan[k] \in LanDevice
      /\ \A k \in 1..Len(signaled) : signaled[k] \in SignaledDevice
  BY ListTypes
<1> DEFINE P == [k \in Nat |-> Maps]
           first == FoldLeft(CollapseLan, <<>>, lan)
           entries == FoldLeft(MergeSignaling, first, signaled)
           network == [i \in DOMAIN entries |-> entries[i].device]
<1>2. <<>> \in Maps
  BY DEF Maps
<1>3. \A k \in Nat : P[k] = Maps
  OBVIOUS
<1> HIDE DEF P
<1>4. first \in Maps
  <2>1. \A k \in Nat : \A x \in P[k] : k < Len(lan) => CollapseLan(x, lan[k + 1]) \in P[k + 1]
    BY <1>1, <1>3, LanCollapsed
  <2>2. <<>> \in P[0]
    BY <1>2, <1>3
  <2>3. first \in P[Len(lan)]
    BY <1>1, <2>1, <2>2, LanFolded
  <2> HIDE DEF first
  <2> QED
    BY <1>1, <1>3, <2>3
<1>5. entries \in Maps
  <2> HIDE DEF first
  <2>1. \A k \in Nat : \A x \in P[k] :
           k < Len(signaled) => MergeSignaling(x, signaled[k + 1]) \in P[k + 1]
    BY <1>1, <1>3, SignalingMerged
  <2>2. first \in P[0]
    BY <1>3, <1>4
  <2>3. entries \in P[Len(signaled)]
    BY <1>1, <2>1, <2>2, SignalingFolded
  <2> HIDE DEF entries
  <2> QED
    BY <1>1, <1>3, <2>3
<1>6. AllDevices(lan, signaled) = network
  BY DEF AllDevices
<1> HIDE DEF entries
<1>7. /\ Len(entries) \in Nat /\ DOMAIN entries = 1..Len(entries)
      /\ \A i \in 1..Len(entries) : /\ entries[i].device \in Device
                                    /\ IsKey(entries[i].key, entries[i].device)
      /\ \A i, j \in 1..Len(entries) : entries[i].key = entries[j].key => i = j
  BY <1>5, MapTypes DEF Maps
<1>8. /\ network \in Seq(Device) /\ DOMAIN network = 1..Len(entries)
      /\ \A i \in 1..Len(entries) : network[i] = entries[i].device
  BY <1>7
<1> HIDE DEF network
<1>9. \A i \in DOMAIN network : \A c, e \in CertHashes(network[i]) : c = e
  <2> SUFFICES ASSUME NEW i \in DOMAIN network,
                      NEW c \in CertHashes(network[i]), NEW e \in CertHashes(network[i])
               PROVE  c = e
    OBVIOUS
  <2>1. network[i].http # <<>>
    BY DEF CertHashes, ToSet
  <2>2. IsKey(entries[i].key, network[i])
    BY <1>7, <1>8
  <2>3. CertHashes(network[i]) = {entries[i].key}
    BY <2>1, <2>2, Zenon DEF IsKey
  <2> QED
    BY <2>3
<1>10. ASSUME NEW i \in DOMAIN network, NEW j \in DOMAIN network,
              CertHashes(network[i]) \cap CertHashes(network[j]) # {}
       PROVE  i = j
  <2>1. \A k \in {i, j} : CertHashes(network[k]) = {entries[k].key}
    <3>1. \A k \in {i, j} : network[k].http # <<>>
      BY <1>10 DEF CertHashes, ToSet
    <3>2. \A k \in {i, j} : IsKey(entries[k].key, network[k])
      BY <1>7, <1>8
    <3> QED
      BY <3>1, <3>2, Zenon DEF IsKey
  <2> QED
    BY <1>7, <1>8, <1>10, <2>1
<1>11. ASSUME NEW i \in DOMAIN network, NEW j \in DOMAIN network,
              network[i].http = network[j].http, network[i].sig = network[j].sig
       PROVE  i = j
  <2>1. CertHashes(network[i]) = CertHashes(network[j])
    BY <1>11 DEF CertHashes
  <2>2. IsKey(entries[i].key, network[i]) /\ IsKey(entries[j].key, network[j])
    BY <1>7, <1>8
  <2>3. entries[i].key = entries[j].key
    BY <1>11, <2>1, <2>2 DEF IsKey
  <2> QED
    BY <1>7, <1>8, <2>3
<1> QED
  BY <1>6, <1>8, <1>9, <1>10, <1>11 DEF Networks

-----------------------------------------------------------------------------
(* The list of mergeNetworkDevices.                                        *)

Rows == UNION {ToSet(l) : l \in RowLists}
CloudIds == {row.id : row \in Rows} \cup {Unknown}
Entry == [device : Device, cloud : CloudIds, reachable : BOOLEAN]
IsShown(d) == Listed(d, OwnCert, OwnIps)
IsAnother(row) == IsOther(row, CurrentDeviceId, OwnCert)

\* The entries after the first k devices of the network.
KnownOf(network, k) ==
    {es \in Seq(Entry) :
        /\ \A i \in DOMAIN es :
              /\ es[i].cloud = Unknown /\ es[i].reachable
              /\ \E j \in 1..k : IsShown(network[j]) /\ es[i].device = network[j]
        /\ \A j \in 1..k : IsShown(network[j]) =>
              \E i \in DOMAIN es : es[i].device = network[j]
        /\ \A i, j \in DOMAIN es : es[i].device = es[j].device => i = j}

LEMMA NetworkTypes ==
    ASSUME NEW network \in Networks
    PROVE  /\ Len(network) \in Nat /\ DOMAIN network = 1..Len(network)
           /\ \A j \in 1..Len(network) : network[j] \in Device
           /\ \A i, j \in 1..Len(network) : network[i] = network[j] => i = j
<1>1. network \in Seq(Device)
  BY DEF Networks
<1>2. /\ Len(network) \in Nat /\ DOMAIN network = 1..Len(network)
      /\ \A j \in 1..Len(network) : network[j] \in Device
  BY <1>1
<1>3. \A i, j \in DOMAIN network :
         network[i].http = network[j].http /\ network[i].sig = network[j].sig => i = j
  BY Zenon DEF Networks
<1> QED
  BY <1>2, <1>3

LEMMA ListedAdded ==
    ASSUME NEW network \in Networks, NEW k \in Nat, k < Len(network),
           NEW es \in KnownOf(network, k)
    PROVE  AddListed(es, network[k + 1], OwnCert, OwnIps) \in KnownOf(network, k + 1)
<1> DEFINE d == network[k + 1]
           x == [device |-> d, cloud |-> Unknown, reachable |-> TRUE]
           r == Append(es, x)
<1>1. /\ es \in Seq(Entry) /\ Len(es) \in Nat /\ DOMAIN es = 1..Len(es)
      /\ \A i \in 1..Len(es) :
            /\ es[i].cloud = Unknown /\ es[i].reachable
            /\ \E j \in 1..k : IsShown(network[j]) /\ es[i].device = network[j]
      /\ \A j \in 1..k : IsShown(network[j]) =>
            \E i \in 1..Len(es) : es[i].device = network[j]
      /\ \A i, j \in 1..Len(es) : es[i].device = es[j].device => i = j
  BY DEF KnownOf
<1>2. /\ k + 1 \in 1..Len(network) /\ d \in Device /\ 1..k \subseteq 1..(k + 1)
      /\ \A j \in 1..(k + 1) : j \in 1..k \/ j = k + 1
      /\ \A j \in 1..k : network[j] # d
  BY NetworkTypes
<1>3. x \in Entry /\ x.device = d /\ x.cloud = Unknown /\ x.reachable
  BY <1>2 DEF Entry, CloudIds
<1> HIDE DEF d, x
<1>4. CASE ~ IsShown(d)
  <2>1. AddListed(es, d, OwnCert, OwnIps) = es
    BY <1>4 DEF AddListed, IsShown
  <2>2. es \in KnownOf(network, k + 1)
    <3>1. \A i \in DOMAIN es :
            /\ es[i].cloud = Unknown /\ es[i].reachable
            /\ \E j \in 1..(k + 1) : IsShown(network[j]) /\ es[i].device = network[j]
      BY <1>1, <1>2
    <3>2. \A j \in 1..(k + 1) : IsShown(network[j]) =>
            \E i \in DOMAIN es : es[i].device = network[j]
      BY <1>1, <1>2, <1>4 DEF d
    <3> QED
      BY <1>1, <3>1, <3>2 DEF KnownOf
  <2> QED
    BY <2>1, <2>2 DEF d
<1>5. CASE IsShown(d)
  <2>1. AddListed(es, d, OwnCert, OwnIps) = r
    BY <1>5 DEF AddListed, IsShown, x
  <2>2. /\ r \in Seq(Entry) /\ DOMAIN r = 1..(Len(es) + 1)
        /\ \A i \in 1..Len(es) : r[i] = es[i]
        /\ r[Len(es) + 1] = x
    BY <1>1, <1>3
  <2> HIDE DEF r
  <2>3. \A i \in DOMAIN r : i \in 1..Len(es) \/ i = Len(es) + 1
    BY <1>1, <2>2
  <2>4. \A i \in DOMAIN r :
          /\ r[i].cloud = Unknown /\ r[i].reachable
          /\ \E j \in 1..(k + 1) : IsShown(network[j]) /\ r[i].device = network[j]
    <3> SUFFICES ASSUME NEW i \in DOMAIN r
                 PROVE  /\ r[i].cloud = Unknown /\ r[i].reachable
                        /\ \E j \in 1..(k + 1) : IsShown(network[j]) /\ r[i].device = network[j]
      OBVIOUS
    <3>1. CASE i \in 1..Len(es)
      BY <1>1, <1>2, <2>2, <3>1
    <3>2. CASE i = Len(es) + 1
      <4>1. k + 1 \in 1..(k + 1)
        OBVIOUS
      <4> QED
        BY <1>3, <1>5, <2>2, <3>2, <4>1 DEF d
    <3> QED
      BY <2>3, <3>1, <3>2
  <2>5. \A j \in 1..(k + 1) : IsShown(network[j]) =>
            \E i \in DOMAIN r : r[i].device = network[j]
    <3> SUFFICES ASSUME NEW j \in 1..(k + 1), IsShown(network[j])
                 PROVE  \E i \in DOMAIN r : r[i].device = network[j]
      OBVIOUS
    <3>1. CASE j \in 1..k
      <4>1. PICK i \in 1..Len(es) : es[i].device = network[j]
        BY <1>1, <3>1
      <4>2. i \in DOMAIN r /\ r[i] = es[i]
        BY <1>1, <2>2
      <4> QED
        BY <4>1, <4>2
    <3>2. CASE j = k + 1
      <4>1. Len(es) + 1 \in DOMAIN r
        BY <1>1, <2>2
      <4> QED
        BY <1>3, <2>2, <3>2, <4>1 DEF d
    <3> QED
      BY <1>2, <3>1, <3>2
  <2>6. \A i \in 1..Len(es) : es[i].device # d
    BY <1>1, <1>2
  <2>7. \A i, j \in DOMAIN r : r[i].device = r[j].device => i = j
    <3> SUFFICES ASSUME NEW i \in DOMAIN r, NEW j \in DOMAIN r, r[i].device = r[j].device
                 PROVE  i = j
      OBVIOUS
    <3>1. CASE i \in 1..Len(es) /\ j \in 1..Len(es)
      BY <1>1, <2>2, <3>1
    <3>2. CASE i = Len(es) + 1 /\ j \in 1..Len(es)
      BY <1>3, <2>2, <2>6, <3>2
    <3>3. CASE i \in 1..Len(es) /\ j = Len(es) + 1
      BY <1>3, <2>2, <2>6, <3>3
    <3>4. CASE i = Len(es) + 1 /\ j = Len(es) + 1
      BY <3>4
    <3> QED
      BY <2>3, <3>1, <3>2, <3>3, <3>4
  <2>8. r \in KnownOf(network, k + 1)
    BY <2>2, <2>4, <2>5, <2>7 DEF KnownOf
  <2> QED
    BY <2>1, <2>8 DEF d
<1> QED
  BY <1>4, <1>5

LEMMA KnownListed ==
    ASSUME NEW network \in Networks
    PROVE  FoldLeft(LAMBDA entries, device : AddListed(entries, device, OwnCert, OwnIps),
                    <<>>, network) \in KnownOf(network, Len(network))
<1> DEFINE P == [k \in Nat |-> KnownOf(network, k)]
<1>1. \A k \in Nat : P[k] = KnownOf(network, k)
  OBVIOUS
<1> HIDE DEF P
<1>2. Len(network) \in Nat /\ DOMAIN network = 1..Len(network)
  BY NetworkTypes
<1>3. <<>> \in P[0]
  <2>1. <<>> \in Seq(Entry) /\ DOMAIN <<>> = {} /\ 1..0 = {}
    OBVIOUS
  <2>2. <<>> \in KnownOf(network, 0)
    BY <2>1, Zenon DEF KnownOf
  <2> QED
    BY <1>1, <2>2
<1>4. \A k \in Nat : \A x \in P[k] :
         k < Len(network) => AddListed(x, network[k + 1], OwnCert, OwnIps) \in P[k + 1]
  BY <1>1, ListedAdded
<1>5. FoldLeft(LAMBDA entries, device : AddListed(entries, device, OwnCert, OwnIps),
               <<>>, network) \in P[Len(network)]
  BY <1>2, <1>3, <1>4, ListedFolded
<1> QED
  BY <1>1, <1>2, <1>5

\* What the rows are folded into: the entries of the devices shown.
Bases == {known \in Seq(Entry) :
            /\ \A i \in DOMAIN known : known[i].cloud = Unknown /\ known[i].reachable
            /\ \A i \in DOMAIN known : \A c, e \in CertHashes(known[i].device) : c = e
            /\ \A i, j \in DOMAIN known :
                  /\ CertHashes(known[i].device) \cap CertHashes(known[j].device) # {}
                        => i = j
                  /\ (/\ known[i].device.http = known[j].device.http
                      /\ known[i].device.sig = known[j].device.sig)
                        => i = j}

\* An entry of a device keeps its endpoints, and its name until it gets a row; a
\* row without one gets an entry that has no endpoint.
OfDevices(es, known) ==
    /\ Len(es) >= Len(known)
    /\ \A i \in 1..Len(known) :
          /\ es[i].reachable
          /\ es[i].device.http = known[i].device.http
          /\ es[i].device.sig = known[i].device.sig
          /\ es[i].cloud = Unknown => es[i].device = known[i].device
    /\ \A i \in (Len(known) + 1)..Len(es) :
          /\ ~ es[i].reachable /\ es[i].cloud # Unknown
          /\ es[i].device.http = <<>> /\ es[i].device.sig = <<>>

\* The first k rows are in one entry each, and the entries have no other.
OfRows(es, rows, k) ==
    /\ \A j \in 1..k : IsAnother(rows[j]) => \E i \in 1..Len(es) : es[i].cloud = rows[j].id
    /\ \A i \in 1..Len(es) : es[i].cloud # Unknown =>
          \E j \in 1..k : IsAnother(rows[j]) /\ es[i].cloud = rows[j].id
    /\ \A i, j \in 1..Len(es) : es[i].cloud = es[j].cloud /\ es[i].cloud # Unknown => i = j

\* A device is given a row for its certificate or its name, and is given one
\* when a row has its certificate.
OfTwins(es, known, rows, k) ==
    \A i \in 1..Len(known), j \in 1..k : IsAnother(rows[j]) =>
        /\ es[i].cloud = rows[j].id => \/ rows[j].fp \in CertHashes(known[i].device)
                                       \/ rows[j].name = known[i].device.alias
        /\ rows[j].fp \in CertHashes(known[i].device) => es[i].cloud # Unknown

FoldedOf(known, rows, k) ==
    {es \in Seq(Entry) : /\ OfDevices(es, known)
                         /\ OfRows(es, rows, k)
                         /\ OfTwins(es, known, rows, k)}

LEMMA EntryTypes ==
    ASSUME NEW es \in Seq(Entry)
    PROVE  /\ Len(es) \in Nat /\ DOMAIN es = 1..Len(es)
           /\ \A i \in 1..Len(es) : es[i] \in Entry /\ es[i].device \in Device
<1>1. \A e \in Entry : e.device \in Device
  BY DEF Entry
<1> QED
  BY <1>1

\* A certificate is not Unknown.
LEMMA CertsKnown ==
    ASSUME NEW d \in Device
    PROVE  Unknown \notin CertHashes(d)
<1>1. \A s \in Seq(HttpEndpoints) : \A e \in ToSet(s) : e \in HttpEndpoints
  BY DEF ToSet
<1>2. d.http \in Seq(HttpEndpoints)
  BY DEF Device
<1> QED
  BY <1>1, <1>2 DEF CertHashes, HttpEndpoints

LEMMA RowTypes ==
    ASSUME NEW rows \in RowLists
    PROVE  /\ Len(rows) \in Nat /\ DOMAIN rows = 1..Len(rows)
           /\ \A j \in 1..Len(rows) :
                 /\ rows[j] \in ToSet(rows)
                 /\ rows[j].id \in CloudIds /\ rows[j].id # Unknown
                 /\ rows[j].name \in Aliases
           /\ \A i, j \in 1..Len(rows) : rows[i].id = rows[j].id => i = j
<1>1. /\ rows \in Seq(ToSet(rows)) /\ \A row \in ToSet(rows) : row.id # Unknown
      /\ \A i, j \in DOMAIN rows : rows[i].id = rows[j].id => i = j
  BY ListsAssumption
<1>2. Len(rows) \in Nat /\ DOMAIN rows = 1..Len(rows)
  BY <1>1
<1>3. \A j \in 1..Len(rows) : rows[j] \in ToSet(rows) /\ rows[j] \in Rows
  <2>1. \A j \in 1..Len(rows) : rows[j] \in ToSet(rows)
    BY <1>2 DEF ToSet
  <2> QED
    BY <2>1 DEF Rows
<1>4. \A row \in Rows : row.id \in CloudIds /\ row.name \in Aliases
  BY DEF CloudIds, Aliases, Rows
<1> QED
  BY <1>1, <1>2, <1>3, <1>4

\* A device that has the certificate of the row is the one found, or has its row.
LEMMA TwinTaken ==
    ASSUME NEW known \in Bases, NEW rows, NEW k \in Nat,
           NEW es \in FoldedOf(known, rows, k), NEW row,
           NEW i \in 1..Len(known), row.fp \in CertHashes(known[i].device),
           es[i].cloud = Unknown
    PROVE  TwinMatch(es, row) = i
<1>1. /\ es \in Seq(Entry) /\ known \in Seq(Entry) /\ OfDevices(es, known)
  BY Zenon DEF FoldedOf, Bases
<1>2. Len(es) \in Nat /\ Len(known) \in Nat /\ DOMAIN known = 1..Len(known)
  BY <1>1, EntryTypes
<1>3. i \in 1..Len(es) /\ es[i].device = known[i].device
  BY <1>1, <1>2 DEF OfDevices
<1>4. row.fp # Unknown
  BY <1>1, <1>2, EntryTypes, CertsKnown
<1>5. PICK t : t = TwinMatch(es, row)
  OBVIOUS
<1>6. \/ t \in 1..Len(es) /\ (/\ row.fp # Unknown
                              /\ es[t].cloud = Unknown
                              /\ row.fp \in CertHashes(es[t].device))
      \/ /\ t = 0
         /\ \A j \in 1..Len(es) : ~ (/\ row.fp # Unknown
                                     /\ es[j].cloud = Unknown
                                     /\ row.fp \in CertHashes(es[j].device))
  BY <1>2, <1>5, TwinFound
<1>7. /\ t \in 1..Len(es) /\ es[t].cloud = Unknown
      /\ row.fp \in CertHashes(es[t].device)
  BY <1>3, <1>4, <1>6
<1>8. t \in 1..Len(known)
  BY <1>1, <1>2, <1>7 DEF OfDevices
<1>9. es[t].device = known[t].device
  BY <1>1, <1>7, <1>8 DEF OfDevices
<1>10. row.fp \in CertHashes(known[t].device) \cap CertHashes(known[i].device)
  BY <1>7, <1>9
<1>11. \A m, n \in 1..Len(known) :
          CertHashes(known[m].device) \cap CertHashes(known[n].device) # {} => m = n
  BY <1>2, Zenon DEF Bases
<1>12. t = i
  BY <1>8, <1>10, <1>11
<1> QED
  BY <1>5, <1>12

\* A row that is found its device.
LEMMA RowMatched ==
    ASSUME NEW known \in Bases, NEW rows \in RowLists, NEW k \in Nat, k < Len(rows),
           NEW es \in FoldedOf(known, rows, k),
           IsAnother(rows[k + 1]),
           NEW i, i = Match(es, rows[k + 1]), i # 0
    PROVE  Fold(es, rows[k + 1]) \in FoldedOf(known, rows, k + 1)
<1> DEFINE row == rows[k + 1]
           x == [es[i] EXCEPT !.cloud = row.id, !.device.alias = row.name]
           r == [es EXCEPT ![i].cloud = row.id, ![i].device.alias = row.name]
<1>1. /\ es \in Seq(Entry) /\ known \in Seq(Entry) /\ OfDevices(es, known)
      /\ OfRows(es, rows, k) /\ OfTwins(es, known, rows, k)
  BY Zenon DEF FoldedOf, Bases
<1>2. /\ Len(es) \in Nat /\ DOMAIN es = 1..Len(es)
      /\ \A j \in 1..Len(es) : es[j] \in Entry /\ es[j].device \in Device
  BY <1>1, EntryTypes
<1>3. Len(known) \in Nat /\ DOMAIN known = 1..Len(known)
  BY <1>1, EntryTypes
<1>4. /\ row.id \in CloudIds /\ row.id # Unknown /\ row.name \in Aliases
      /\ \A j \in 1..k : rows[j].id # row.id
      /\ \A j \in 1..(k + 1) : j \in 1..k \/ j = k + 1
      /\ k + 1 \in 1..(k + 1) /\ 1..k \subseteq 1..(k + 1)
  <2>1. /\ k + 1 \in 1..Len(rows)
        /\ \A j \in 1..k : j \in 1..Len(rows) /\ j # k + 1
    BY RowTypes
  <2> QED
    BY <2>1, RowTypes
<1>5. \/ i = TwinMatch(es, row)
      \/ TwinMatch(es, row) = 0 /\ i = AliasMatch(es, row.name)
  BY DEF Match
<1>6. /\ i \in 1..Len(es) /\ es[i].cloud = Unknown
      /\ row.fp \in CertHashes(es[i].device) \/ es[i].device.alias = row.name
  <2>1. CASE i = TwinMatch(es, row)
    <3>1. \/ i \in 1..Len(es) /\ (/\ row.fp # Unknown
                                  /\ es[i].cloud = Unknown
                                  /\ row.fp \in CertHashes(es[i].device))
          \/ /\ i = 0
             /\ \A j \in 1..Len(es) : ~ (/\ row.fp # Unknown
                                         /\ es[j].cloud = Unknown
                                         /\ row.fp \in CertHashes(es[j].device))
      BY <1>2, <2>1, TwinFound
    <3> QED
      BY <3>1
  <2>2. CASE i = AliasMatch(es, row.name)
    <3>1. \/ i \in 1..Len(es) /\ (es[i].cloud = Unknown /\ es[i].device.alias = row.name)
          \/ /\ i = 0
             /\ \A j \in 1..Len(es) : ~ (es[j].cloud = Unknown /\ es[j].device.alias = row.name)
      BY <1>2, <2>2, AliasFound
    <3> QED
      BY <3>1
  <2> QED
    BY <1>5, <2>1, <2>2
<1>7. i \in 1..Len(known) /\ es[i].device = known[i].device
  BY <1>1, <1>2, <1>3, <1>6 DEF OfDevices
<1>8. Fold(es, row) = r
  BY DEF Fold
<1>9. /\ x.cloud = row.id /\ x.reachable = es[i].reachable
      /\ x.device.http = es[i].device.http /\ x.device.sig = es[i].device.sig
      /\ x \in Entry
  BY <1>2, <1>4, <1>6 DEF Entry, Device
<1>10. r = [es EXCEPT ![i] = x]
  BY <1>2, <1>6
<1> HIDE DEF r, x
<1>11. /\ r \in Seq(Entry) /\ Len(r) = Len(es) /\ r[i] = x
       /\ \A j \in 1..Len(es) : j # i => r[j] = es[j]
  BY <1>1, <1>2, <1>6, <1>9, <1>10
<1> HIDE DEF row
<1>12. OfDevices(r, known)
  <2>1. Len(es) >= Len(known)
    BY <1>1 DEF OfDevices
  <2>2. ASSUME NEW j \in 1..Len(known)
        PROVE  /\ r[j].reachable
               /\ r[j].device.http = known[j].device.http
               /\ r[j].device.sig = known[j].device.sig
               /\ r[j].cloud = Unknown => r[j].device = known[j].device
    <3>1. /\ es[j].reachable
          /\ es[j].device.http = known[j].device.http
          /\ es[j].device.sig = known[j].device.sig
          /\ es[j].cloud = Unknown => es[j].device = known[j].device
      BY <1>1 DEF OfDevices
    <3>2. CASE j = i
      BY <1>4, <1>9, <1>11, <3>1, <3>2
    <3>3. CASE j # i
      <4>1. r[j] = es[j]
        BY <1>2, <1>3, <1>11, <2>1, <3>3
      <4> QED
        BY <3>1, <4>1
    <3> QED
      BY <3>2, <3>3
  <2>3. ASSUME NEW j \in (Len(known) + 1)..Len(r)
        PROVE  /\ ~ r[j].reachable /\ r[j].cloud # Unknown
               /\ r[j].device.http = <<>> /\ r[j].device.sig = <<>>
    <3>1. j \in (Len(known) + 1)..Len(es) /\ j # i /\ j \in 1..Len(es)
      BY <1>2, <1>3, <1>7, <1>11
    <3>2. r[j] = es[j]
      BY <1>11, <3>1
    <3> QED
      BY <1>1, <3>1, <3>2 DEF OfDevices
  <2> QED
    BY <1>11, <2>1, <2>2, <2>3 DEF OfDevices
<1>13. \A j \in 1..Len(es) : es[j].cloud # row.id
  BY <1>1, <1>4 DEF OfRows
<1>14. OfRows(r, rows, k + 1)
  <2>1. \A j \in 1..(k + 1) : IsAnother(rows[j]) => \E m \in 1..Len(r) : r[m].cloud = rows[j].id
    <3> SUFFICES ASSUME NEW j \in 1..(k + 1), IsAnother(rows[j])
                 PROVE  \E m \in 1..Len(r) : r[m].cloud = rows[j].id
      OBVIOUS
    <3>1. CASE j = k + 1
      BY <1>6, <1>9, <1>11, <3>1 DEF row
    <3>2. CASE j \in 1..k
      <4>1. PICK m \in 1..Len(es) : es[m].cloud = rows[j].id
        BY <1>1, <3>2 DEF OfRows
      <4>2. m # i
        <5>1. rows[j].id # Unknown
          <6>1. j \in 1..Len(rows)
            BY <3>2, RowTypes
          <6> QED
            BY <6>1, RowTypes
        <5> QED
          BY <1>6, <4>1, <5>1
      <4> QED
        BY <1>11, <4>1, <4>2
    <3> QED
      BY <1>4, <3>1, <3>2
  <2>2. \A m \in 1..Len(r) : r[m].cloud # Unknown =>
           \E j \in 1..(k + 1) : IsAnother(rows[j]) /\ r[m].cloud = rows[j].id
    <3> SUFFICES ASSUME NEW m \in 1..Len(r), r[m].cloud # Unknown
                 PROVE  \E j \in 1..(k + 1) : IsAnother(rows[j]) /\ r[m].cloud = rows[j].id
      OBVIOUS
    <3>1. CASE m = i
      BY <1>4, <1>9, <1>11, <3>1 DEF row
    <3>2. CASE m # i
      <4>1. m \in 1..Len(es) /\ r[m] = es[m]
        BY <1>11, <3>2
      <4>2. PICK j \in 1..k : IsAnother(rows[j]) /\ es[m].cloud = rows[j].id
        BY <1>1, <4>1 DEF OfRows
      <4> QED
        BY <1>4, <4>1, <4>2
    <3> QED
      BY <3>1, <3>2
  <2>3. \A m, n \in 1..Len(r) : r[m].cloud = r[n].cloud /\ r[m].cloud # Unknown => m = n
    BY <1>1, <1>9, <1>11, <1>13 DEF OfRows
  <2> QED
    BY <2>1, <2>2, <2>3 DEF OfRows
<1>15. OfTwins(r, known, rows, k + 1)
  <2> SUFFICES ASSUME NEW m \in 1..Len(known), NEW j \in 1..(k + 1), IsAnother(rows[j])
               PROVE  /\ r[m].cloud = rows[j].id =>
                            \/ rows[j].fp \in CertHashes(known[m].device)
                            \/ rows[j].name = known[m].device.alias
                      /\ rows[j].fp \in CertHashes(known[m].device) => r[m].cloud # Unknown
    BY DEF OfTwins
  <2>1. m \in 1..Len(es)
    BY <1>1, <1>2, <1>3 DEF OfDevices
  <2>2. CASE j = k + 1 /\ m = i
    BY <1>4, <1>6, <1>7, <1>9, <1>11, <2>2 DEF row
  <2>3. CASE j = k + 1 /\ m # i
    <3>1. r[m] = es[m] /\ es[m].cloud # row.id /\ rows[j] = row
      BY <1>11, <1>13, <2>1, <2>3 DEF row
    <3>2. ASSUME row.fp \in CertHashes(known[m].device), es[m].cloud = Unknown
          PROVE  FALSE
      <4>1. TwinMatch(es, row) = m
        BY <3>2, TwinTaken
      <4>2. m # 0
        BY <1>3
      <4> QED
        BY <1>5, <2>3, <4>1, <4>2
    <3> QED
      BY <3>1, <3>2
  <2>4. CASE j \in 1..k /\ m = i
    <3>1. rows[j].id # row.id
      BY <1>4, <2>4
    <3> QED
      BY <1>4, <1>9, <1>11, <2>4, <3>1
  <2>5. CASE j \in 1..k /\ m # i
    <3>1. r[m] = es[m]
      BY <1>11, <2>1, <2>5
    <3> QED
      BY <1>1, <2>5, <3>1 DEF OfTwins
  <2> QED
    BY <1>4, <2>2, <2>3, <2>4, <2>5
<1>16. r \in FoldedOf(known, rows, k + 1)
  BY <1>11, <1>12, <1>14, <1>15, Zenon DEF FoldedOf
<1> QED
  BY <1>8, <1>16 DEF row

\* A row that is not.
LEMMA RowAppended ==
    ASSUME NEW known \in Bases, NEW rows \in RowLists, NEW k \in Nat, k < Len(rows),
           NEW es \in FoldedOf(known, rows, k),
           IsAnother(rows[k + 1]), Match(es, rows[k + 1]) = 0
    PROVE  Fold(es, rows[k + 1]) \in FoldedOf(known, rows, k + 1)
<1> DEFINE row == rows[k + 1]
           x == [device |-> SynthesizeDevice(row), cloud |-> row.id, reachable |-> FALSE]
           r == Append(es, x)
<1>1. /\ es \in Seq(Entry) /\ known \in Seq(Entry) /\ OfDevices(es, known)
      /\ OfRows(es, rows, k) /\ OfTwins(es, known, rows, k)
  BY Zenon DEF FoldedOf, Bases
<1>2. /\ Len(es) \in Nat /\ DOMAIN es = 1..Len(es)
      /\ Len(known) \in Nat /\ DOMAIN known = 1..Len(known)
  BY <1>1, EntryTypes
<1>3. /\ row.id \in CloudIds /\ row.id # Unknown /\ row.name \in Aliases
      /\ \A j \in 1..k : rows[j].id # row.id
      /\ \A j \in 1..(k + 1) : j \in 1..k \/ j = k + 1
      /\ k + 1 \in 1..(k + 1) /\ 1..k \subseteq 1..(k + 1)
  <2>1. /\ k + 1 \in 1..Len(rows)
        /\ \A j \in 1..k : j \in 1..Len(rows) /\ j # k + 1
    BY RowTypes
  <2> QED
    BY <2>1, RowTypes
<1>4. TwinMatch(es, row) = 0
  BY DEF Match
<1>5. Fold(es, row) = r
  BY DEF Fold
<1>6. /\ x.cloud = row.id /\ ~ x.reachable
      /\ x.device.http = <<>> /\ x.device.sig = <<>>
      /\ x \in Entry
  BY <1>3 DEF Entry, Device, SynthesizeDevice, Models
<1> HIDE DEF r, x
<1>7. /\ r \in Seq(Entry) /\ Len(r) = Len(es) + 1 /\ r[Len(es) + 1] = x
      /\ \A j \in 1..Len(es) : r[j] = es[j]
      /\ \A j \in 1..Len(r) : j \in 1..Len(es) \/ j = Len(es) + 1
      /\ 1..Len(es) \subseteq 1..Len(r) /\ Len(es) + 1 \in 1..Len(r)
  <2> USE DEF r
  <2>1. /\ r \in Seq(Entry) /\ Len(r) = Len(es) + 1 /\ r[Len(es) + 1] = x
        /\ \A j \in 1..Len(es) : r[j] = es[j]
    BY <1>1, <1>2, <1>6
  <2> HIDE DEF r
  <2> QED
    BY <1>2, <2>1
<1> HIDE DEF row
<1>8. OfDevices(r, known)
  <2>1. Len(es) >= Len(known) /\ Len(r) >= Len(known)
    BY <1>1, <1>2, <1>7 DEF OfDevices
  <2>2. ASSUME NEW j \in 1..Len(known)
        PROVE  /\ r[j].reachable
               /\ r[j].device.http = known[j].device.http
               /\ r[j].device.sig = known[j].device.sig
               /\ r[j].cloud = Unknown => r[j].device = known[j].device
    <3>1. j \in 1..Len(es) /\ r[j] = es[j]
      BY <1>2, <1>7, <2>1
    <3> QED
      BY <1>1, <3>1 DEF OfDevices
  <2>3. ASSUME NEW j \in (Len(known) + 1)..Len(r)
        PROVE  /\ ~ r[j].reachable /\ r[j].cloud # Unknown
               /\ r[j].device.http = <<>> /\ r[j].device.sig = <<>>
    <3>1. CASE j = Len(es) + 1
      BY <1>3, <1>6, <1>7, <3>1
    <3>2. CASE j # Len(es) + 1
      <4>1. j \in (Len(known) + 1)..Len(es) /\ j \in 1..Len(es)
        BY <1>2, <1>7, <3>2
      <4>2. r[j] = es[j]
        BY <1>7, <4>1
      <4> QED
        BY <1>1, <4>1, <4>2 DEF OfDevices
    <3> QED
      BY <3>1, <3>2
  <2> QED
    BY <2>1, <2>2, <2>3 DEF OfDevices
<1>9. \A j \in 1..Len(es) : es[j].cloud # row.id
  BY <1>1, <1>3 DEF OfRows
<1>10. OfRows(r, rows, k + 1)
  <2>1. \A j \in 1..(k + 1) : IsAnother(rows[j]) => \E m \in 1..Len(r) : r[m].cloud = rows[j].id
    <3> SUFFICES ASSUME NEW j \in 1..(k + 1), IsAnother(rows[j])
                 PROVE  \E m \in 1..Len(r) : r[m].cloud = rows[j].id
      OBVIOUS
    <3>1. CASE j = k + 1
      BY <1>6, <1>7, <3>1 DEF row
    <3>2. CASE j \in 1..k
      <4>1. PICK m \in 1..Len(es) : es[m].cloud = rows[j].id
        BY <1>1, <3>2 DEF OfRows
      <4> QED
        BY <1>7, <4>1
    <3> QED
      BY <1>3, <3>1, <3>2
  <2>2. \A m \in 1..Len(r) : r[m].cloud # Unknown =>
           \E j \in 1..(k + 1) : IsAnother(rows[j]) /\ r[m].cloud = rows[j].id
    <3> SUFFICES ASSUME NEW m \in 1..Len(r), r[m].cloud # Unknown
                 PROVE  \E j \in 1..(k + 1) : IsAnother(rows[j]) /\ r[m].cloud = rows[j].id
      OBVIOUS
    <3>1. CASE m = Len(es) + 1
      BY <1>3, <1>6, <1>7, <3>1 DEF row
    <3>2. CASE m \in 1..Len(es)
      <4>1. r[m] = es[m]
        BY <1>7, <3>2
      <4>2. PICK j \in 1..k : IsAnother(rows[j]) /\ es[m].cloud = rows[j].id
        BY <1>1, <3>2, <4>1 DEF OfRows
      <4> QED
        BY <1>3, <4>1, <4>2
    <3> QED
      BY <1>7, <3>1, <3>2
  <2>3. \A m, n \in 1..Len(r) : r[m].cloud = r[n].cloud /\ r[m].cloud # Unknown => m = n
    <3> SUFFICES ASSUME NEW m \in 1..Len(r), NEW n \in 1..Len(r),
                        r[m].cloud = r[n].cloud, r[m].cloud # Unknown
                 PROVE  m = n
      OBVIOUS
    <3>1. CASE m \in 1..Len(es) /\ n \in 1..Len(es)
      BY <1>1, <1>7, <3>1 DEF OfRows
    <3>2. CASE m = Len(es) + 1 \/ n = Len(es) + 1
      BY <1>6, <1>7, <1>9, <3>2
    <3> QED
      BY <1>7, <3>1, <3>2
  <2> QED
    BY <2>1, <2>2, <2>3 DEF OfRows
<1>11. OfTwins(r, known, rows, k + 1)
  <2> SUFFICES ASSUME NEW m \in 1..Len(known), NEW j \in 1..(k + 1), IsAnother(rows[j])
               PROVE  /\ r[m].cloud = rows[j].id =>
                            \/ rows[j].fp \in CertHashes(known[m].device)
                            \/ rows[j].name = known[m].device.alias
                      /\ rows[j].fp \in CertHashes(known[m].device) => r[m].cloud # Unknown
    BY DEF OfTwins
  <2>1. m \in 1..Len(es) /\ r[m] = es[m]
    BY <1>1, <1>2, <1>7 DEF OfDevices
  <2>2. CASE j = k + 1
    <3>1. es[m].cloud # row.id /\ rows[j] = row
      BY <1>9, <2>1, <2>2 DEF row
    <3>2. ASSUME row.fp \in CertHashes(known[m].device), es[m].cloud = Unknown
          PROVE  FALSE
      <4>1. TwinMatch(es, row) = m
        BY <3>2, TwinTaken
      <4> QED
        BY <1>4, <1>2, <4>1
    <3> QED
      BY <2>1, <3>1, <3>2
  <2>3. CASE j \in 1..k
    BY <1>1, <2>1, <2>3 DEF OfTwins
  <2> QED
    BY <1>3, <2>2, <2>3
<1>12. r \in FoldedOf(known, rows, k + 1)
  BY <1>7, <1>8, <1>10, <1>11, Zenon DEF FoldedOf
<1> QED
  BY <1>5, <1>12 DEF row

\* A row that is this device's own is left out.
LEMMA RowSkipped ==
    ASSUME NEW known \in Bases, NEW rows \in RowLists, NEW k \in Nat, k < Len(rows),
           NEW es \in FoldedOf(known, rows, k), ~ IsAnother(rows[k + 1])
    PROVE  es \in FoldedOf(known, rows, k + 1)
<1>1. /\ es \in Seq(Entry) /\ OfDevices(es, known)
      /\ OfRows(es, rows, k) /\ OfTwins(es, known, rows, k)
  BY Zenon DEF FoldedOf
<1>2. /\ \A j \in 1..(k + 1) : j \in 1..k \/ j = k + 1
      /\ 1..k \subseteq 1..(k + 1)
  OBVIOUS
<1>3. \A j \in 1..(k + 1) : IsAnother(rows[j]) => j \in 1..k
  BY <1>2
<1>4. OfRows(es, rows, k + 1)
  BY <1>1, <1>2, <1>3 DEF OfRows
<1>5. OfTwins(es, known, rows, k + 1)
  BY <1>1, <1>3 DEF OfTwins
<1> QED
  BY <1>1, <1>4, <1>5, Zenon DEF FoldedOf

LEMMA RowsFoldedOf ==
    ASSUME NEW known \in Bases, NEW rows \in RowLists
    PROVE  FoldLeft(LAMBDA entries, row : FoldOther(entries, row, CurrentDeviceId, OwnCert),
                    known, rows) \in FoldedOf(known, rows, Len(rows))
<1> DEFINE P == [k \in Nat |-> FoldedOf(known, rows, k)]
<1>1. \A k \in Nat : P[k] = FoldedOf(known, rows, k)
  OBVIOUS
<1> HIDE DEF P
<1>2. Len(rows) \in Nat /\ DOMAIN rows = 1..Len(rows)
  BY RowTypes
<1>3. known \in P[0]
  <2>1. /\ known \in Seq(Entry) /\ Len(known) \in Nat /\ DOMAIN known = 1..Len(known)
        /\ \A i \in DOMAIN known : known[i].cloud = Unknown /\ known[i].reachable
    BY EntryTypes, Zenon DEF Bases
  <2>2. (Len(known) + 1)..Len(known) = {} /\ 1..0 = {} /\ Len(known) >= Len(known)
    BY <2>1
  <2>3. OfDevices(known, known)
    BY <2>1, <2>2 DEF OfDevices
  <2>4. OfRows(known, rows, 0) /\ OfTwins(known, known, rows, 0)
    BY <2>1, <2>2 DEF OfRows, OfTwins
  <2>5. known \in FoldedOf(known, rows, 0)
    BY <2>1, <2>3, <2>4, Zenon DEF FoldedOf
  <2> QED
    BY <1>1, <2>5
<1>4. ASSUME NEW k \in Nat, NEW x \in P[k], k < Len(rows)
      PROVE  FoldOther(x, rows[k + 1], CurrentDeviceId, OwnCert) \in P[k + 1]
  <2>1. x \in FoldedOf(known, rows, k) /\ P[k + 1] = FoldedOf(known, rows, k + 1)
    BY <1>1
  <2>2. CASE ~ IsAnother(rows[k + 1])
    <3>1. FoldOther(x, rows[k + 1], CurrentDeviceId, OwnCert) = x
      BY <2>2 DEF FoldOther, IsAnother
    <3> QED
      BY <1>4, <2>1, <2>2, <3>1, RowSkipped
  <2>3. CASE IsAnother(rows[k + 1])
    <3>1. FoldOther(x, rows[k + 1], CurrentDeviceId, OwnCert) = Fold(x, rows[k + 1])
      BY <2>3 DEF FoldOther, IsAnother
    <3>2. CASE Match(x, rows[k + 1]) = 0
      BY <1>4, <2>1, <2>3, <3>1, <3>2, RowAppended
    <3>3. CASE Match(x, rows[k + 1]) # 0
      BY <1>4, <2>1, <2>3, <3>1, <3>3, RowMatched
    <3> QED
      BY <3>2, <3>3
  <2> QED
    BY <2>2, <2>3
<1>5. \A k \in Nat : \A x \in P[k] :
         k < Len(rows) => FoldOther(x, rows[k + 1], CurrentDeviceId, OwnCert) \in P[k + 1]
  BY <1>4
<1>6. FoldLeft(LAMBDA entries, row : FoldOther(entries, row, CurrentDeviceId, OwnCert),
               known, rows) \in P[Len(rows)]
  BY <1>2, <1>3, <1>5, RowsFolded
<1> QED
  BY <1>1, <1>2, <1>6

\* The entries of the devices shown are what the rows are folded into.
LEMMA KnownIsBase ==
    ASSUME NEW network \in Networks, NEW known \in KnownOf(network, Len(network))
    PROVE  known \in Bases
<1>1. /\ known \in Seq(Entry) /\ Len(known) \in Nat /\ DOMAIN known = 1..Len(known)
      /\ \A i \in DOMAIN known :
            /\ known[i].cloud = Unknown /\ known[i].reachable
            /\ \E j \in 1..Len(network) : known[i].device = network[j]
      /\ \A i, j \in DOMAIN known : known[i].device = known[j].device => i = j
  <2>1. known \in Seq(Entry)
    BY Zenon DEF KnownOf
  <2> QED
    BY <2>1, EntryTypes, Zenon DEF KnownOf
<1>2. DOMAIN network = 1..Len(network)
  BY NetworkTypes
<1>3. /\ \A i \in DOMAIN network : \A c, e \in CertHashes(network[i]) : c = e
      /\ \A i, j \in DOMAIN network :
            /\ CertHashes(network[i]) \cap CertHashes(network[j]) # {} => i = j
            /\ network[i].http = network[j].http /\ network[i].sig = network[j].sig => i = j
  BY Zenon DEF Networks
<1>4. \A i \in DOMAIN known : \A c, e \in CertHashes(known[i].device) : c = e
  <2> TAKE i \in DOMAIN known
  <2>1. PICK j \in 1..Len(network) : known[i].device = network[j]
    BY <1>1
  <2> QED
    BY <1>2, <1>3, <2>1
<1>5. ASSUME NEW i \in DOMAIN known, NEW j \in DOMAIN known
      PROVE  /\ CertHashes(known[i].device) \cap CertHashes(known[j].device) # {} => i = j
             /\ (/\ known[i].device.http = known[j].device.http
                 /\ known[i].device.sig = known[j].device.sig)
                   => i = j
  <2>1. PICK m \in 1..Len(network) : known[i].device = network[m]
    BY <1>1
  <2>2. PICK n \in 1..Len(network) : known[j].device = network[n]
    BY <1>1
  <2>3. m = n => i = j
    BY <1>1, <2>1, <2>2
  <2> QED
    BY <1>2, <1>3, <2>1, <2>2, <2>3
<1> QED
  BY <1>1, <1>4, <1>5, Zenon DEF Bases

\* The list that is made of the lists of devices and of rows.
LEMMA MergeOfLists ==
    ASSUME NEW lan \in LanLists, NEW signaled \in SignaledLists, NEW rows \in RowLists,
           NEW network, network = AllDevices(lan, signaled)
    PROVE  \E known \in Bases :
              /\ MergeOf(network, rows) \in FoldedOf(known, rows, Len(rows))
              /\ \A i \in 1..Len(known) : known[i].device \in Shown(network)
              /\ \A d \in Shown(network) : \E i \in 1..Len(known) : known[i].device = d
<1> DEFINE known == FoldLeft(LAMBDA entries, device :
                                AddListed(entries, device, OwnCert, OwnIps), <<>>, network)
<1>1. network \in Networks
  BY AllDevicesOf
<1>2. known \in KnownOf(network, Len(network))
  BY <1>1, KnownListed
<1>3. MergeOf(network, rows) =
         FoldLeft(LAMBDA entries, row : FoldOther(entries, row, CurrentDeviceId, OwnCert),
                  known, rows)
  BY DEF MergeOf, MergeNetworkDevices
<1> HIDE DEF known
<1>4. known \in Bases
  BY <1>1, <1>2, KnownIsBase
<1>5. MergeOf(network, rows) \in FoldedOf(known, rows, Len(rows))
  BY <1>3, <1>4, RowsFoldedOf
<1>6. Len(network) \in Nat /\ DOMAIN network = 1..Len(network)
  BY <1>1, NetworkTypes
<1>7. DOMAIN known = 1..Len(known)
  BY <1>4, EntryTypes, Zenon DEF Bases
<1>8. \A i \in 1..Len(known) : known[i].device \in Shown(network)
  <2> TAKE i \in 1..Len(known)
  <2>1. PICK j \in 1..Len(network) : IsShown(network[j]) /\ known[i].device = network[j]
    BY <1>2, <1>7 DEF KnownOf
  <2>2. network[j] \in ToSet(network)
    BY <1>6, <2>1 DEF ToSet
  <2> QED
    BY <2>1, <2>2 DEF Shown, IsShown
<1>9. \A d \in Shown(network) : \E i \in 1..Len(known) : known[i].device = d
  <2> TAKE d \in Shown(network)
  <2>1. d \in ToSet(network) /\ IsShown(d)
    BY DEF Shown, IsShown
  <2>2. PICK j \in 1..Len(network) : network[j] = d
    BY <1>6, <2>1 DEF ToSet
  <2> QED
    BY <1>2, <1>7, <2>1, <2>2 DEF KnownOf
<1> QED
  BY <1>4, <1>5, <1>8, <1>9


\* What EveryDeviceOnce and TwinLostToName say of it.
LEMMA OneEntryEach ==
    ASSUME NEW lan \in LanLists, NEW signaled \in SignaledLists, NEW rows \in RowLists,
           NEW network, network = AllDevices(lan, signaled),
           NEW entries, entries = MergeOf(network, rows)
    PROVE  /\ \A row \in OtherRows(rows) :
                 Cardinality({i \in DOMAIN entries : entries[i].cloud = row.id}) = 1
           /\ \A d \in Shown(network) :
                 Cardinality({i \in DOMAIN entries : IsEntryOf(entries[i], d)}) = 1
           /\ \A i, j \in DOMAIN entries :
                 CertHashes(entries[i].device) \cap CertHashes(entries[j].device) # {}
                    => i = j
           /\ \A i \in DOMAIN entries :
                 \/ \E d \in Shown(network) : IsEntryOf(entries[i], d)
                 \/ \E row \in OtherRows(rows) : IsOfflineEntryOf(entries[i], row)
<1>1. PICK known \in Bases :
              /\ MergeOf(network, rows) \in FoldedOf(known, rows, Len(rows))
              /\ \A i \in 1..Len(known) : known[i].device \in Shown(network)
              /\ \A d \in Shown(network) : \E i \in 1..Len(known) : known[i].device = d
  BY MergeOfLists
<1>2. /\ entries \in Seq(Entry) /\ OfDevices(entries, known)
      /\ OfRows(entries, rows, Len(rows))
  BY <1>1, Zenon DEF FoldedOf
<1>3. known \in Seq(Entry)
  BY Zenon DEF Bases
<1>4. /\ Len(entries) \in Nat /\ DOMAIN entries = 1..Len(entries)
      /\ Len(known) \in Nat /\ DOMAIN known = 1..Len(known)
  BY <1>2, <1>3, EntryTypes
<1>5. /\ 1..Len(known) \subseteq 1..Len(entries)
      /\ \A i \in 1..Len(entries) : i \in 1..Len(known) \/ i \in (Len(known) + 1)..Len(entries)
  BY <1>2, <1>4 DEF OfDevices
<1>6. Len(rows) \in Nat /\ DOMAIN rows = 1..Len(rows)
  BY RowTypes
<1>7. \A row \in OtherRows(rows) : \E j \in 1..Len(rows) : row = rows[j] /\ IsAnother(rows[j])
  BY <1>6 DEF OtherRows, IsAnother, ToSet
<1>8. \A j \in 1..Len(rows) : IsAnother(rows[j]) => rows[j] \in OtherRows(rows)
  BY RowTypes DEF OtherRows, IsAnother
<1>9. ASSUME NEW row \in OtherRows(rows)
      PROVE  Cardinality({i \in DOMAIN entries : entries[i].cloud = row.id}) = 1
  <2>1. PICK j \in 1..Len(rows) : row = rows[j] /\ IsAnother(rows[j])
    BY <1>7
  <2>2. PICK m \in 1..Len(entries) : entries[m].cloud = row.id
    BY <1>2, <2>1 DEF OfRows
  <2>3. row.id # Unknown
    BY <2>1, RowTypes
  <2>4. {i \in DOMAIN entries : entries[i].cloud = row.id} = {m}
    BY <1>2, <1>4, <2>2, <2>3 DEF OfRows
  <2> QED
    BY <2>4, FS_Singleton
<1>10. ASSUME NEW i \in 1..Len(entries), NEW m \in 1..Len(known),
              IsEntryOf(entries[i], known[m].device)
       PROVE  i = m
  <2>1. i \in 1..Len(known)
    BY <1>2, <1>5, <1>10 DEF OfDevices, IsEntryOf
  <2>2. /\ known[i].device.http = known[m].device.http
        /\ known[i].device.sig = known[m].device.sig
    BY <1>2, <1>10, <2>1 DEF OfDevices, IsEntryOf
  <2> QED
    BY <1>4, <2>1, <2>2, Zenon DEF Bases
<1>11. \A m \in 1..Len(known) : IsEntryOf(entries[m], known[m].device)
  BY <1>2 DEF OfDevices, IsEntryOf
<1>12. ASSUME NEW d \in Shown(network)
       PROVE  Cardinality({i \in DOMAIN entries : IsEntryOf(entries[i], d)}) = 1
  <2>1. PICK m \in 1..Len(known) : known[m].device = d
    BY <1>1
  <2>2. {i \in DOMAIN entries : IsEntryOf(entries[i], d)} = {m}
    BY <1>4, <1>5, <1>10, <1>11, <2>1
  <2> QED
    BY <2>2, FS_Singleton
<1>13. ASSUME NEW i \in DOMAIN entries, NEW j \in DOMAIN entries,
              CertHashes(entries[i].device) \cap CertHashes(entries[j].device) # {}
       PROVE  i = j
  <2>1. entries[i].device.http # <<>> /\ entries[j].device.http # <<>>
    BY <1>13 DEF CertHashes, ToSet
  <2>2. i \in 1..Len(known) /\ j \in 1..Len(known)
    BY <1>2, <1>4, <1>5, <2>1 DEF OfDevices
  <2>3. /\ CertHashes(entries[i].device) = CertHashes(known[i].device)
        /\ CertHashes(entries[j].device) = CertHashes(known[j].device)
    BY <1>2, <2>2 DEF OfDevices, CertHashes
  <2>4. CertHashes(known[i].device) \cap CertHashes(known[j].device) # {}
    BY <1>13, <2>3
  <2> QED
    BY <1>4, <2>2, <2>4, Zenon DEF Bases
<1>14. ASSUME NEW i \in DOMAIN entries
       PROVE  \/ \E d \in Shown(network) : IsEntryOf(entries[i], d)
              \/ \E row \in OtherRows(rows) : IsOfflineEntryOf(entries[i], row)
  <2>1. CASE i \in 1..Len(known)
    BY <1>1, <1>11, <2>1
  <2>2. CASE i \in (Len(known) + 1)..Len(entries)
    <3>1. /\ ~ entries[i].reachable /\ entries[i].cloud # Unknown
          /\ ~ HasAnyEndpoint(entries[i].device)
      BY <1>2, <2>2 DEF OfDevices, HasAnyEndpoint, HasHttpEndpoint
    <3>2. PICK j \in 1..Len(rows) : IsAnother(rows[j]) /\ entries[i].cloud = rows[j].id
      BY <1>2, <1>4, <3>1 DEF OfRows
    <3> QED
      BY <1>8, <3>1, <3>2 DEF IsOfflineEntryOf
  <2> QED
    BY <1>4, <1>5, <2>1, <2>2
<1> QED
  BY <1>9, <1>12, <1>13, <1>14

LEMMA TwinKept ==
    ASSUME NEW lan \in LanLists, NEW signaled \in SignaledLists, NEW rows \in RowLists,
           NEW network, network = AllDevices(lan, signaled),
           NEW entries, entries = MergeOf(network, rows),
           NEW row \in OtherRows(rows), NEW d \in Shown(network), row.fp \in CertHashes(d)
    PROVE  \/ \E e \in ToSet(entries) : e.cloud = row.id /\ e.device.http = d.http
           \/ \E other \in OtherRows(rows) \ {row} :
                 other.fp = row.fp \/ other.name = d.alias
<1>1. PICK known \in Bases :
              /\ MergeOf(network, rows) \in FoldedOf(known, rows, Len(rows))
              /\ \A i \in 1..Len(known) : known[i].device \in Shown(network)
              /\ \A o \in Shown(network) : \E i \in 1..Len(known) : known[i].device = o
  BY MergeOfLists
<1>2. /\ entries \in Seq(Entry) /\ OfDevices(entries, known)
      /\ OfRows(entries, rows, Len(rows)) /\ OfTwins(entries, known, rows, Len(rows))
  BY <1>1, Zenon DEF FoldedOf
<1>3. known \in Seq(Entry)
  BY Zenon DEF Bases
<1>4. /\ Len(entries) \in Nat /\ DOMAIN entries = 1..Len(entries)
      /\ Len(known) \in Nat /\ DOMAIN known = 1..Len(known)
  BY <1>2, <1>3, EntryTypes
<1>5. PICK m \in 1..Len(known) : known[m].device = d
  BY <1>1
<1>6. m \in 1..Len(entries) /\ entries[m].device.http = d.http
  BY <1>2, <1>4, <1>5 DEF OfDevices
<1>7. Len(rows) \in Nat /\ DOMAIN rows = 1..Len(rows)
  BY RowTypes
<1>8. PICK j \in 1..Len(rows) : row = rows[j] /\ IsAnother(rows[j])
  BY <1>7 DEF OtherRows, IsAnother, ToSet
<1>9. entries[m].cloud # Unknown
  BY <1>2, <1>5, <1>8 DEF OfTwins
<1>10. PICK n \in 1..Len(rows) : IsAnother(rows[n]) /\ entries[m].cloud = rows[n].id
  BY <1>2, <1>6, <1>9 DEF OfRows
<1>11. CASE rows[n].id = row.id
  <2>1. entries[m] \in ToSet(entries)
    BY <1>4, <1>6 DEF ToSet
  <2> QED
    BY <1>6, <1>10, <1>11, <2>1
<1>12. CASE rows[n].id # row.id
  <2>1. rows[n] \in OtherRows(rows) \ {row}
    BY <1>10, <1>12, RowTypes DEF OtherRows, IsAnother
  <2>2. \/ rows[n].fp \in CertHashes(d)
        \/ rows[n].name = d.alias
    BY <1>2, <1>5, <1>10 DEF OfTwins
  <2>3. \A c, e \in CertHashes(d) : c = e
    BY <1>4, <1>5, Zenon DEF Bases
  <2> QED
    BY <2>1, <2>2, <2>3
<1> QED
  BY <1>11, <1>12

\* The merge keeps every device and every row, each once, for all lists of
\* devices and of rows (EveryDeviceOnce).
THEOREM EachListedOnce == Spec => []EveryDeviceOnce
<1>1. EveryDeviceOnce
  BY OneEntryEach, ZenonT(60) DEF EveryDeviceOnce
<1> QED
  BY <1>1, PTL

\* A row misses its own device only for another with the device's name or
\* certificate (TwinLostToName).
THEOREM TwinsKept == Spec => []TwinLostToName
<1>1. TwinLostToName
  BY TwinKept, SMTT(30) DEF TwinLostToName
<1> QED
  BY <1>1, PTL
===============================================================================
