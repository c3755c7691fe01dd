------------------------------ MODULE CloudClient ------------------------------
(***************************************************************************)
(* One installation as a member of a device group (app/lib/provider/cloud  *)
(* and app/lib/cloud/pairing): the user Firebase has signed in, and what   *)
(* follows it by callbacks and awaits.                                     *)
(*                                                                         *)
(*   - CloudBootstrapService creates the account and registers the device. *)
(*   - AccountRepository watches the account's documents; one that vanishes *)
(*     starts a reset.                                                     *)
(*   - AccountResetService leaves or destroys a group and forgets it here. *)
(*   - PairingJoinService moves the device into another group.             *)
(*   - GroupKeyService and DeviceIdentityService keep the key and the id.  *)
(*                                                                         *)
(* Each goes on from await to await beside the others, and the process may *)
(* end anywhere.  A call is made as the user of that moment.               *)
(*                                                                         *)
(* An account here is its document, the rows of this installation and      *)
(* whether another device is in it; CloudGroups has the rest.              *)
(***************************************************************************)
EXTENDS Integers, FiniteSets, SequencesExt

CONSTANTS
    Anons,      \* users an anonymous sign-in may return, each once
    Target,     \* the user and group of the join token
    Nobody,     \* not a user
    Ids,        \* device ids that may be generated
    NoId,       \* not an id
    PeerDoes,   \* what other devices may do
    Starts,     \* what the installation may find when it starts for the first time
    MaxRuns,    \* bound: bootstraps under way
    MaxCrashes, \* bound: how often the process ends
    MaxLeaves   \* bound: groups the user leaves or destroys

Uids == Anons \cup {Target}
Runs == 1..MaxRuns

ASSUME UsersAssumption ==
    /\ Target \notin Anons /\ Nobody \notin Uids /\ NoId \notin Ids
    /\ Anons # {} /\ Ids # {}
ASSUME StartsAssumption == Starts \subseteq {"fresh", "member", "reinstalled"}
ASSUME PeersAssumption == PeerDoes \subseteq {"destroys", "leaves", "removes"}
ASSUME BoundsAssumption == {MaxRuns, MaxCrashes, MaxLeaves} \subseteq Nat

VARIABLES
    accounts, rows, peers,          \* the documents; peers: accounts with another device
    token,                          \* the join token may be used
    user, signedIn, events,         \* Firebase: the user, those there were, its stream
    auth, signing,                  \* CloudAuthState: its uid; SigningIn
    key, writes,                    \* GroupKeyState; calls to the storage that are out
    cachedId, storedId, minting,    \* DeviceIdentityService: _cached, the slot, _inFlight
    bstate, currentUid, inFlight,   \* CloudBootstrapService: state, _currentUid, _inFlight
    runs, waiting, ready,           \* calls of _runBootstrap: going on, waiting, released
    attaching, attached, attachedId,\* AccountRepository: attachments under way, the last
    seen, fired, peersSeen,         \* ... and what its listeners have seen
    resets,                         \* AccountResetService: the user's reset, a vanished account's
    pairing,                        \* PairingJoinService
    running, crashes, leaves,       \* the process
    existed, wiped, lookupFailed    \* history: accounts there were, ids that were
                                    \*   cleared; a lookup that failed

cloudVars == <<accounts, rows, peers, token, existed>>
fireVars  == <<user, signedIn, events>>
authVars  == <<auth, signing>>
keyVars   == <<key, writes>>
idVars    == <<cachedId, storedId, minting, wiped>>
bootVars  == <<bstate, currentUid, inFlight, runs, waiting, ready, lookupFailed>>
repoVars  == <<attaching, attached, attachedId, seen, fired, peersSeen>>
procVars  == <<running, crashes, leaves>>
vars == <<cloudVars, fireVars, authVars, keyVars, idVars, bootVars, repoVars, resets,
          pairing, procVars>>

\* Of values that are new one is as good as another.
Fresh(S) == CHOOSE x \in S : TRUE

Idle == [phase |-> "none", uid |-> Nobody, as |-> Nobody, id |-> NoId, created |-> FALSE]
NoReset == [phase |-> "none", as |-> Nobody, id |-> NoId]
NoPairing == [phase |-> "none", as |-> Nobody, id |-> NoId, welcome |-> FALSE]
Bootstrap(s, u) == [state |-> s, uid |-> u]

\* The installation is new, or it is in a group of its own, or it was then
\* installed again: Firebase and the keychain outlive the preferences.
Init ==
    /\ \E start \in Starts, home \in {Fresh(Anons)}, i \in {Fresh(Ids)} :
          /\ accounts = IF start = "fresh" THEN {Target} ELSE {Target, home}
          /\ rows = [u \in Uids |-> IF start # "fresh" /\ u = home THEN {i} ELSE {}]
          /\ peers \in {{Target}} \cup (IF start = "fresh" THEN {} ELSE {{Target, home}})
          /\ user = IF start = "fresh" THEN Nobody ELSE home
          /\ key = IF start = "fresh" THEN "none" ELSE "own"
          /\ storedId = IF start = "member" THEN i ELSE NoId
    /\ token = TRUE
    /\ signedIn = {user} \ {Nobody} /\ events = <<>>
    /\ auth = Nobody /\ signing = FALSE
    /\ writes = <<>>
    /\ cachedId = NoId /\ minting = NoId /\ wiped = {}
    /\ bstate = Bootstrap("idle", Nobody) /\ currentUid = Nobody /\ inFlight = 0
    /\ runs = [r \in Runs |-> Idle] /\ waiting = <<>> /\ ready = <<>>
    /\ lookupFailed = FALSE
    /\ attaching = <<>> /\ attached = Nobody /\ attachedId = NoId
    /\ seen = FALSE /\ fired = FALSE /\ peersSeen = FALSE
    /\ resets = [k \in {"chosen", "vanished"} |-> NoReset]
    /\ pairing = NoPairing
    /\ running = FALSE /\ crashes = 0 /\ leaves = 0
    /\ existed = accounts

-----------------------------------------------------------------------------
(* The device id.                                                          *)

FreshIds == {i \in Ids \ ({cachedId, storedId, minting, attachedId} \cup wiped) :
                 \A u \in Uids : i \notin rows[u]}

NeedsId ==
    \/ attaching # <<>>
    \/ \E r \in Runs : runs[r].phase = "id"
    \/ pairing.phase = "id"

\* ensureDeviceId: the stored id, or a new one that all callers wait for.
ResolveId ==
    /\ cachedId = NoId /\ minting = NoId /\ NeedsId
    /\ IF storedId # NoId
       THEN cachedId' = storedId /\ UNCHANGED minting
       ELSE /\ FreshIds # {}
            /\ minting' = Fresh(FreshIds)
            /\ UNCHANGED cachedId
    /\ UNCHANGED <<storedId, wiped>>

Minted ==
    /\ minting # NoId
    /\ storedId' = minting /\ cachedId' = minting /\ minting' = NoId
    /\ UNCHANGED wiped

Identify ==
    /\ ResolveId \/ Minted
    /\ UNCHANGED <<cloudVars, fireVars, authVars, keyVars, bootVars, repoVars, resets,
                   pairing, procVars>>

-----------------------------------------------------------------------------
(* CloudBootstrapService.                                                  *)

Done(u) == currentUid = u /\ bstate.state = "done"

\* Mutant: the account's devices are not looked up.
BeginAnew(u) ==
    LET r == CHOOSE s \in Runs : runs[s] = Idle
    IN  /\ \E s \in Runs : runs[s] = Idle
        /\ runs' = [runs EXCEPT ![r] = [Idle EXCEPT !.phase = "id", !.uid = u]]
        /\ inFlight' = r
        /\ currentUid' = u
        /\ bstate' = Bootstrap("inFlight", Nobody)

\* The body of _runBootstrap up to its first await.  It looks the installation
\* up among the account's devices when it has no id.
Begin(u) ==
    LET r == CHOOSE s \in Runs : runs[s] = Idle
        phase == IF cachedId = NoId /\ storedId = NoId THEN "lookup" ELSE "id"
    IN  /\ \E s \in Runs : runs[s] = Idle
        /\ runs' = [runs EXCEPT ![r] = [Idle EXCEPT !.phase = phase, !.uid = u]]
        /\ inFlight' = r
        /\ currentUid' = u
        /\ bstate' = Bootstrap("inFlight", Nobody)

RunBootstrap(u) ==
    \/ /\ Done(u)
       /\ UNCHANGED bootVars
    \/ /\ ~Done(u) /\ inFlight # 0
       /\ waiting' = Append(waiting, [uid |-> u, on |-> inFlight])
       /\ UNCHANGED <<bstate, currentUid, inFlight, runs, ready, lookupFailed>>
    \/ /\ ~Done(u) /\ inFlight = 0
       /\ Begin(u)
       /\ UNCHANGED <<waiting, ready, lookupFailed>>

\* A caller that waited: it looks whether the bootstrap was its own, and not
\* whether another one has begun.
Resume ==
    /\ ready # <<>>
    /\ ready' = Tail(ready)
    /\ LET u == Head(ready).uid
       IN  IF Done(u)
           THEN UNCHANGED <<bstate, currentUid, inFlight, runs>>
           ELSE Begin(u)
    /\ UNCHANGED <<waiting, lookupFailed>>
    /\ UNCHANGED <<cloudVars, fireVars, authVars, keyVars, idVars, repoVars, resets,
                   pairing, procVars>>

WaitsOn(r) == SelectSeq(waiting, LAMBDA w : w.on = r)
Others(r) == SelectSeq(waiting, LAMBDA w : w.on # r)

\* Mutant: a bootstrap that fails does not complete what others wait for.
EndsSilently(r, outcome) ==
    /\ bstate' = outcome
    /\ runs' = [runs EXCEPT ![r] = Idle]
    /\ \/ /\ outcome.state = "done"
          /\ inFlight' = 0
          /\ ready' = ready \o WaitsOn(r)
          /\ waiting' = Others(r)
       \/ /\ outcome.state # "done"
          /\ UNCHANGED <<inFlight, ready, waiting>>

\* The finally block of _runBootstrap: it forgets whatever is in flight.
Ends(r, outcome) ==
    /\ bstate' = outcome
    /\ runs' = [runs EXCEPT ![r] = Idle]
    /\ inFlight' = 0
    /\ ready' = ready \o WaitsOn(r)
    /\ waiting' = Others(r)

Goes(r, changes) == runs' = [runs EXCEPT ![r] = changes]
Calling(r, phase) == [runs[r] EXCEPT !.phase = phase, !.as = user]

\* The adoption pass.  The documents can be read only as their user, and the
\* adopted id is stored after one that is being minted.
LookUp(r) ==
    /\ runs[r].phase = "lookup"
    /\ Goes(r, [runs[r] EXCEPT !.phase = "id"])
    /\ \/ /\ user = runs[r].uid
          /\ minting = NoId
          /\ \E i \in rows[user] : cachedId' = i /\ storedId' = i
          /\ UNCHANGED lookupFailed
       \/ /\ user = runs[r].uid /\ rows[user] = {}
          /\ UNCHANGED <<cachedId, storedId, lookupFailed>>
       \/ /\ lookupFailed' = TRUE
          /\ UNCHANGED <<cachedId, storedId>>
    /\ UNCHANGED <<minting, wiped, cloudVars, keyVars>>
    /\ UNCHANGED <<bstate, currentUid, inFlight, waiting, ready>>

CallCreateAccount(r) ==
    /\ runs[r].phase = "id" /\ cachedId # NoId
    /\ Goes(r, [Calling(r, "creating") EXCEPT !.id = cachedId])
    /\ UNCHANGED <<idVars, cloudVars, keyVars>>
    /\ UNCHANGED <<bstate, currentUid, inFlight, waiting, ready, lookupFailed>>

\* The function has run; its answer is under way.
CreateAccount(r) ==
    LET u == runs[r].as
    IN  /\ runs[r].phase = "creating" /\ u # Nobody
        /\ accounts' = accounts \cup {u}
        /\ existed' = existed \cup {u}
        /\ Goes(r, [runs[r] EXCEPT !.phase = "created", !.created = u \notin accounts])
        /\ UNCHANGED <<rows, peers, token, idVars, keyVars>>
        /\ UNCHANGED <<bstate, currentUid, inFlight, waiting, ready, lookupFailed>>

\* A key is needed for a new account, and for one where none is at hand and no
\* other device is listed; ensureForNewAccount writes it when there is none.
AccountCreated(r) ==
    LET needsKey == runs[r].created \/ (key = "none" /\ ~peersSeen)
    IN  /\ runs[r].phase = "created"
        /\ \/ /\ needsKey /\ key = "none"
              /\ writes' = Append(writes, [op |-> "own", by |-> r])
              /\ Goes(r, [runs[r] EXCEPT !.phase = "keying"])
           \/ /\ ~(needsKey /\ key = "none")
              /\ Goes(r, Calling(r, "registering"))
              /\ UNCHANGED writes
        /\ UNCHANGED <<key, cloudVars, idVars>>
        /\ UNCHANGED <<bstate, currentUid, inFlight, waiting, ready, lookupFailed>>

RegisterDevice(r) ==
    LET u == runs[r].as
    IN  /\ runs[r].phase = "registering" /\ u \in accounts
        /\ rows' = [rows EXCEPT ![u] = @ \cup {runs[r].id}]
        /\ Ends(r, Bootstrap("done", runs[r].uid))
        /\ UNCHANGED <<accounts, peers, token, existed, idVars, keyVars>>
        /\ UNCHANGED <<currentUid, lookupFailed>>

\* A call is refused or its answer lost.
RunFails(r) ==
    /\ runs[r].phase \in {"creating", "created", "registering"}
    /\ Ends(r, Bootstrap("failed", Nobody))
    /\ UNCHANGED <<cloudVars, idVars, keyVars>>
    /\ UNCHANGED <<currentUid, lookupFailed>>

RunStep(r) ==
    /\ \/ LookUp(r) \/ CallCreateAccount(r) \/ CreateAccount(r) \/ AccountCreated(r)
       \/ RegisterDevice(r) \/ RunFails(r)
    /\ UNCHANGED <<fireVars, authVars, repoVars, resets, pairing, procVars>>

-----------------------------------------------------------------------------
(* Firebase and CloudAuthService.                                          *)

SignedInAs(u) ==
    /\ user' = u
    /\ signedIn' = signedIn \cup {u}
    /\ events' = Append(events, u)

SignedOut ==
    /\ user' = Nobody
    /\ events' = IF user = Nobody THEN events ELSE Append(events, Nobody)
    /\ UNCHANGED signedIn

SignInAnonymously ==
    /\ Anons \ signedIn # {}
    /\ SignedInAs(Fresh(Anons \ signedIn))

\* deleteAndReset: the user is deleted, or at least signed out here.
DeleteAndReset == SignedOut

Detach ==
    /\ attached' = Nobody /\ attachedId' = NoId /\ peersSeen' = FALSE
    /\ UNCHANGED <<seen, fired>>

\* The auth state follows the stream, and what listens to it begins.
Deliver ==
    /\ events # <<>>
    /\ events' = Tail(events)
    /\ LET u == Head(events)
       IN  \/ /\ u # Nobody
              /\ auth' = u /\ signing' = FALSE
              /\ IF attached = u
                 THEN UNCHANGED repoVars
                 ELSE /\ attaching' = Append(attaching, u)
                      /\ Detach
              /\ RunBootstrap(u)
           \/ /\ u = Nobody
              /\ auth' = Nobody /\ UNCHANGED signing
              /\ IF signing
                 THEN UNCHANGED repoVars
                 ELSE UNCHANGED attaching /\ Detach
              /\ UNCHANGED bootVars
    /\ UNCHANGED <<user, signedIn>>
    /\ UNCHANGED <<cloudVars, keyVars, idVars, resets, pairing, procVars>>

\* signInForNewGroup, and the answer to it.
SignInForNewGroup ==
    /\ running /\ auth = Nobody /\ ~signing /\ pairing = NoPairing
    /\ signing' = TRUE
    /\ UNCHANGED <<auth, fireVars, cloudVars, keyVars, idVars, bootVars, repoVars,
                   resets, pairing, procVars>>

SignInAnswered ==
    /\ signing /\ auth = Nobody /\ user = Nobody
    /\ \/ SignInAnonymously /\ UNCHANGED signing
       \/ signing' = FALSE /\ UNCHANGED <<user, signedIn, events>>
    /\ UNCHANGED <<auth, cloudVars, keyVars, idVars, bootVars, repoVars,
                   resets, pairing, procVars>>

\* The welcome card discards a session whose bootstrap has failed.
DiscardStale ==
    /\ running /\ auth # Nobody /\ bstate.state = "failed" /\ pairing = NoPairing
    /\ DeleteAndReset
    /\ UNCHANGED <<authVars, cloudVars, keyVars, idVars, bootVars, repoVars, resets,
                   pairing, procVars>>

-----------------------------------------------------------------------------
(* AccountRepository.                                                      *)

\* Mutant: the reset counts as started when it was for the last account.
AttachKeepsFired ==
    /\ attaching # <<>> /\ cachedId # NoId
    /\ attached' = Head(attaching) /\ attachedId' = cachedId
    /\ attaching' = Tail(attaching)
    /\ seen' = FALSE /\ peersSeen' = FALSE
    /\ UNCHANGED <<fired, cloudVars, fireVars, authVars, keyVars, idVars, bootVars, resets,
                   pairing, procVars>>

\* An attachment that is under way goes on when the user is gone.
Attach ==
    /\ attaching # <<>> /\ cachedId # NoId
    /\ attached' = Head(attaching) /\ attachedId' = cachedId
    /\ attaching' = Tail(attaching)
    /\ seen' = FALSE /\ fired' = FALSE /\ peersSeen' = FALSE
    /\ UNCHANGED <<cloudVars, fireVars, authVars, keyVars, idVars, bootVars, resets,
                   pairing, procVars>>

Readable == attached # Nobody /\ user = attached

\* Mutant: an account that is not there has vanished, whether seen before or not.
AnyNullVanishes ==
    /\ Readable
    /\ \/ /\ attached \in accounts
          /\ seen' = TRUE
          /\ UNCHANGED <<fired, resets>>
       \/ /\ attached \notin accounts /\ ~fired
          /\ resets["vanished"] = NoReset
          /\ fired' = TRUE
          /\ resets' = [resets EXCEPT !["vanished"] = [NoReset EXCEPT !.phase = "clear"]]
          /\ UNCHANGED seen
    /\ UNCHANGED <<attaching, attached, attachedId, peersSeen>>
    /\ UNCHANGED <<cloudVars, fireVars, authVars, keyVars, idVars, bootVars, pairing,
                   procVars>>

\* A snapshot of the account's document; one that vanished starts a reset.
AccountSnapshot ==
    /\ Readable
    /\ \/ /\ attached \in accounts
          /\ seen' = TRUE
          /\ UNCHANGED <<fired, resets>>
       \/ /\ attached \notin accounts /\ seen /\ ~fired
          /\ resets["vanished"] = NoReset
          /\ fired' = TRUE
          /\ resets' = [resets EXCEPT !["vanished"] = [NoReset EXCEPT !.phase = "clear"]]
          /\ UNCHANGED seen
    /\ UNCHANGED <<attaching, attached, attachedId, peersSeen>>
    /\ UNCHANGED <<cloudVars, fireVars, authVars, keyVars, idVars, bootVars, pairing,
                   procVars>>

DevicesSnapshot ==
    /\ Readable
    /\ peersSeen' = (attached \in peers \/ rows[attached] \ {attachedId} # {})
    /\ UNCHANGED <<attaching, attached, attachedId, seen, fired>>
    /\ UNCHANGED <<cloudVars, fireVars, authVars, keyVars, idVars, bootVars, resets,
                   pairing, procVars>>

-----------------------------------------------------------------------------
(* AccountResetService.                                                    *)

\* A device is gone from its account, and the account with it if it was the
\* last.
Departed(u, i) ==
    LET last == rows[u] \subseteq {i} /\ u \notin peers
    IN  accounts' = IF last THEN accounts \ {u} ELSE accounts

\* The user leaves or destroys the group that the list shows.
Choose(what) ==
    /\ running /\ attached # Nobody /\ auth = attached
    /\ pairing = NoPairing /\ resets["chosen"] = NoReset
    /\ leaves < MaxLeaves /\ leaves' = leaves + 1
    /\ resets' = [resets EXCEPT !["chosen"] =
                      [phase |-> what, as |-> user, id |-> attachedId]]
    /\ UNCHANGED <<cloudVars, fireVars, authVars, keyVars, idVars, bootVars, repoVars,
                   pairing, running, crashes>>

\* removeDevice: a device that is not there has left; other failures end the
\* flow.
Leave ==
    LET u == resets["chosen"].as
        i == resets["chosen"].id
        here == u \in accounts /\ i \in rows[u]
    IN  /\ resets["chosen"].phase = "leave"
        /\ \/ /\ here
              /\ Departed(u, i)
              /\ rows' = [rows EXCEPT ![u] = @ \ {i}]
              /\ resets' = [resets EXCEPT !["chosen"].phase = "clear"]
           \/ /\ ~here /\ u # Nobody
              /\ resets' = [resets EXCEPT !["chosen"].phase = "clear"]
              /\ UNCHANGED <<accounts, rows>>
           \/ /\ resets' = [resets EXCEPT !["chosen"] = NoReset]
              /\ UNCHANGED <<accounts, rows>>
        /\ UNCHANGED peers

\* deleteAccount, whose failure is passed over.
Destroy ==
    LET u == resets["chosen"].as
    IN  /\ resets["chosen"].phase = "destroy"
        /\ resets' = [resets EXCEPT !["chosen"].phase = "clear"]
        /\ \/ /\ u # Nobody
              /\ accounts' = accounts \ {u}
              /\ rows' = [rows EXCEPT ![u] = {}]
              /\ peers' = peers \ {u}
           \/ UNCHANGED <<accounts, rows, peers>>

ResetCall ==
    /\ Leave \/ Destroy
    /\ UNCHANGED <<token, existed, fireVars, authVars, keyVars, idVars, bootVars,
                   repoVars, pairing, procVars>>

\* GroupKeyService.clear begins with the key in the storage.
Clear(k) ==
    /\ resets[k].phase = "clear"
    /\ writes' = Append(writes, [op |-> "delete", by |-> k])
    /\ resets' = [resets EXCEPT ![k].phase = "clearing"]
    /\ UNCHANGED <<key, cloudVars, fireVars, authVars, idVars, bootVars, repoVars,
                   pairing, procVars>>

ResetUser(k) ==
    /\ resets[k].phase = "user"
    /\ DeleteAndReset
    /\ resets' = [resets EXCEPT ![k] = NoReset]
    /\ UNCHANGED <<cloudVars, authVars, keyVars, idVars, bootVars, repoVars, pairing,
                   procVars>>

\* The storage answers calls in their order, and the caller goes on.
StorageAnswers ==
    /\ writes # <<>>
    /\ writes' = Tail(writes)
    /\ LET w == Head(writes)
       IN  \/ /\ w.op = "own"
              /\ key' = "own"
              /\ runs' = [runs EXCEPT ![w.by] = Calling(w.by, "registering")]
              /\ UNCHANGED <<idVars, resets, pairing>>
           \/ /\ w.op = "group"
              /\ key' = "group"
              /\ pairing' = [pairing EXCEPT !.phase = "deleting"]
              /\ UNCHANGED <<idVars, resets, runs>>
           \/ /\ w.op = "delete"
              /\ key' = "none"
              /\ storedId' = NoId
              /\ wiped' = wiped \cup ({storedId} \ {NoId})
              /\ resets' = [resets EXCEPT ![w.by].phase = "user"]
              /\ UNCHANGED <<cachedId, minting, runs, pairing>>
    /\ UNCHANGED <<bstate, currentUid, inFlight, waiting, ready, lookupFailed>>
    /\ UNCHANGED <<cloudVars, fireVars, authVars, repoVars, procVars>>

-----------------------------------------------------------------------------
(* PairingJoinService.                                                     *)

\* A code is scanned, on the welcome card or from within a group.
StartPairing ==
    /\ running /\ token /\ pairing = NoPairing /\ resets["chosen"] = NoReset
    /\ user = Nobody \/ (auth = user /\ attached = user)
    /\ pairing' = [NoPairing EXCEPT !.phase = "preview", !.welcome = (user = Nobody)]
    /\ UNCHANGED <<cloudVars, fireVars, keyVars, idVars>>

\* previewPairing and completePairing sign in when nobody is.
PairingSignIn ==
    /\ pairing.phase = "preview" /\ user = Nobody
    /\ SignInAnonymously
    /\ UNCHANGED <<pairing, cloudVars, keyVars, idVars>>

\* The user has seen whose group it is and confirms.
Confirm ==
    /\ pairing.phase = "preview" /\ user # Nobody
    /\ pairing' = [pairing EXCEPT !.phase = "id"]
    /\ UNCHANGED <<cloudVars, fireVars, keyVars, idVars>>

CallJoinNetwork ==
    /\ pairing.phase = "id" /\ cachedId # NoId
    /\ pairing' = [pairing EXCEPT !.phase = "joining", !.as = user, !.id = cachedId]
    /\ UNCHANGED <<cloudVars, fireVars, keyVars, idVars>>

\* The device moves from its account, if it has one, into the token's.
JoinNetwork ==
    LET u == pairing.as
        i == pairing.id
    IN  /\ pairing.phase = "joining" /\ u \notin {Nobody, Target}
        /\ token /\ Target \in accounts
        /\ \/ u \in accounts /\ i \in rows[u]
           \/ u \notin accounts /\ pairing.welcome
        /\ token' = FALSE
        /\ Departed(u, i)
        /\ rows' = [rows EXCEPT ![u] = @ \ {i}, ![Target] = @ \cup {i}]
        /\ pairing' = [pairing EXCEPT !.phase = "joined"]
        /\ UNCHANGED <<peers, existed, fireVars, keyVars, idVars>>

\* The key comes over the LAN from the device that showed the code.
ExchangeKey ==
    /\ pairing.phase = "joined"
    /\ pairing' = [pairing EXCEPT !.phase = "installing"]
    /\ writes' = Append(writes, [op |-> "group", by |-> "pairing"])
    /\ UNCHANGED <<key, cloudVars, fireVars, idVars>>

\* The user that is signed in is deleted if it can be.
DeleteOldUser ==
    /\ pairing.phase = "deleting"
    /\ pairing' = [pairing EXCEPT !.phase = "reauth"]
    /\ \/ SignedOut
       \/ UNCHANGED fireVars
    /\ UNCHANGED <<cloudVars, keyVars, idVars>>

SignInWithCustomToken ==
    /\ pairing.phase = "reauth"
    /\ pairing' = NoPairing
    /\ SignedInAs(Target)
    /\ UNCHANGED <<cloudVars, keyVars, idVars>>

\* The user cancels, a call is refused, the other device is out of reach or the
\* new sign-in fails.
PairingFails ==
    /\ pairing.phase \in {"preview", "joining", "joined", "reauth"}
    /\ pairing' = NoPairing
    /\ UNCHANGED <<cloudVars, fireVars, keyVars, idVars>>

PairingStep ==
    /\ \/ PairingSignIn \/ Confirm \/ CallJoinNetwork \/ JoinNetwork \/ ExchangeKey
       \/ DeleteOldUser \/ SignInWithCustomToken \/ PairingFails
    /\ UNCHANGED <<authVars, bootVars, repoVars, resets, procVars>>

Scan ==
    /\ StartPairing
    /\ UNCHANGED <<authVars, bootVars, repoVars, resets, procVars>>

-----------------------------------------------------------------------------
(* The process and the other devices.                                      *)

\* The providers are read one after the other: the account repository has
\* begun to attach and the bootstrap has looked for an id.
Launch ==
    /\ ~running /\ running' = TRUE
    /\ auth' = user
    /\ \/ user # Nobody /\ Begin(user) /\ attaching' = <<user>>
       \/ user = Nobody /\ UNCHANGED <<bstate, currentUid, inFlight, runs, attaching>>
    /\ UNCHANGED <<signing, attached, attachedId, seen, fired, peersSeen, waiting, ready,
                   lookupFailed, crashes, leaves>>
    /\ UNCHANGED <<cloudVars, fireVars, keyVars, idVars, resets, pairing>>

\* The process ends; the calls that are out end with it or have had their
\* effect.
Crash ==
    /\ running /\ running' = FALSE
    /\ crashes < MaxCrashes /\ crashes' = crashes + 1
    /\ events' = <<>> /\ writes' = <<>>
    /\ auth' = Nobody /\ signing' = FALSE
    /\ cachedId' = NoId /\ minting' = NoId
    /\ bstate' = Bootstrap("idle", Nobody) /\ currentUid' = Nobody /\ inFlight' = 0
    /\ runs' = [r \in Runs |-> Idle] /\ waiting' = <<>> /\ ready' = <<>>
    /\ attaching' = <<>> /\ attached' = Nobody /\ attachedId' = NoId
    /\ seen' = FALSE /\ fired' = FALSE /\ peersSeen' = FALSE
    /\ resets' = [k \in DOMAIN resets |-> NoReset]
    /\ pairing' = NoPairing
    /\ UNCHANGED <<cloudVars, user, signedIn, key, storedId, wiped,
                   lookupFailed, leaves>>

\* Another device destroys a group, leaves it, or removes this installation.
PeerDestroys(u) ==
    /\ u \in peers /\ peers' = peers \ {u}
    /\ accounts' = accounts \ {u}
    /\ rows' = [rows EXCEPT ![u] = {}]
    /\ UNCHANGED <<token, existed>>

PeerLeaves(u) ==
    /\ u \in peers /\ peers' = peers \ {u}
    /\ accounts' = IF rows[u] = {} THEN accounts \ {u} ELSE accounts
    /\ UNCHANGED <<rows, token, existed>>

PeerRemoves(u) ==
    /\ u \in peers
    /\ \E i \in rows[u] : rows' = [rows EXCEPT ![u] = @ \ {i}]
    /\ UNCHANGED <<accounts, peers, token, existed>>

Peer ==
    /\ \E u \in Uids :
          \/ "destroys" \in PeerDoes /\ PeerDestroys(u)
          \/ "leaves" \in PeerDoes /\ PeerLeaves(u)
          \/ "removes" \in PeerDoes /\ PeerRemoves(u)
    /\ UNCHANGED <<fireVars, authVars, keyVars, idVars, bootVars, repoVars, resets,
                   pairing, procVars>>

-----------------------------------------------------------------------------
\* What the process does by itself.
System ==
    \/ Identify \/ Deliver \/ SignInAnswered \/ Attach \/ StorageAnswers
    \/ AccountSnapshot \/ DevicesSnapshot
    \/ ResetCall \/ \E k \in DOMAIN resets : Clear(k) \/ ResetUser(k)
    \/ PairingStep
    \/ \E r \in Runs : RunStep(r)

\* What its user does, and what is outside of it.
Outside ==
    \/ SignInForNewGroup \/ DiscardStale \/ Scan \/ Choose("leave") \/ Choose("destroy")
    \/ Launch \/ Crash
    \/ Peer

\* Callers that waited go on before anything else does.
Next ==
    \/ Resume
    \/ ready = <<>> /\ (System \/ Outside)

Spec == Init /\ [][Next]_vars

\* Timers, calls, snapshots and callbacks are answered sooner or later.  The
\* user, the other devices and the process owe nothing.
Fairness ==
    /\ WF_vars(Resume)
    /\ WF_vars(ready = <<>> /\ Identify)
    /\ WF_vars(ready = <<>> /\ Deliver)
    /\ WF_vars(ready = <<>> /\ Attach)
    /\ WF_vars(ready = <<>> /\ StorageAnswers)
    /\ WF_vars(ready = <<>> /\ AccountSnapshot)
    /\ WF_vars(ready = <<>> /\ ResetCall)
    /\ \A k \in {"chosen", "vanished"} : WF_vars(ready = <<>> /\ (Clear(k) \/ ResetUser(k)))
    /\ \A r \in Runs : WF_vars(ready = <<>> /\ RunStep(r))

FairSpec == Spec /\ Fairness

-----------------------------------------------------------------------------
(* Properties.                                                             *)

\* A bootstrap ends for every user that stays signed in: whoever waits for one
\* in flight, of this user or an earlier one, gets to know of its end.
BootstrapSettles ==
    \A u \in Uids :
        auth = u ~> \/ auth # u
                    \/ currentUid = u /\ bstate.state \in {"done", "failed"}

\* A device does not stay in a group whose account it has seen and that is
\* gone, unless the account is there again or the process ends and forgets it.
GhostGroupLeft ==
    \A u \in Uids :
        (attached = u /\ seen /\ u \notin accounts)
            ~> (user # u \/ u \in accounts \/ ~running)

\* That an account is not there yet is never taken for its end.
FreshAccountSpared ==
    [][resets["vanished"] = NoReset /\ resets'["vanished"] # NoReset =>
          attached \in existed]_vars

\* The process has not ended since the installation was first started, and no look-up
\* of its has failed.
Alive == ~lookupFailed /\ crashes = 0

\* Alive, an account lists the installation once: through bootstraps that overlap, ids
\* that are generated beside the look-up and an attachment, pairing and resets
\* (_runBootstrap, ensureDeviceId, deviceRegister, joinNetwork).
OneRow == Alive => \A u \in Uids : Cardinality(rows[u]) <= 1

-----------------------------------------------------------------------------
(* Why they hold.                                                          *)

Uid == Uids \cup {Nobody}
Id == Ids \cup {NoId}
Resets == {"chosen", "vanished"}
Phases == {"none", "lookup", "id", "creating", "created", "keying", "registering"}
ResetPhases == {"none", "leave", "destroy", "clear", "clearing", "user"}
PairingPhases == {"none", "preview", "id", "joining", "joined", "installing",
                  "deleting", "reauth"}
IsWrite(w) ==
    /\ w = [op |-> w.op, by |-> w.by]
    /\ \/ w.op = "own" /\ w.by \in Runs
       \/ w.op = "group" /\ w.by = "pairing"
       \/ w.op = "delete" /\ w.by \in Resets

\* The type invariant, by the parts of the state; a run that does not look up is
\* for whatever user its caller has named.
CloudTypes ==
    /\ accounts \subseteq Uids /\ peers \subseteq Uids /\ existed \subseteq Uids
    /\ rows \in [Uids -> SUBSET Ids] /\ token \in BOOLEAN
FireTypes == user \in Uid /\ signedIn \subseteq Uids /\ events \in Seq(Uid)
AuthTypes == auth \in Uid /\ signing \in BOOLEAN
KeyTypes ==
    /\ key \in {"none", "own", "group"}
    /\ writes \in Seq(ToSet(writes)) /\ \A w \in ToSet(writes) : IsWrite(w)
IdTypes == cachedId \in Id /\ storedId \in Id /\ minting \in Id /\ wiped \subseteq Ids
BootTypes ==
    /\ inFlight \in 0..MaxRuns /\ lookupFailed \in BOOLEAN
    /\ runs = [r \in Runs |-> runs[r]]
    /\ \A r \in Runs : runs[r] \in [phase : Phases, uid : {runs[r].uid}, as : Uid,
                                    id : Id, created : BOOLEAN]
    /\ \A r \in Runs : runs[r].phase = "lookup" => runs[r].uid \in Uids
RepoTypes ==
    /\ attaching \in Seq(Uids) /\ attached \in Uid /\ attachedId \in Id
    /\ seen \in BOOLEAN /\ fired \in BOOLEAN /\ peersSeen \in BOOLEAN
ResetTypes == resets \in [Resets -> [phase : ResetPhases, as : Uid, id : Id]]
PairingTypes ==
    pairing \in [phase : PairingPhases, as : Uid, id : Id, welcome : BOOLEAN]
ProcTypes == running \in BOOLEAN /\ crashes \in Nat /\ leaves \in Nat
TypeOK ==
    /\ CloudTypes /\ FireTypes /\ AuthTypes /\ KeyTypes /\ IdTypes /\ BootTypes
    /\ RepoTypes /\ ResetTypes /\ PairingTypes /\ ProcTypes

\* Rows are in accounts that are there, and what was seen there has existed.
AccountsInv ==
    /\ \A u \in Uids : rows[u] # {} => u \in accounts
    /\ accounts \subseteq existed
    /\ seen /\ attached # Nobody => attached \in existed

\* Who called the storage waits for it, and for one call.
Waits(w) ==
    \/ w.op = "own" /\ runs[w.by].phase = "keying"
    \/ w.op = "group" /\ pairing.phase = "installing"
    \/ w.op = "delete" /\ resets[w.by].phase = "clearing"
WritesInv ==
    /\ \A n \in DOMAIN writes : Waits(writes[n])
    /\ \A m, n \in DOMAIN writes : writes[m] = writes[n] => m = n

\* A process that does not run does nothing.
StoppedInv ==
    ~running =>
        /\ cachedId = NoId /\ minting = NoId /\ inFlight = 0
        /\ runs = [r \in Runs |-> Idle] /\ pairing = NoPairing
        /\ events = <<>> /\ attaching = <<>> /\ ~signing

\* Without an id nothing is attached, reset, registered or joined; one bootstrap
\* at most is under way.
QuietInv ==
    cachedId = NoId =>
        /\ writes = <<>> /\ ready = <<>>
        /\ resets = [k \in Resets |-> NoReset]
        /\ attached = Nobody /\ attachedId = NoId
        /\ pairing.phase \in {"none", "preview", "id"} /\ pairing.id = NoId
        /\ \A r \in Runs : \/ runs[r] = Idle
                           \/ runs[r].phase \in {"lookup", "id"} /\ inFlight = r

\* What is registered is the id that is cached, what joins has one, and one is
\* minted where there is none.
IdsInv ==
    /\ minting # NoId => cachedId = NoId /\ storedId = NoId
    /\ \A r \in Runs :
          runs[r].phase \in {"creating", "created", "keying", "registering"} =>
             runs[r].id = cachedId
    /\ pairing.phase = "joining" => pairing.id # NoId

\* A look-up goes on alone, and nobody joins under an id it may replace.
AloneInv ==
    \A r \in Runs : runs[r].phase = "lookup" =>
        /\ inFlight = r /\ ready = <<>>
        /\ \A s \in Runs \ {r} : runs[s] = Idle
        /\ cachedId = NoId => storedId = NoId
        /\ pairing.id \in {NoId, cachedId}

\* The rows.  Before the process: what an earlier installation left is one row of
\* the user who is signed in, under the stored id if there is one.
HomeInv ==
    ~running =>
        \A u \in Uids : rows[u] # {} =>
            /\ u = user /\ u \in Anons /\ u \in signedIn
            /\ \E i \in Ids : rows[u] = {i} /\ storedId \in {NoId, i}

\* While it looks itself up: they are of the cached id, or it will adopt the one of
\* its user, who has no other and joins no group; if the user is signed out in the
\* meantime, they never come back.
LookUpInv ==
    \A r \in Runs : runs[r].phase = "lookup" =>
        LET u == runs[r].uid
            Own == {cachedId} \ {NoId}
        IN \/ \A v \in Uids : rows[v] \subseteq Own
           \/ /\ u \in Anons /\ u \in signedIn
              /\ \E i \in Ids : rows[u] = {i} /\ i \notin {cachedId, minting, pairing.id}
              /\ \A v \in Uids \ {u} : rows[v] \subseteq Own
              /\ user = u => /\ \A v \in Uids \ {u} : rows[v] = {}
                             /\ ~pairing.welcome

\* Afterwards: they are of the id the process has, or will take; a device that joins
\* under another is not a new one.
SteadyInv ==
    running /\ (\A r \in Runs : runs[r].phase # "lookup") =>
        /\ \A u \in Uids :
              rows[u] \subseteq (IF cachedId # NoId THEN {cachedId} ELSE {storedId} \ {NoId})
        /\ pairing.phase = "joining" /\ pairing.id # cachedId => ~pairing.welcome

\* The inductive invariant.
IndInv ==
    /\ TypeOK
    /\ AccountsInv /\ WritesInv
    /\ StoppedInv /\ QuietInv /\ IdsInv /\ AloneInv
    /\ Alive => HomeInv /\ LookUpInv /\ SteadyInv
=============================================================================
