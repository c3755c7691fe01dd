------------------------- MODULE CloudClient_proofs -------------------------
(***************************************************************************)
(* What holds of an installation's part in the cloud for any users, ids and *)
(* bounds: the types, that an account lists it once while the process lives, *)
(* and that an account that is not there yet is never taken for one that   *)
(* has ended.                                                              *)
(*                                                                         *)
(* IndInv is inductive.  Its parts are kept one after the other: the types, *)
(* the accounts, a process that does not run, the calls to the storage, the *)
(* id and who looks for it, and the rows, which need all of them.          *)
(***************************************************************************)
EXTENDS CloudClient, FiniteSetTheorems, TLAPS

-----------------------------------------------------------------------------
(* The types.                                                              *)

LEMMA Ids0 == NoId \in Id /\ Nobody \in Uid /\ Uids \subseteq Uid /\ Ids \subseteq Id
                  /\ NoId \notin Ids /\ Nobody \notin Uids
BY UsersAssumption DEF Id, Uid

LEMMA IdleTypes ==
    /\ Idle \in [phase : Phases, uid : {Idle.uid}, as : Uid, id : Id, created : BOOLEAN]
    /\ NoReset \in [phase : ResetPhases, as : Uid, id : Id]
    /\ NoPairing \in [phase : PairingPhases, as : Uid, id : Id, welcome : BOOLEAN]
BY Ids0 DEF Idle, NoReset, NoPairing, Phases, ResetPhases, PairingPhases

\* What is left alone keeps its type.
LEMMA Kept ==
    /\ CloudTypes /\ UNCHANGED cloudVars => CloudTypes'
    /\ FireTypes /\ UNCHANGED fireVars => FireTypes'
    /\ AuthTypes /\ UNCHANGED authVars => AuthTypes'
    /\ KeyTypes /\ UNCHANGED keyVars => KeyTypes'
    /\ IdTypes /\ UNCHANGED idVars => IdTypes'
    /\ BootTypes /\ UNCHANGED bootVars => BootTypes'
    /\ RepoTypes /\ UNCHANGED repoVars => RepoTypes'
    /\ ResetTypes /\ UNCHANGED resets => ResetTypes'
    /\ PairingTypes /\ UNCHANGED pairing => PairingTypes'
    /\ ProcTypes /\ UNCHANGED procVars => ProcTypes'
<1>1. CloudTypes /\ UNCHANGED cloudVars => CloudTypes'
  BY DEF CloudTypes, cloudVars
<1>2. FireTypes /\ UNCHANGED fireVars => FireTypes'
  BY DEF FireTypes, fireVars
<1>3. AuthTypes /\ UNCHANGED authVars => AuthTypes'
  BY DEF AuthTypes, authVars
<1>4. KeyTypes /\ UNCHANGED keyVars => KeyTypes'
  BY DEF KeyTypes, keyVars
<1>5. IdTypes /\ UNCHANGED idVars => IdTypes'
  BY DEF IdTypes, idVars
<1>6. BootTypes /\ UNCHANGED bootVars => BootTypes'
  BY DEF BootTypes, bootVars
<1>7. RepoTypes /\ UNCHANGED repoVars => RepoTypes'
  BY DEF RepoTypes, repoVars
<1>8. ResetTypes /\ UNCHANGED resets => ResetTypes'
  BY DEF ResetTypes
<1>9. PairingTypes /\ UNCHANGED pairing => PairingTypes'
  BY DEF PairingTypes
<1>10. ProcTypes /\ UNCHANGED procVars => ProcTypes'
  BY DEF ProcTypes, procVars
<1> QED
  BY <1>1, <1>2, <1>3, <1>4, <1>5, <1>6, <1>7, <1>8, <1>9, <1>10

\* A sequence is one of the elements it has.
LEMMA OfItsElements ==
    ASSUME NEW S, NEW q \in Seq(S)
    PROVE  q \in Seq(ToSet(q))
<1>1. q = [i \in 1..Len(q) |-> q[i]] /\ Len(q) \in Nat
  OBVIOUS
<1>2. \A i \in 1..Len(q) : q[i] \in ToSet(q)
  BY DEF ToSet
<1> HIDE DEF ToSet
<1> QED
  BY <1>1, <1>2

\* A call to the storage is added, or answered.
LEMMA WriteAdded ==
    ASSUME KeyTypes, NEW w, IsWrite(w), writes' = Append(writes, w), key' = key
    PROVE  /\ KeyTypes'
           /\ Len(writes') = Len(writes) + 1 /\ Len(writes) \in Nat
           /\ DOMAIN writes = 1..Len(writes) /\ DOMAIN writes' = 1..(Len(writes) + 1)
           /\ \A n \in 1..Len(writes) : writes'[n] = writes[n]
           /\ writes'[Len(writes) + 1] = w
<1> DEFINE S == ToSet(writes) \cup {w}
<1>1. writes \in Seq(S) /\ w \in S
  BY DEF KeyTypes
<1>2. /\ writes' \in Seq(S) /\ Len(writes') = Len(writes) + 1 /\ Len(writes) \in Nat
      /\ DOMAIN writes = 1..Len(writes) /\ DOMAIN writes' = 1..(Len(writes) + 1)
      /\ \A n \in 1..Len(writes) : writes'[n] = writes[n]
      /\ writes'[Len(writes) + 1] = w
  BY <1>1
<1>3. ToSet(writes') = S
  BY <1>2 DEF ToSet
<1>4. KeyTypes'
  BY <1>2, <1>3 DEF KeyTypes
<1> QED
  BY <1>2, <1>4

LEMMA WriteTaken ==
    ASSUME KeyTypes, writes # <<>>, writes' = Tail(writes), key' \in {"none", "own", "group"}
    PROVE  /\ KeyTypes'
           /\ IsWrite(Head(writes)) /\ Head(writes) = writes[1] /\ 1 \in DOMAIN writes
           /\ \A n \in DOMAIN writes' :
                 /\ n \in DOMAIN writes /\ n + 1 \in DOMAIN writes /\ n + 1 # 1
                 /\ writes'[n] = writes[n + 1]
<1> DEFINE q == writes
<1>1. /\ Len(q) \in Nat /\ Len(q) > 0 /\ Tail(q) \in Seq(ToSet(q))
      /\ Len(Tail(q)) = Len(q) - 1
      /\ \A i \in 1..(Len(q) - 1) : Tail(q)[i] = q[i + 1]
      /\ DOMAIN Tail(q) = 1..(Len(q) - 1) /\ DOMAIN q = 1..Len(q)
      /\ Head(q) = q[1]
  BY DEF KeyTypes
<1>2. 1 \in DOMAIN writes /\ IsWrite(Head(writes))
  BY <1>1 DEF KeyTypes, ToSet
<1>3. ToSet(Tail(q)) \subseteq ToSet(q)
  BY <1>1 DEF ToSet
<1>4. Tail(q) \in Seq(ToSet(Tail(q)))
  BY <1>1, OfItsElements
<1>5. KeyTypes'
  BY <1>3, <1>4 DEF KeyTypes
<1> QED
  BY <1>1, <1>2, <1>5

LEMMA FreshIn ==
    ASSUME NEW S, S # {}
    PROVE  Fresh(S) \in S
BY Zenon DEF Fresh

IsRun(x) ==
    /\ x \in [phase : Phases, uid : {x.uid}, as : Uid, id : Id, created : BOOLEAN]
    /\ x.phase = "lookup" => x.uid \in Uids

\* One run changes.
LEMMA RunChanged ==
    ASSUME BootTypes, NEW r \in Runs, NEW x, IsRun(x), runs' = [runs EXCEPT ![r] = x],
           inFlight' \in 0..MaxRuns, lookupFailed' \in BOOLEAN
    PROVE  /\ BootTypes'
           /\ runs'[r] = x
           /\ \A s \in Runs \ {r} : runs'[s] = runs[s]
<1>1. /\ runs = [s \in Runs |-> runs[s]]
      /\ \A s \in Runs : IsRun(runs[s])
  BY DEF BootTypes, IsRun
<1>2. /\ runs'[r] = x /\ \A s \in Runs \ {r} : runs'[s] = runs[s]
      /\ runs' = [s \in Runs |-> runs'[s]]
  BY <1>1
<1>3. \A s \in Runs : IsRun(runs'[s])
  BY <1>1, <1>2
<1> QED
  BY <1>2, <1>3 DEF BootTypes, IsRun

\* A bootstrap begins.
LEMMA Begun ==
    ASSUME BootTypes, NEW u, Begin(u), lookupFailed' = lookupFailed,
           u \in Uids \/ cachedId # NoId
    PROVE  /\ BootTypes'
           /\ \E r \in Runs :
                 /\ runs[r] = Idle /\ inFlight' = r
                 /\ runs'[r] = [Idle EXCEPT !.phase = IF cachedId = NoId /\ storedId = NoId
                                                      THEN "lookup" ELSE "id",
                                            !.uid = u]
                 /\ \A s \in Runs \ {r} : runs'[s] = runs[s]
<1> DEFINE r == CHOOSE s \in Runs : runs[s] = Idle
           x == [Idle EXCEPT !.phase = IF cachedId = NoId /\ storedId = NoId
                                       THEN "lookup" ELSE "id",
                             !.uid = u]
<1>1. \E s \in Runs : runs[s] = Idle
  BY DEF Begin
<1>2. r \in Runs /\ runs[r] = Idle
  BY <1>1
<1>3. runs' = [runs EXCEPT ![r] = x] /\ inFlight' = r
  BY DEF Begin
<1> HIDE DEF r
<1>4. IsRun(x)
  BY IdleTypes DEF IsRun, Idle, Phases
<1> HIDE DEF x
<1>5. inFlight' \in 0..MaxRuns /\ lookupFailed' \in BOOLEAN
  BY <1>2, <1>3, BoundsAssumption DEF Runs, BootTypes
<1>6. BootTypes' /\ runs'[r] = x /\ \A s \in Runs \ {r} : runs'[s] = runs[s]
  BY <1>2, <1>3, <1>4, <1>5, RunChanged
<1> QED
  BY <1>2, <1>3, <1>6 DEF x

LEMMA CalledFor ==
    ASSUME BootTypes, NEW u \in Uids, RunBootstrap(u)
    PROVE  /\ BootTypes' /\ lookupFailed' = lookupFailed
           /\ ready' = ready
           /\ \/ UNCHANGED <<runs, inFlight>>
              \/ inFlight = 0 /\ Begin(u)
<1>1. CASE UNCHANGED <<runs, inFlight, lookupFailed>> /\ UNCHANGED ready
  BY <1>1 DEF BootTypes
<1>2. CASE inFlight = 0 /\ Begin(u) /\ UNCHANGED <<waiting, ready, lookupFailed>>
  BY <1>2, Begun
<1> QED
  BY <1>1, <1>2 DEF RunBootstrap, bootVars

\* A bootstrap ends.
LEMMA Ended ==
    ASSUME BootTypes, NEW r \in Runs, NEW outcome, Ends(r, outcome), lookupFailed' = lookupFailed
    PROVE  /\ BootTypes' /\ inFlight' = 0 /\ runs'[r] = Idle
           /\ \A s \in Runs \ {r} : runs'[s] = runs[s]
<1>1. runs' = [runs EXCEPT ![r] = Idle] /\ inFlight' = 0
  BY DEF Ends
<1>2. IsRun(Idle)
  <2>1. Idle.phase = "none"
    BY DEF Idle
  <2> QED
    BY <2>1, IdleTypes DEF IsRun
<1>3. inFlight' \in 0..MaxRuns /\ lookupFailed' \in BOOLEAN
  BY <1>1, BoundsAssumption DEF BootTypes
<1> QED
  BY <1>1, <1>2, <1>3, RunChanged

\* A run goes on.
LEMMA WentOn ==
    ASSUME BootTypes, NEW r \in Runs, NEW x, IsRun(x), Goes(r, x),
           inFlight' = inFlight, lookupFailed' \in BOOLEAN
    PROVE  /\ BootTypes' /\ runs'[r] = x
           /\ \A s \in Runs \ {r} : runs'[s] = runs[s]
<1>1. runs' = [runs EXCEPT ![r] = x] /\ inFlight' \in 0..MaxRuns
  BY DEF Goes, BootTypes
<1> QED
  BY <1>1, RunChanged

LEMMA RunIs ==
    ASSUME BootTypes, FireTypes, NEW r \in Runs,
           NEW phase \in Phases \ {"lookup"}, NEW i \in Id
    PROVE  /\ IsRun(runs[r])
           /\ IsRun([runs[r] EXCEPT !.phase = phase])
           /\ \A b \in BOOLEAN : IsRun([runs[r] EXCEPT !.phase = phase, !.created = b])
           /\ IsRun(Calling(r, phase))
           /\ IsRun([Calling(r, phase) EXCEPT !.id = i])
           /\ Calling(r, phase).phase = phase /\ Calling(r, phase).id = runs[r].id
           /\ [Calling(r, phase) EXCEPT !.id = i].phase = phase
           /\ [Calling(r, phase) EXCEPT !.id = i].id = i
<1>1. /\ runs[r] \in [phase : Phases, uid : {runs[r].uid}, as : Uid, id : Id, created : BOOLEAN]
      /\ runs[r].phase = "lookup" => runs[r].uid \in Uids
  BY DEF BootTypes
<1> DEFINE x == runs[r]
<1>2. /\ x \in [phase : Phases, uid : {x.uid}, as : Uid, id : Id, created : BOOLEAN]
      /\ x.phase = "lookup" => x.uid \in Uids
  BY <1>1
<1> HIDE DEF x
<1>3. /\ IsRun(x)
      /\ IsRun([x EXCEPT !.phase = phase])
      /\ \A b \in BOOLEAN : IsRun([x EXCEPT !.phase = phase, !.created = b])
      /\ IsRun([x EXCEPT !.phase = phase, !.as = user])
      /\ IsRun([[x EXCEPT !.phase = phase, !.as = user] EXCEPT !.id = i])
      /\ [x EXCEPT !.phase = phase, !.as = user].phase = phase
      /\ [x EXCEPT !.phase = phase, !.as = user].id = x.id
      /\ [[x EXCEPT !.phase = phase, !.as = user] EXCEPT !.id = i].phase = phase
      /\ [[x EXCEPT !.phase = phase, !.as = user] EXCEPT !.id = i].id = i
  <2>1. user \in Uid
    BY DEF FireTypes
  <2> QED
    BY <1>2, <2>1 DEF IsRun
<1> QED
  BY <1>3 DEF x, Calling

\* The types after each step, by who takes it.
LEMMA FireMoves ==
    ASSUME FireTypes, NEW u \in Uids
    PROVE  /\ SignedInAs(u) => FireTypes'
           /\ SignedOut => FireTypes'
           /\ SignInAnonymously => FireTypes'
<1>1. ASSUME NEW v \in Uids, SignedInAs(v) PROVE FireTypes'
  BY <1>1, Ids0 DEF FireTypes, SignedInAs
<1>2. SignedOut => FireTypes'
  BY Ids0 DEF FireTypes, SignedOut
<1>3. SignInAnonymously => FireTypes'
  <2> SUFFICES ASSUME SignInAnonymously PROVE FireTypes'
    OBVIOUS
  <2>1. Fresh(Anons \ signedIn) \in Anons \ signedIn
    BY FreshIn DEF SignInAnonymously
  <2> QED
    BY <1>1, <2>1 DEF SignInAnonymously, Uids
<1> QED
  BY <1>1, <1>2, <1>3

LEMMA IdentifyTypes ==
    ASSUME TypeOK, Identify
    PROVE  TypeOK'
<1>1. IdTypes'
  <2>1. CASE Minted
    BY <2>1, Ids0 DEF Minted, IdTypes, TypeOK
  <2>2. CASE ResolveId /\ storedId # NoId
    BY <2>2 DEF ResolveId, IdTypes, TypeOK
  <2>3. CASE ResolveId /\ storedId = NoId
    <3>1. Fresh(FreshIds) \in FreshIds
      BY <2>3, FreshIn DEF ResolveId
    <3>2. Fresh(FreshIds) \in Id
      BY <3>1, Ids0 DEF FreshIds
    <3> QED
      BY <2>3, <3>2 DEF ResolveId, IdTypes, TypeOK
  <2> QED
    BY <2>1, <2>2, <2>3 DEF Identify
<1> QED
  BY <1>1, Kept DEF Identify, TypeOK

LEMMA RunTypes ==
    ASSUME TypeOK, IdsInv, QuietInv, NEW r \in Runs, RunStep(r)
    PROVE  TypeOK'
<1>1. /\ FireTypes' /\ AuthTypes' /\ RepoTypes' /\ ResetTypes' /\ PairingTypes' /\ ProcTypes'
  BY Kept DEF RunStep, TypeOK
<1>2. BootTypes /\ FireTypes /\ CloudTypes /\ KeyTypes /\ IdTypes
  BY DEF TypeOK
<1>3. CASE LookUp(r)
  <2>1. IsRun([runs[r] EXCEPT !.phase = "id"])
    BY <1>2, RunIs, Ids0 DEF Phases
  <2>2. BootTypes'
    <3>1. lookupFailed' \in BOOLEAN /\ inFlight' = inFlight
      BY <1>2, <1>3 DEF LookUp, BootTypes
    <3> QED
      BY <1>2, <1>3, <2>1, <3>1, WentOn DEF LookUp
  <2>3. IdTypes'
    <3>1. runs[r].uid \in Uids
      BY <1>2, <1>3 DEF LookUp, BootTypes
    <3>2. rows[runs[r].uid] \subseteq Id
      BY <1>2, <3>1, Ids0 DEF CloudTypes
    <3> QED
      BY <1>2, <1>3, <3>2 DEF LookUp, IdTypes
  <2>4. CloudTypes' /\ KeyTypes'
    BY <1>2, <1>3, Kept DEF LookUp
  <2> QED
    BY <1>1, <2>2, <2>3, <2>4 DEF TypeOK
<1>4. CASE CallCreateAccount(r)
  <2>1. IsRun([Calling(r, "creating") EXCEPT !.id = cachedId])
    BY <1>2, RunIs DEF Phases, IdTypes
  <2>2. BootTypes'
    <3>1. lookupFailed' \in BOOLEAN /\ inFlight' = inFlight
      BY <1>2, <1>4 DEF CallCreateAccount, BootTypes
    <3> QED
      BY <1>2, <1>4, <2>1, <3>1, WentOn DEF CallCreateAccount
  <2>4. CloudTypes' /\ KeyTypes' /\ IdTypes'
    BY <1>2, <1>4, Kept DEF CallCreateAccount
  <2> QED
    BY <1>1, <2>2, <2>4 DEF TypeOK
<1>5. CASE CreateAccount(r)
  <2>1. IsRun([runs[r] EXCEPT !.phase = "created", !.created = runs[r].as \notin accounts])
    BY <1>2, RunIs, Ids0 DEF Phases
  <2>2. BootTypes'
    <3>1. lookupFailed' \in BOOLEAN /\ inFlight' = inFlight
      BY <1>2, <1>5 DEF CreateAccount, BootTypes
    <3> QED
      BY <1>2, <1>5, <2>1, <3>1, WentOn DEF CreateAccount
  <2>3. CloudTypes'
    <3>1. runs[r].as \in Uid /\ runs[r].as # Nobody
      BY <1>2, <1>5 DEF CreateAccount, BootTypes
    <3>2. runs[r].as \in Uids
      BY <3>1 DEF Uid
    <3> QED
      BY <1>2, <1>5, <3>2 DEF CreateAccount, CloudTypes
  <2>4. KeyTypes' /\ IdTypes'
    BY <1>2, <1>5, Kept DEF CreateAccount
  <2> QED
    BY <1>1, <2>2, <2>3, <2>4 DEF TypeOK
<1>6. CASE AccountCreated(r)
  <2>1. BootTypes'
    <3>1. lookupFailed' \in BOOLEAN /\ inFlight' = inFlight
      BY <1>2, <1>6 DEF AccountCreated, BootTypes
    <3>2. IsRun([runs[r] EXCEPT !.phase = "keying"]) /\ IsRun(Calling(r, "registering"))
      BY <1>2, RunIs, Ids0 DEF Phases
    <3> QED
      BY <1>2, <1>6, <3>1, <3>2, WentOn DEF AccountCreated
  <2>2. KeyTypes'
    <3>1. CASE UNCHANGED <<key, writes>>
      BY <1>2, <3>1, Kept DEF keyVars
    <3>2. CASE writes' = Append(writes, [op |-> "own", by |-> r])
      <4>1. IsWrite([op |-> "own", by |-> r])
        BY DEF IsWrite
      <4>2. key' = key
        BY <1>6 DEF AccountCreated
      <4> QED
        BY <1>2, <3>2, <4>1, <4>2, WriteAdded
    <3> QED
      BY <1>6, <3>1, <3>2 DEF AccountCreated
  <2>4. CloudTypes' /\ IdTypes'
    BY <1>2, <1>6, Kept DEF AccountCreated
  <2> QED
    BY <1>1, <2>1, <2>2, <2>4 DEF TypeOK
<1>7. CASE RegisterDevice(r)
  <2>1. BootTypes'
    BY <1>2, <1>7, Ended DEF RegisterDevice
  <2>2. CloudTypes'
    <3>1. runs[r].phase = "registering"
      BY <1>7 DEF RegisterDevice
    <3>2. cachedId # NoId
      BY <3>1 DEF QuietInv, Idle
    <3>3. runs[r].id \in Ids
      BY <1>2, <3>1, <3>2 DEF IdTypes, Id, IdsInv
    <3> QED
      BY <1>2, <1>7, <3>3 DEF RegisterDevice, CloudTypes
  <2>4. KeyTypes' /\ IdTypes'
    BY <1>2, <1>7, Kept DEF RegisterDevice
  <2> QED
    BY <1>1, <2>1, <2>2, <2>4 DEF TypeOK
<1>8. CASE RunFails(r)
  <2>1. BootTypes'
    BY <1>2, <1>8, Ended DEF RunFails
  <2>4. CloudTypes' /\ KeyTypes' /\ IdTypes'
    BY <1>2, <1>8, Kept DEF RunFails
  <2> QED
    BY <1>1, <2>1, <2>4 DEF TypeOK
<1> QED
  BY <1>3, <1>4, <1>5, <1>6, <1>7, <1>8 DEF RunStep

\* A reset changes.
LEMMA ResetChanged ==
    ASSUME ResetTypes, NEW k \in Resets
    PROVE  /\ \A phase \in ResetPhases :
                 resets' = [resets EXCEPT ![k].phase = phase] =>
                     /\ ResetTypes' /\ resets'[k].phase = phase
                     /\ \A j \in Resets \ {k} : resets'[j] = resets[j]
           /\ \A x \in [phase : ResetPhases, as : Uid, id : Id] :
                 resets' = [resets EXCEPT ![k] = x] =>
                     /\ ResetTypes' /\ resets'[k] = x
                     /\ \A j \in Resets \ {k} : resets'[j] = resets[j]
BY DEF ResetTypes

LEMMA PairingChanged ==
    ASSUME PairingTypes, NEW phase \in PairingPhases
    PROVE  pairing' = [pairing EXCEPT !.phase = phase] =>
               /\ PairingTypes' /\ pairing'.phase = phase /\ pairing'.id = pairing.id
               /\ pairing'.as = pairing.as /\ pairing'.welcome = pairing.welcome
BY DEF PairingTypes

LEMMA ResumeTypes ==
    ASSUME TypeOK, QuietInv, Resume
    PROVE  TypeOK'
<1>1. /\ CloudTypes' /\ FireTypes' /\ AuthTypes' /\ KeyTypes' /\ IdTypes' /\ RepoTypes'
      /\ ResetTypes' /\ PairingTypes' /\ ProcTypes'
  BY Kept DEF Resume, TypeOK
<1>2. BootTypes'
  <2>1. cachedId # NoId /\ lookupFailed' = lookupFailed
    BY DEF Resume, QuietInv
  <2>2. CASE UNCHANGED <<inFlight, runs>>
    BY <2>1, <2>2 DEF TypeOK, BootTypes
  <2>3. CASE Begin(Head(ready).uid)
    BY <2>1, <2>3, Begun DEF TypeOK
  <2> QED
    BY <2>2, <2>3 DEF Resume
<1> QED
  BY <1>1, <1>2 DEF TypeOK

LEMMA DeliverTypes ==
    ASSUME TypeOK, Deliver
    PROVE  TypeOK'
<1>1. /\ CloudTypes' /\ KeyTypes' /\ IdTypes' /\ ResetTypes' /\ PairingTypes' /\ ProcTypes'
  BY Kept DEF Deliver, TypeOK
<1> DEFINE u == Head(events)
<1>2. /\ user \in Uid /\ signedIn \subseteq Uids /\ events \in Seq(Uid) /\ events # <<>>
      /\ attaching \in Seq(Uids) /\ attached \in Uid /\ attachedId \in Id
      /\ seen \in BOOLEAN /\ fired \in BOOLEAN /\ peersSeen \in BOOLEAN
  BY DEF Deliver, TypeOK, FireTypes, RepoTypes
<1>3. u \in Uid /\ Tail(events) \in Seq(Uid)
  BY <1>2
<1>4. FireTypes'
  BY <1>2, <1>3 DEF Deliver, FireTypes
<1> HIDE DEF u
<1>5. CASE u # Nobody
  <2>1. u \in Uids
    BY <1>3, <1>5 DEF Uid
  <2>2. AuthTypes'
    BY <1>5, <2>1, Ids0 DEF Deliver, AuthTypes, u
  <2>3. RepoTypes'
    <3>1. CASE UNCHANGED repoVars
      BY <3>1, Kept DEF TypeOK
    <3>2. CASE attaching' = Append(attaching, u) /\ Detach
      <4>1. Append(attaching, u) \in Seq(Uids)
        BY <1>2, <2>1
      <4>2. /\ attached' = Nobody /\ attachedId' = NoId /\ peersSeen' = FALSE
            /\ seen' = seen /\ fired' = fired
        BY <3>2 DEF Detach
      <4> QED
        BY <1>2, <3>2, <4>1, <4>2, Ids0 DEF RepoTypes
    <3> QED
      BY <1>5, <3>1, <3>2 DEF Deliver, u
  <2>4. BootTypes'
    BY <1>5, <2>1, CalledFor DEF Deliver, TypeOK, u
  <2> QED
    BY <1>1, <1>4, <2>2, <2>3, <2>4 DEF TypeOK
<1>6. CASE u = Nobody
  <2>1. AuthTypes' /\ BootTypes'
    <3>1. auth' = Nobody /\ signing' = signing /\ UNCHANGED bootVars
      BY <1>6 DEF Deliver, u
    <3> QED
      BY <3>1, Ids0, Kept DEF AuthTypes, TypeOK
  <2>2. RepoTypes'
    <3>1. CASE UNCHANGED repoVars
      BY <3>1, Kept DEF TypeOK
    <3>2. CASE UNCHANGED attaching /\ Detach
      BY <1>2, <3>2, Ids0 DEF Detach, RepoTypes
    <3> QED
      BY <1>6, <3>1, <3>2 DEF Deliver, u
  <2> QED
    BY <1>1, <1>4, <2>1, <2>2 DEF TypeOK
<1> QED
  BY <1>5, <1>6

LEMMA SignInTypes ==
    ASSUME TypeOK, SignInAnswered \/ SignInForNewGroup \/ DiscardStale
    PROVE  TypeOK'
<1>1. /\ CloudTypes' /\ KeyTypes' /\ IdTypes' /\ BootTypes' /\ RepoTypes' /\ ResetTypes'
      /\ PairingTypes' /\ ProcTypes'
  BY Kept DEF SignInAnswered, SignInForNewGroup, DiscardStale, TypeOK
<1>2. AuthTypes'
  BY DEF SignInAnswered, SignInForNewGroup, DiscardStale, TypeOK, AuthTypes, authVars
<1>3. FireTypes'
  <2>1. CASE SignInAnonymously \/ SignedOut
    BY <2>1, FireMoves DEF TypeOK, Uids
  <2>2. CASE UNCHANGED <<user, signedIn, events>>
    BY <2>2, Kept DEF fireVars, TypeOK
  <2> QED
    BY <2>1, <2>2 DEF SignInAnswered, SignInForNewGroup, DiscardStale, DeleteAndReset,
                      fireVars
<1> QED
  BY <1>1, <1>2, <1>3 DEF TypeOK

LEMMA RepositoryTypes ==
    ASSUME TypeOK, Attach \/ AccountSnapshot \/ DevicesSnapshot
    PROVE  TypeOK'
<1>1. /\ CloudTypes' /\ FireTypes' /\ AuthTypes' /\ KeyTypes' /\ IdTypes' /\ BootTypes'
      /\ PairingTypes' /\ ProcTypes'
  BY Kept DEF Attach, AccountSnapshot, DevicesSnapshot, TypeOK
<1>2. RepoTypes'
  <2>1. CASE Attach
    <3>1. Head(attaching) \in Uids /\ Tail(attaching) \in Seq(Uids)
      BY <2>1 DEF Attach, TypeOK, RepoTypes
    <3> QED
      BY <2>1, <3>1, Ids0 DEF Attach, TypeOK, RepoTypes, IdTypes
  <2>2. CASE AccountSnapshot \/ DevicesSnapshot
    BY <2>2 DEF AccountSnapshot, DevicesSnapshot, TypeOK, RepoTypes
  <2> QED
    BY <2>1, <2>2
<1>3. ResetTypes'
  <2>1. CASE resets' = [resets EXCEPT !["vanished"] = [NoReset EXCEPT !.phase = "clear"]]
    <3>1. [NoReset EXCEPT !.phase = "clear"] \in [phase : ResetPhases, as : Uid, id : Id]
      BY IdleTypes DEF ResetPhases
    <3> QED
      BY <2>1, <3>1, ResetChanged DEF TypeOK, Resets
  <2>2. CASE resets' = resets
    BY <2>2, Kept DEF TypeOK
  <2> QED
    BY <2>1, <2>2 DEF Attach, AccountSnapshot, DevicesSnapshot
<1> QED
  BY <1>1, <1>2, <1>3 DEF TypeOK

LEMMA ResetServiceTypes ==
    ASSUME TypeOK,
           \/ ResetCall \/ \E k \in Resets : Clear(k) \/ ResetUser(k)
           \/ Choose("leave") \/ Choose("destroy")
    PROVE  TypeOK'
<1>1. CASE ResetCall
  <2>1. /\ FireTypes' /\ AuthTypes' /\ KeyTypes' /\ IdTypes' /\ BootTypes' /\ RepoTypes'
        /\ PairingTypes' /\ ProcTypes'
    BY <1>1, Kept DEF ResetCall, TypeOK
  <2>2. ResetTypes'
    BY <1>1, IdleTypes, ResetChanged DEF ResetCall, Leave, Destroy, TypeOK, Resets, ResetPhases
  <2>3. CloudTypes'
    BY <1>1 DEF ResetCall, Leave, Destroy, Departed, TypeOK, CloudTypes
  <2> QED
    BY <2>1, <2>2, <2>3 DEF TypeOK
<1>2. CASE \E k \in Resets : Clear(k) \/ ResetUser(k)
  <2>0. PICK k \in Resets : Clear(k) \/ ResetUser(k)
    BY <1>2
  <2>1. /\ CloudTypes' /\ AuthTypes' /\ IdTypes' /\ BootTypes' /\ RepoTypes'
        /\ PairingTypes' /\ ProcTypes'
    BY <2>0, Kept DEF Clear, ResetUser, TypeOK
  <2>2. ResetTypes'
    BY <2>0, IdleTypes, ResetChanged DEF Clear, ResetUser, TypeOK, ResetPhases
  <2>3. FireTypes' /\ KeyTypes'
    <3>1. CASE ResetUser(k)
      BY <3>1, Kept, FireMoves DEF ResetUser, DeleteAndReset, TypeOK, Uids
    <3>2. CASE Clear(k)
      <4>1. IsWrite([op |-> "delete", by |-> k])
        BY DEF IsWrite
      <4>2. KeyTypes'
        BY <3>2, <4>1, WriteAdded DEF Clear, TypeOK
      <4> QED
        BY <3>2, <4>2, Kept DEF Clear, TypeOK
    <3> QED
      BY <2>0, <3>1, <3>2
  <2> QED
    BY <2>1, <2>2, <2>3 DEF TypeOK
<1>3. ASSUME NEW what \in {"leave", "destroy"}, Choose(what) PROVE TypeOK'
  <2>1. /\ CloudTypes' /\ FireTypes' /\ AuthTypes' /\ KeyTypes' /\ IdTypes' /\ BootTypes'
        /\ RepoTypes' /\ PairingTypes'
    BY <1>3, Kept DEF Choose, TypeOK
  <2>2. ResetTypes'
    <3>1. [phase |-> what, as |-> user, id |-> attachedId]
             \in [phase : ResetPhases, as : Uid, id : Id]
      BY DEF ResetPhases, TypeOK, FireTypes, RepoTypes
    <3> QED
      BY <1>3, <3>1, ResetChanged DEF Choose, TypeOK, Resets
  <2>3. ProcTypes'
    BY <1>3 DEF Choose, TypeOK, ProcTypes
  <2> QED
    BY <2>1, <2>2, <2>3 DEF TypeOK
<1> QED
  BY <1>1, <1>2, <1>3

LEMMA StorageTypes ==
    ASSUME TypeOK, StorageAnswers
    PROVE  TypeOK'
<1> DEFINE w == Head(writes)
<1>1. /\ CloudTypes' /\ FireTypes' /\ AuthTypes' /\ RepoTypes' /\ ProcTypes'
  BY Kept DEF StorageAnswers, TypeOK
<1>2. IsWrite(w) /\ KeyTypes'
  BY WriteTaken DEF StorageAnswers, TypeOK
<1>3. PICK op \in {"own", "group", "delete"} : w.op = op
  BY <1>2 DEF IsWrite
<1> HIDE DEF w
<1>4. CASE op = "own"
  <2>1. w.by \in Runs
    BY <1>2, <1>3, <1>4 DEF IsWrite
  <2>2. runs' = [runs EXCEPT ![w.by] = Calling(w.by, "registering")]
    BY <1>3, <1>4 DEF StorageAnswers, w
  <2>3. IsRun(Calling(w.by, "registering"))
    BY <2>1, RunIs, Ids0 DEF TypeOK, Phases
  <2>4. inFlight' \in 0..MaxRuns /\ lookupFailed' \in BOOLEAN
    BY DEF StorageAnswers, TypeOK, BootTypes
  <2>5. BootTypes'
    BY <2>1, <2>2, <2>3, <2>4, RunChanged DEF TypeOK
  <2>6. IdTypes' /\ ResetTypes' /\ PairingTypes'
    <3>1. UNCHANGED <<idVars, resets, pairing>>
      BY <1>3, <1>4 DEF StorageAnswers, w
    <3> QED
      BY <3>1, Kept DEF TypeOK
  <2> QED
    BY <1>1, <1>2, <2>5, <2>6 DEF TypeOK
<1>5. CASE op = "group"
  <2>1. pairing' = [pairing EXCEPT !.phase = "deleting"] /\ UNCHANGED <<idVars, resets>>
        /\ UNCHANGED bootVars
    BY <1>3, <1>5 DEF StorageAnswers, w, bootVars
  <2>2. PairingTypes' /\ IdTypes' /\ ResetTypes' /\ BootTypes'
    BY <2>1, PairingChanged, Kept DEF PairingPhases, TypeOK
  <2> QED
    BY <1>1, <1>2, <2>2 DEF TypeOK
<1>6. CASE op = "delete"
  <2>1. w.by \in Resets
    BY <1>2, <1>3, <1>6 DEF IsWrite
  <2>2. /\ storedId' = NoId /\ wiped' = wiped \cup ({storedId} \ {NoId})
        /\ cachedId' = cachedId /\ minting' = minting
        /\ resets' = [resets EXCEPT ![w.by].phase = "user"]
        /\ pairing' = pairing /\ UNCHANGED bootVars
    BY <1>3, <1>6 DEF StorageAnswers, w, bootVars
  <2>3. ResetTypes' /\ PairingTypes' /\ BootTypes'
    BY <2>1, <2>2, ResetChanged, Kept DEF ResetPhases, TypeOK
  <2>4. IdTypes'
    BY <2>2, Ids0 DEF IdTypes, TypeOK, Id
  <2> QED
    BY <1>1, <1>2, <2>3, <2>4 DEF TypeOK
<1> QED
  BY <1>4, <1>5, <1>6

LEMMA PairingStepTypes ==
    ASSUME TypeOK, IdsInv, PairingStep \/ Scan
    PROVE  TypeOK'
<1>1. AuthTypes' /\ BootTypes' /\ RepoTypes' /\ ResetTypes' /\ ProcTypes'
  BY Kept DEF PairingStep, Scan, TypeOK
<1>2. CASE PairingSignIn \/ DeleteOldUser \/ SignInWithCustomToken
  <2>1. FireTypes'
    BY <1>2, FireMoves, Kept
    DEF PairingSignIn, DeleteOldUser, SignInWithCustomToken, TypeOK, Uids
  <2>2. PairingTypes'
    BY <1>2, IdleTypes, PairingChanged, Kept
    DEF PairingSignIn, DeleteOldUser, SignInWithCustomToken, TypeOK, PairingPhases,
        PairingTypes
  <2>3. CloudTypes' /\ KeyTypes' /\ IdTypes'
    BY <1>2, Kept DEF PairingSignIn, DeleteOldUser, SignInWithCustomToken, TypeOK
  <2> QED
    BY <1>1, <2>1, <2>2, <2>3 DEF TypeOK
<1>3. CASE Confirm \/ CallJoinNetwork \/ PairingFails \/ StartPairing
  <2>1. CloudTypes' /\ FireTypes' /\ KeyTypes' /\ IdTypes'
    BY <1>3, Kept DEF Confirm, CallJoinNetwork, PairingFails, StartPairing, TypeOK
  <2>2. PairingTypes'
    <3>1. CASE Confirm \/ PairingFails
      BY <3>1, IdleTypes DEF Confirm, PairingFails, PairingTypes, PairingPhases, TypeOK
    <3>2. CASE CallJoinNetwork
      BY <3>2 DEF CallJoinNetwork, PairingTypes, PairingPhases, TypeOK, IdTypes, FireTypes
    <3>3. CASE StartPairing
      BY <3>3, IdleTypes DEF StartPairing, PairingTypes, PairingPhases
    <3> QED
      BY <1>3, <3>1, <3>2, <3>3
  <2> QED
    BY <1>1, <2>1, <2>2 DEF TypeOK
<1>4. CASE JoinNetwork
  <2>1. FireTypes' /\ KeyTypes' /\ IdTypes'
    BY <1>4, Kept DEF JoinNetwork, TypeOK
  <2>2. PairingTypes'
    BY <1>4, PairingChanged DEF JoinNetwork, PairingPhases, TypeOK
  <2>3. pairing.id \in Ids
    BY <1>4 DEF JoinNetwork, IdsInv, TypeOK, PairingTypes, Id
  <2>4. CloudTypes'
    BY <1>4, <2>3 DEF JoinNetwork, Departed, TypeOK, CloudTypes
  <2> QED
    BY <1>1, <2>1, <2>2, <2>4 DEF TypeOK
<1>5. CASE ExchangeKey
  <2>1. CloudTypes' /\ FireTypes' /\ IdTypes'
    BY <1>5, Kept DEF ExchangeKey, TypeOK
  <2>2. PairingTypes'
    BY <1>5, PairingChanged DEF ExchangeKey, PairingPhases, TypeOK
  <2>3. IsWrite([op |-> "group", by |-> "pairing"])
    BY DEF IsWrite
  <2>4. KeyTypes'
    BY <1>5, <2>3, WriteAdded DEF ExchangeKey, TypeOK
  <2> QED
    BY <1>1, <2>1, <2>2, <2>4 DEF TypeOK
<1> QED
  BY <1>2, <1>3, <1>4, <1>5 DEF PairingStep, Scan

LEMMA OutsideTypes ==
    ASSUME TypeOK, Launch \/ Crash \/ Peer
    PROVE  TypeOK'
<1>1. CASE Launch
  <2>1. /\ CloudTypes' /\ FireTypes' /\ KeyTypes' /\ IdTypes' /\ ResetTypes' /\ PairingTypes'
    BY <1>1, Kept DEF Launch, TypeOK
  <2>2. AuthTypes' /\ ProcTypes'
    BY <1>1 DEF Launch, TypeOK, AuthTypes, FireTypes, ProcTypes
  <2>3. BootTypes' /\ RepoTypes'
    <3>1. /\ lookupFailed' = lookupFailed /\ attached' = attached /\ attachedId' = attachedId
          /\ seen' = seen /\ fired' = fired /\ peersSeen' = peersSeen
      BY <1>1 DEF Launch
    <3>2. CASE user # Nobody /\ Begin(user) /\ attaching' = <<user>>
      <4>1. user \in Uids
        BY <3>2 DEF TypeOK, FireTypes, Uid
      <4>2. BootTypes'
        BY <3>1, <3>2, <4>1, Begun DEF TypeOK
      <4> QED
        BY <3>1, <3>2, <4>1, <4>2 DEF TypeOK, RepoTypes
    <3>3. CASE UNCHANGED <<bstate, currentUid, inFlight, runs, attaching>>
      BY <3>1, <3>3 DEF TypeOK, RepoTypes, BootTypes
    <3> QED
      BY <1>1, <3>2, <3>3 DEF Launch
  <2> QED
    BY <2>1, <2>2, <2>3 DEF TypeOK
<1>2. CASE Crash
  <2>1. CloudTypes'
    BY <1>2, Kept DEF Crash, TypeOK
  <2>2. FireTypes' /\ AuthTypes' /\ RepoTypes' /\ ProcTypes'
    <3>1. <<>> \in Seq(Uid) /\ <<>> \in Seq(Uids)
      OBVIOUS
    <3>2. FireTypes' /\ RepoTypes'
      BY <1>2, <3>1, Ids0 DEF Crash, TypeOK, FireTypes, RepoTypes
    <3>3. auth' = Nobody /\ signing' = FALSE /\ running' = FALSE /\ crashes' = crashes + 1
          /\ leaves' = leaves
      BY <1>2 DEF Crash
    <3>4. AuthTypes'
      BY <3>3, Ids0 DEF AuthTypes
    <3>5. crashes' \in Nat /\ leaves' \in Nat
      BY <3>3 DEF TypeOK, ProcTypes
    <3>6. ProcTypes'
      BY <3>3, <3>5 DEF ProcTypes
    <3> QED
      BY <3>2, <3>4, <3>6
  <2>3. KeyTypes' /\ IdTypes'
    BY <1>2, Ids0 DEF Crash, TypeOK, KeyTypes, IdTypes, ToSet
  <2>4. ResetTypes' /\ PairingTypes'
    BY <1>2, IdleTypes DEF Crash, TypeOK, ResetTypes, PairingTypes
  <2>5. BootTypes'
    <3>1. IsRun(Idle)
      <4>1. Idle.phase = "none"
        BY DEF Idle
      <4> QED
        BY <4>1, IdleTypes DEF IsRun
    <3>2. \A r \in Runs : IsRun(runs'[r])
      BY <1>2, <3>1 DEF Crash
    <3>3. /\ runs' = [r \in Runs |-> runs'[r]] /\ inFlight' \in 0..MaxRuns
          /\ lookupFailed' \in BOOLEAN
      BY <1>2, BoundsAssumption DEF Crash, TypeOK, BootTypes
    <3> QED
      BY <3>2, <3>3 DEF BootTypes, IsRun
  <2> QED
    BY <2>1, <2>2, <2>3, <2>4, <2>5 DEF TypeOK
<1>3. CASE Peer
  <2>1. /\ FireTypes' /\ AuthTypes' /\ KeyTypes' /\ IdTypes' /\ BootTypes' /\ RepoTypes'
        /\ ResetTypes' /\ PairingTypes' /\ ProcTypes'
    BY <1>3, Kept DEF Peer, TypeOK
  <2>2. CloudTypes'
    BY <1>3 DEF Peer, PeerDestroys, PeerLeaves, PeerRemoves, TypeOK, CloudTypes
  <2> QED
    BY <2>1, <2>2 DEF TypeOK
<1> QED
  BY <1>1, <1>2, <1>3

LEMMA TypesKept ==
    ASSUME TypeOK, IdsInv, QuietInv, [Next]_vars
    PROVE  TypeOK'
<1>1. CASE UNCHANGED vars
  BY <1>1, Kept DEF vars, TypeOK
<1>2. DOMAIN resets = Resets
  BY DEF TypeOK, ResetTypes
<1>3. CASE System
  BY <1>2, <1>3, IdentifyTypes, DeliverTypes, SignInTypes, RepositoryTypes, StorageTypes,
     ResetServiceTypes, PairingStepTypes, RunTypes
  DEF System
<1>4. CASE Outside
  BY <1>4, SignInTypes, PairingStepTypes, ResetServiceTypes, OutsideTypes DEF Outside
<1> QED
  BY <1>1, <1>3, <1>4, ResumeTypes DEF Next

-----------------------------------------------------------------------------
(* The accounts.                                                           *)

LEMMA AccountsSame ==
    ASSUME AccountsInv, UNCHANGED <<accounts, rows, existed>>,
           seen' /\ attached' # Nobody =>
               \/ seen /\ attached' = attached
               \/ attached' \in accounts
    PROVE  AccountsInv'
BY DEF AccountsInv

LEMMA AccountsKept ==
    ASSUME TypeOK, AccountsInv, [Next]_vars
    PROVE  AccountsInv'
<1>0. /\ accounts \subseteq Uids /\ rows \in [Uids -> SUBSET Ids]
      /\ \A r \in Runs : runs[r].as \in Uid
      /\ resets["chosen"].as \in Uid /\ pairing.as \in Uid
  BY DEF TypeOK, CloudTypes, BootTypes, ResetTypes, Resets, PairingTypes
<1>1. CASE \/ UNCHANGED vars \/ Identify \/ SignInAnswered \/ SignInForNewGroup
           \/ DiscardStale \/ DevicesSnapshot \/ Resume \/ Scan \/ Launch \/ StorageAnswers
           \/ \E k \in DOMAIN resets : Clear(k) \/ ResetUser(k)
           \/ \E what \in {"leave", "destroy"} : Choose(what)
  <2>1. UNCHANGED <<accounts, rows, existed, seen, attached>>
    <3>1. CASE UNCHANGED vars \/ Identify \/ SignInAnswered \/ SignInForNewGroup
      BY <3>1
      DEF vars, cloudVars, repoVars, Identify, SignInAnswered, SignInForNewGroup
    <3>2. CASE DiscardStale \/ DevicesSnapshot \/ Resume \/ Scan
      BY <3>2
      DEF cloudVars, repoVars, DiscardStale, DevicesSnapshot, Resume, Scan, StartPairing
    <3>3. CASE \/ Launch \/ StorageAnswers
               \/ \E k \in DOMAIN resets : Clear(k) \/ ResetUser(k)
               \/ \E what \in {"leave", "destroy"} : Choose(what)
      BY <3>3 DEF cloudVars, repoVars, Launch, StorageAnswers, Clear, ResetUser, Choose
    <3> QED
      BY <1>1, <3>1, <3>2, <3>3
  <2> QED
    BY <2>1, AccountsSame
<1>2. CASE Deliver \/ Attach \/ AccountSnapshot \/ Crash
  <2>1. UNCHANGED <<accounts, rows>>
    BY <1>2 DEF Deliver, Attach, AccountSnapshot, Crash, cloudVars
  <2>2. UNCHANGED existed
    BY <1>2 DEF Deliver, Attach, AccountSnapshot, Crash, cloudVars
  <2>3. seen' /\ attached' # Nobody => (seen /\ attached' = attached) \/ attached' \in accounts
    <3>1. CASE Deliver
      BY <3>1 DEF Deliver, Detach, repoVars
    <3>2. CASE Attach \/ AccountSnapshot \/ Crash
      BY <3>2 DEF Attach, AccountSnapshot, Crash
    <3> QED
      BY <1>2, <3>1, <3>2
  <2> QED
    BY <2>1, <2>2, <2>3, AccountsSame
<1>3. ASSUME NEW r \in Runs, RunStep(r) PROVE AccountsInv'
  <2>1. UNCHANGED <<seen, attached>>
    BY <1>3 DEF RunStep, repoVars
  <2>2. CASE \/ LookUp(r) \/ CallCreateAccount(r) \/ AccountCreated(r) \/ RunFails(r)
    BY <2>1, <2>2, AccountsSame
    DEF LookUp, CallCreateAccount, AccountCreated, RunFails, cloudVars
  <2>3. CASE CreateAccount(r)
    BY <2>1, <2>3 DEF CreateAccount, AccountsInv
  <2>4. CASE RegisterDevice(r)
    BY <1>0, <2>1, <2>4 DEF RegisterDevice, AccountsInv
  <2> QED
    BY <1>3, <2>2, <2>3, <2>4 DEF RunStep
<1>4. CASE ResetCall
  BY <1>0, <1>4 DEF ResetCall, Leave, Destroy, Departed, AccountsInv, repoVars
<1>5. CASE PairingStep
  <2>1. UNCHANGED <<seen, attached>>
    BY <1>5 DEF PairingStep, repoVars
  <2>2. CASE UNCHANGED cloudVars
    BY <2>1, <2>2, AccountsSame DEF cloudVars
  <2>3. CASE JoinNetwork
    BY <1>0, <2>1, <2>3 DEF JoinNetwork, Departed, AccountsInv, Uid
  <2> QED
    BY <1>5, <2>2, <2>3
    DEF PairingStep, PairingSignIn, Confirm, CallJoinNetwork, ExchangeKey, DeleteOldUser,
        SignInWithCustomToken, PairingFails
<1>6. CASE Peer
  BY <1>0, <1>6 DEF Peer, PeerDestroys, PeerLeaves, PeerRemoves, AccountsInv, repoVars
<1>7. UNCHANGED vars \/ Resume \/ System \/ Outside
  BY DEF Next
<1> QED
  BY <1>1, <1>2, <1>3, <1>4, <1>5, <1>6, <1>7 DEF System, Outside

-----------------------------------------------------------------------------
(* What the process does.                                                  *)

\* A process that does not run is launched, or waits for the others.
LEMMA StoppedSteps ==
    ASSUME TypeOK, StoppedInv, QuietInv, ~running, Next
    PROVE  Launch \/ Peer
<1>1. /\ cachedId = NoId /\ minting = NoId /\ events = <<>> /\ attaching = <<>> /\ ~signing
      /\ writes = <<>> /\ ready = <<>> /\ attached = Nobody
      /\ runs = [r \in Runs |-> Idle] /\ pairing = NoPairing
      /\ resets = [k \in Resets |-> NoReset]
  BY DEF StoppedInv, QuietInv
<1>2. /\ \A r \in Runs : runs[r].phase = "none"
      /\ pairing.phase = "none"
      /\ \A k \in Resets : resets[k].phase = "none"
      /\ DOMAIN resets = Resets /\ "chosen" \in Resets
  BY <1>1 DEF Idle, NoReset, NoPairing, Resets
<1>3. ~Identify
  BY <1>1, <1>2 DEF Identify, ResolveId, Minted, NeedsId
<1>4. ~Resume /\ ~Deliver /\ ~SignInAnswered /\ ~Attach /\ ~StorageAnswers
  BY <1>1 DEF Resume, Deliver, SignInAnswered, Attach, StorageAnswers
<1>5. ~AccountSnapshot /\ ~DevicesSnapshot
  BY <1>1 DEF AccountSnapshot, DevicesSnapshot, Readable
<1>6. ~ResetCall /\ ~\E k \in DOMAIN resets : Clear(k) \/ ResetUser(k)
  BY <1>2 DEF ResetCall, Leave, Destroy, Clear, ResetUser
<1>7. ~PairingStep
  BY <1>2
  DEF PairingStep, PairingSignIn, Confirm, CallJoinNetwork, JoinNetwork, ExchangeKey,
      DeleteOldUser, SignInWithCustomToken, PairingFails
<1>8. ~\E r \in Runs : RunStep(r)
  BY <1>2
  DEF RunStep, LookUp, CallCreateAccount, CreateAccount, AccountCreated, RegisterDevice,
      RunFails
<1>9. /\ ~SignInForNewGroup /\ ~DiscardStale /\ ~Scan /\ ~Choose("leave") /\ ~Choose("destroy")
      /\ ~Crash
  BY DEF SignInForNewGroup, DiscardStale, Scan, StartPairing, Choose, Crash
<1> QED
  BY <1>3, <1>4, <1>5, <1>6, <1>7, <1>8, <1>9 DEF Next, System, Outside

LEMMA StoppedKept ==
    ASSUME TypeOK, StoppedInv, QuietInv, [Next]_vars
    PROVE  StoppedInv'
<1>1. CASE UNCHANGED vars \/ Peer
  BY <1>1
  DEF vars, procVars, idVars, bootVars, fireVars, repoVars, authVars, Peer, StoppedInv
<1>2. CASE Launch
  BY <1>2 DEF Launch, StoppedInv
<1>3. CASE Crash
  BY <1>3 DEF Crash, StoppedInv
<1>4. CASE Next /\ running /\ ~Crash
  <2>1. CASE Resume \/ Launch \/ Peer
    BY <1>4, <2>1 DEF Resume, Launch, Peer, procVars, StoppedInv
  <2>2. CASE System
    <3>1. running' = running
      BY <2>2
      DEF System, Identify, Deliver, SignInAnswered, Attach, StorageAnswers,
          AccountSnapshot, DevicesSnapshot, ResetCall, Clear, ResetUser, PairingStep,
          RunStep, procVars
    <3> QED
      BY <1>4, <3>1 DEF StoppedInv
  <2>3. CASE Outside
    <3>1. running'
      BY <1>4, <2>3
      DEF Outside, SignInForNewGroup, DiscardStale, Scan, Choose, Launch, Peer, procVars
    <3> QED
      BY <3>1 DEF StoppedInv
  <2> QED
    BY <1>4, <2>1, <2>2, <2>3 DEF Next
<1> QED
  BY <1>1, <1>2, <1>3, <1>4, StoppedSteps

-----------------------------------------------------------------------------
(* The calls to the storage.                                               *)

\* What the steps of a run do to it.
LEMMA RunMoves ==
    ASSUME TypeOK, NEW r \in Runs, RunStep(r)
    PROVE  /\ \A s \in Runs \ {r} : runs'[s] = runs[s]
           /\ \/ /\ LookUp(r) /\ runs[r].phase = "lookup"
                 /\ runs'[r].phase = "id"
                 /\ inFlight' = inFlight /\ ready' = ready
              \/ /\ CallCreateAccount(r) /\ runs[r].phase = "id"
                 /\ runs'[r].phase = "creating" /\ runs'[r].id = cachedId
                 /\ inFlight' = inFlight /\ ready' = ready
              \/ /\ CreateAccount(r) /\ runs[r].phase = "creating"
                 /\ runs'[r].phase = "created" /\ runs'[r].id = runs[r].id
                 /\ inFlight' = inFlight /\ ready' = ready
              \/ /\ AccountCreated(r) /\ runs[r].phase = "created"
                 /\ runs'[r].phase \in {"keying", "registering"}
                 /\ runs'[r].id = runs[r].id
                 /\ inFlight' = inFlight /\ ready' = ready
              \/ /\ RegisterDevice(r) \/ RunFails(r)
                 /\ runs[r].phase \in {"creating", "created", "registering"}
                 /\ runs'[r] = Idle /\ inFlight' = 0
<1>1. BootTypes /\ FireTypes /\ cachedId \in Id
  BY DEF TypeOK, IdTypes
<1>2. lookupFailed' \in BOOLEAN
  BY <1>1
  DEF RunStep, LookUp, CallCreateAccount, CreateAccount, AccountCreated, RegisterDevice,
      RunFails, BootTypes
<1> DEFINE x == runs[r]
<1>3. /\ x \in [phase : Phases, uid : {x.uid}, as : Uid, id : Id, created : BOOLEAN]
  BY <1>1 DEF BootTypes
<1>4. CASE LookUp(r)
  <2>1. Goes(r, [x EXCEPT !.phase = "id"]) /\ inFlight' = inFlight /\ ready' = ready
        /\ x.phase = "lookup"
    BY <1>4 DEF LookUp
  <2>2. IsRun([x EXCEPT !.phase = "id"]) /\ [x EXCEPT !.phase = "id"].phase = "id"
    BY <1>3, RunIs, <1>1, Ids0 DEF Phases
  <2> HIDE DEF x
  <2>3. runs'[r] = [x EXCEPT !.phase = "id"] /\ \A s \in Runs \ {r} : runs'[s] = runs[s]
    BY <1>1, <1>2, <2>1, <2>2, WentOn
  <2> QED
    BY <1>4, <2>1, <2>2, <2>3 DEF x
<1>5. CASE CallCreateAccount(r)
  <2> DEFINE y == [Calling(r, "creating") EXCEPT !.id = cachedId]
  <2>1. Goes(r, y) /\ inFlight' = inFlight /\ ready' = ready /\ x.phase = "id"
    BY <1>5 DEF CallCreateAccount
  <2>2. IsRun(y) /\ y.phase = "creating" /\ y.id = cachedId
    <3>1. "creating" \in Phases \ {"lookup"}
      BY DEF Phases
    <3>2. \A i \in Id :
             /\ IsRun([Calling(r, "creating") EXCEPT !.id = i])
             /\ [Calling(r, "creating") EXCEPT !.id = i].phase = "creating"
             /\ [Calling(r, "creating") EXCEPT !.id = i].id = i
      <4> SUFFICES ASSUME NEW i \in Id
                   PROVE  /\ IsRun([Calling(r, "creating") EXCEPT !.id = i])
                          /\ [Calling(r, "creating") EXCEPT !.id = i].phase = "creating"
                          /\ [Calling(r, "creating") EXCEPT !.id = i].id = i
        OBVIOUS
      <4>1. IsRun([Calling(r, "creating") EXCEPT !.id = i])
        BY RunIs, <1>1, <3>1
      <4>2. IsRun(Calling(r, "creating")) /\ Calling(r, "creating").phase = "creating"
        BY RunIs, <1>1, <3>1
      <4> DEFINE z == Calling(r, "creating")
      <4>3. /\ z \in [phase : Phases, uid : {z.uid}, as : Uid, id : Id, created : BOOLEAN]
            /\ z.phase = "creating"
        BY <4>2 DEF IsRun
      <4> HIDE DEF z
      <4>4. [z EXCEPT !.id = i].phase = "creating" /\ [z EXCEPT !.id = i].id = i
        BY <4>3
      <4> QED
        BY <4>1, <4>4 DEF z
    <3> QED
      BY <1>1, <3>2
  <2> HIDE DEF y
  <2>3. runs'[r] = y /\ \A s \in Runs \ {r} : runs'[s] = runs[s]
    BY <1>1, <1>2, <2>1, <2>2, WentOn
  <2> QED
    BY <1>5, <2>1, <2>2, <2>3
<1>6. CASE CreateAccount(r)
  <2> DEFINE b == x.as \notin accounts
             y == [x EXCEPT !.phase = "created", !.created = b]
  <2>1. Goes(r, y) /\ inFlight' = inFlight /\ ready' = ready /\ x.phase = "creating"
    BY <1>6 DEF CreateAccount
  <2>2. y.phase = "created" /\ y.id = x.id
    BY <1>3
  <2>3. IsRun(y)
    BY RunIs, <1>1, Ids0 DEF Phases
  <2> HIDE DEF y
  <2>4. runs'[r] = y /\ \A s \in Runs \ {r} : runs'[s] = runs[s]
    BY <1>1, <1>2, <2>1, <2>3, WentOn
  <2> QED
    BY <1>6, <2>1, <2>2, <2>4
<1>7. CASE AccountCreated(r)
  <2>1. PICK y \in {[x EXCEPT !.phase = "keying"], Calling(r, "registering")} : Goes(r, y)
    BY <1>7 DEF AccountCreated
  <2>2. inFlight' = inFlight /\ ready' = ready /\ x.phase = "created"
    BY <1>7 DEF AccountCreated
  <2>3. IsRun(y) /\ y.phase \in {"keying", "registering"} /\ y.id = x.id
    <3>1. CASE y = [x EXCEPT !.phase = "keying"]
      BY <1>3, <3>1, RunIs, <1>1, Ids0 DEF Phases
    <3>2. CASE y = Calling(r, "registering")
      <4>1. "registering" \in Phases \ {"lookup"}
        BY DEF Phases
      <4> QED
        BY <3>2, RunIs, <1>1, <4>1
    <3> QED
      BY <2>1, <3>1, <3>2
  <2>4. runs'[r] = y /\ \A s \in Runs \ {r} : runs'[s] = runs[s]
    BY <1>1, <1>2, <2>1, <2>2, <2>3, WentOn
  <2> QED
    BY <1>7, <2>2, <2>3, <2>4
<1>8. CASE RegisterDevice(r) \/ RunFails(r)
  <2>1. PICK outcome : Ends(r, outcome) /\ lookupFailed' = lookupFailed
    BY <1>8 DEF RegisterDevice, RunFails
  <2>2. x.phase \in {"creating", "created", "registering"}
    BY <1>8 DEF RegisterDevice, RunFails
  <2> QED
    BY <1>1, <1>8, <2>1, <2>2, Ended
<1> QED
  BY <1>4, <1>5, <1>6, <1>7, <1>8 DEF RunStep

\* Who waits goes on waiting, but for one.
StillWait(h) == \A w : IsWrite(w) /\ Waits(w) /\ w # h => Waits(w)'

LEMMA WritesSame ==
    ASSUME KeyTypes, WritesInv, UNCHANGED writes, \A w : IsWrite(w) /\ Waits(w) => Waits(w)'
    PROVE  WritesInv'
<1>1. \A n \in DOMAIN writes : IsWrite(writes[n])
  BY DEF KeyTypes, ToSet
<1>2. \A n \in DOMAIN writes' : \A w : w = writes'[n] => Waits(w)'
  BY <1>1 DEF WritesInv
<1>3. \A m, n \in DOMAIN writes' : writes'[m] = writes'[n] => m = n
  BY DEF WritesInv
<1> QED
  BY <1>2, <1>3 DEF WritesInv, Waits

LEMMA WritesMove ==
    ASSUME KeyTypes, WritesInv, NEW h, StillWait(h)
    PROVE  /\ writes # <<>> /\ writes' = Tail(writes) /\ h = Head(writes) /\ KeyTypes' =>
                 WritesInv'
           /\ \A w : /\ IsWrite(w) /\ ~Waits(w) /\ Waits(w)' /\ h = w
                     /\ writes' = Append(writes, w) /\ key' = key
                     => WritesInv'
<1>0. \A n \in DOMAIN writes : IsWrite(writes[n])
  BY DEF KeyTypes, ToSet
<1>2. ASSUME writes # <<>>, writes' = Tail(writes), h = Head(writes), KeyTypes'
      PROVE  WritesInv'
  <2>1. /\ h = writes[1] /\ 1 \in DOMAIN writes
        /\ \A n \in DOMAIN writes' :
              /\ n \in DOMAIN writes /\ n + 1 \in DOMAIN writes /\ n + 1 # 1
              /\ writes'[n] = writes[n + 1]
    BY <1>2, WriteTaken DEF KeyTypes
  <2>2. \A n \in DOMAIN writes' : writes[n + 1] # h
    BY <2>1 DEF WritesInv
  <2>3. \A n \in DOMAIN writes' : \A w : w = writes'[n] => Waits(w)'
    <3> SUFFICES ASSUME NEW n \in DOMAIN writes', NEW w, w = writes'[n] PROVE Waits(w)'
      OBVIOUS
    <3>1. IsWrite(w) /\ Waits(w) /\ w # h
      <4>1. n + 1 \in DOMAIN writes /\ w = writes[n + 1] /\ writes[n + 1] # h
        BY <2>1, <2>2
      <4> QED
        BY <1>0, <4>1 DEF WritesInv
    <3> QED
      BY <3>1 DEF StillWait
  <2>4. \A m, n \in DOMAIN writes' : writes'[m] = writes'[n] => m = n
    <3> SUFFICES ASSUME NEW m \in DOMAIN writes', NEW n \in DOMAIN writes',
                        writes'[m] = writes'[n]
                 PROVE  m = n
      OBVIOUS
    <3>1. m + 1 = n + 1
      BY <2>1 DEF WritesInv
    <3>2. m \in Int /\ n \in Int
      BY <2>1 DEF KeyTypes
    <3> QED
      BY <3>1, <3>2
  <2> QED
    BY <2>3, <2>4 DEF WritesInv, Waits
<1>3. ASSUME NEW w, IsWrite(w), ~Waits(w), Waits(w)', h = w,
             writes' = Append(writes, w), key' = key
      PROVE  WritesInv'
  <2>1. /\ Len(writes) \in Nat
        /\ DOMAIN writes = 1..Len(writes) /\ DOMAIN writes' = 1..(Len(writes) + 1)
        /\ \A n \in 1..Len(writes) : writes'[n] = writes[n]
        /\ writes'[Len(writes) + 1] = w
    BY <1>3, WriteAdded
  <2>2. \A n \in DOMAIN writes : writes[n] # w /\ Waits(writes[n]) /\ IsWrite(writes[n])
    BY <1>0, <1>3 DEF WritesInv
  <2>3. \A n \in DOMAIN writes' : n \in DOMAIN writes \/ n = Len(writes) + 1
    BY <2>1
  <2>5. \A n \in DOMAIN writes' : \A v : v = writes'[n] => Waits(v)'
    <3> SUFFICES ASSUME NEW n \in DOMAIN writes', NEW v, v = writes'[n] PROVE Waits(v)'
      OBVIOUS
    <3>1. CASE n \in DOMAIN writes
      <4>1. v = writes[n]
        BY <2>1, <3>1
      <4>2. IsWrite(v) /\ Waits(v) /\ v # h
        BY <1>3, <2>2, <3>1, <4>1
      <4> QED
        BY <4>2 DEF StillWait
    <3>2. CASE n = Len(writes) + 1
      <4>1. v = w
        BY <2>1, <3>2
      <4> QED
        BY <1>3, <4>1
    <3> QED
      BY <2>3, <3>1, <3>2
  <2>6. \A m, n \in DOMAIN writes' : writes'[m] = writes'[n] => m = n
    BY <2>1, <2>2, <2>3 DEF WritesInv
  <2> QED
    BY <2>5, <2>6 DEF WritesInv, Waits
<1> QED
  BY <1>2, <1>3

LEMMA WaitingKept ==
    ASSUME KeyTypes, WritesInv, UNCHANGED writes,
           \A r \in Runs : runs[r].phase = "keying" => runs'[r].phase = "keying",
           pairing.phase = "installing" => pairing'.phase = "installing",
           \A k \in Resets : resets[k].phase = "clearing" => resets'[k].phase = "clearing"
    PROVE  WritesInv'
<1>1. \A w : IsWrite(w) /\ Waits(w) => Waits(w)'
  BY DEF IsWrite, Waits
<1> QED
  BY <1>1, WritesSame

LEMMA RunWrites ==
    ASSUME TypeOK, WritesInv, NEW r \in Runs, RunStep(r)
    PROVE  WritesInv'
<1>0. KeyTypes /\ UNCHANGED <<pairing, resets>>
  BY DEF TypeOK, RunStep
<1>1. /\ \A s \in Runs \ {r} : runs'[s] = runs[s]
      /\ runs[r].phase # "keying"
  BY RunMoves
<1>2. CASE UNCHANGED writes
  BY <1>0, <1>1, <1>2, WaitingKept
<1>3. CASE /\ AccountCreated(r) /\ runs'[r].phase = "keying"
           /\ writes' = Append(writes, [op |-> "own", by |-> r])
  <2> DEFINE w == [op |-> "own", by |-> r]
  <2>1. IsWrite(w) /\ ~Waits(w)
    BY <1>1 DEF IsWrite, Waits
  <2>2. Waits(w)'
    BY <1>3 DEF Waits
  <2>3. key' = key
    BY <1>3 DEF AccountCreated
  <2>4. StillWait(w)
    BY <1>0, <1>1 DEF StillWait, IsWrite, Waits
  <2>5. writes' = Append(writes, w)
    BY <1>3
  <2> HIDE DEF w
  <2> QED
    BY <1>0, <2>1, <2>2, <2>3, <2>4, <2>5, WritesMove
<1>4. UNCHANGED writes \/ /\ AccountCreated(r)
                          /\ Goes(r, [runs[r] EXCEPT !.phase = "keying"])
                          /\ writes' = Append(writes, [op |-> "own", by |-> r])
  BY DEF RunStep, LookUp, CallCreateAccount, CreateAccount, AccountCreated, RegisterDevice,
         RunFails, keyVars
<1>5. Goes(r, [runs[r] EXCEPT !.phase = "keying"]) => runs'[r].phase = "keying"
  BY DEF Goes, TypeOK, BootTypes
<1> QED
  BY <1>2, <1>3, <1>4, <1>5

LEMMA PairingWrites ==
    ASSUME TypeOK, WritesInv, PairingStep
    PROVE  WritesInv'
<1>0. KeyTypes /\ UNCHANGED <<runs, resets>>
  BY DEF TypeOK, PairingStep, bootVars
<1>1. CASE ExchangeKey
  <2> DEFINE w == [op |-> "group", by |-> "pairing"]
  <2>1. pairing'.phase = "installing" /\ pairing.phase = "joined"
    BY <1>1, PairingChanged DEF ExchangeKey, TypeOK, PairingPhases
  <2>2. IsWrite(w) /\ ~Waits(w)
    BY <2>1 DEF IsWrite, Waits
  <2>3. Waits(w)'
    BY <2>1 DEF Waits
  <2>4. StillWait(w)
    BY <1>0, <2>1 DEF StillWait, IsWrite, Waits
  <2>5. writes' = Append(writes, w) /\ key' = key
    BY <1>1 DEF ExchangeKey
  <2> HIDE DEF w
  <2> QED
    BY <1>0, <2>2, <2>3, <2>4, <2>5, WritesMove
<1>2. CASE ~ExchangeKey
  <2>1. UNCHANGED writes
    BY <1>2
    DEF PairingStep, PairingSignIn, Confirm, CallJoinNetwork, JoinNetwork, ExchangeKey,
        DeleteOldUser, SignInWithCustomToken, PairingFails, keyVars
  <2>2. pairing.phase = "installing" => pairing' = pairing
    BY <1>2
    DEF PairingStep, PairingSignIn, Confirm, CallJoinNetwork, JoinNetwork, ExchangeKey,
        DeleteOldUser, SignInWithCustomToken, PairingFails
  <2> QED
    BY <1>0, <2>1, <2>2, WaitingKept
<1> QED
  BY <1>1, <1>2

LEMMA ResetWrites ==
    ASSUME TypeOK, WritesInv,
           \/ ResetCall \/ \E k \in Resets : Clear(k) \/ ResetUser(k)
           \/ \E what \in {"leave", "destroy"} : Choose(what)
           \/ AccountSnapshot
    PROVE  WritesInv'
<1>0. KeyTypes /\ ResetTypes
  BY DEF TypeOK
<1>1. ASSUME NEW k \in Resets, Clear(k) PROVE WritesInv'
  <2> DEFINE w == [op |-> "delete", by |-> k]
  <2>1. /\ resets'[k].phase = "clearing" /\ resets[k].phase = "clear"
        /\ \A j \in Resets \ {k} : resets'[j] = resets[j]
    BY <1>1, ResetChanged DEF Clear, TypeOK, ResetPhases
  <2>2. IsWrite(w) /\ ~Waits(w)
    BY <2>1 DEF IsWrite, Waits
  <2>3. Waits(w)'
    BY <2>1 DEF Waits
  <2>4. UNCHANGED <<runs, pairing>>
    BY <1>1 DEF Clear, bootVars
  <2>5. StillWait(w)
    BY <2>1, <2>4 DEF StillWait, IsWrite, Waits
  <2>6. writes' = Append(writes, w) /\ key' = key
    BY <1>1 DEF Clear
  <2> HIDE DEF w
  <2> QED
    BY <1>0, <2>2, <2>3, <2>5, <2>6, WritesMove
<1>2. CASE \/ ResetCall \/ \E k \in Resets : ResetUser(k)
           \/ \E what \in {"leave", "destroy"} : Choose(what)
           \/ AccountSnapshot
  <2>1. UNCHANGED <<writes, runs, pairing>>
    BY <1>2 DEF ResetCall, ResetUser, Choose, AccountSnapshot, keyVars, bootVars
  <2>2. \A k \in Resets : resets[k].phase = "clearing" => resets'[k] = resets[k]
    <3>1. NoReset.phase = "none" /\ "chosen" \in Resets /\ "vanished" \in Resets
      BY DEF NoReset, Resets
    <3>2. CASE ResetCall
      BY <1>0, <3>1, <3>2 DEF ResetCall, Leave, Destroy, ResetTypes
    <3>3. CASE \E k \in Resets : ResetUser(k)
      BY <1>0, <3>1, <3>3 DEF ResetUser, ResetTypes
    <3>4. CASE (\E what \in {"leave", "destroy"} : Choose(what)) \/ AccountSnapshot
      BY <1>0, <3>1, <3>4 DEF Choose, AccountSnapshot, ResetTypes
    <3> QED
      BY <1>2, <3>2, <3>3, <3>4
  <2> QED
    BY <1>0, <2>1, <2>2, WaitingKept
<1> QED
  BY <1>1, <1>2

LEMMA StorageWrites ==
    ASSUME TypeOK, WritesInv, StorageAnswers
    PROVE  /\ WritesInv'
           /\ IsWrite(Head(writes)) /\ Waits(Head(writes))
<1> DEFINE w == Head(writes)
<1>0. KeyTypes /\ KeyTypes'
  BY StorageTypes DEF TypeOK
<1>1. /\ IsWrite(w) /\ w = writes[1] /\ 1 \in DOMAIN writes
      /\ writes # <<>> /\ writes' = Tail(writes)
  BY <1>0, WriteTaken DEF StorageAnswers, KeyTypes
<1>2. Waits(w)
  BY <1>1 DEF WritesInv
<1>3. \/ /\ w.op = "own" /\ w.by \in Runs
         /\ runs' = [runs EXCEPT ![w.by] = Calling(w.by, "registering")]
         /\ UNCHANGED <<resets, pairing>>
      \/ /\ w.op = "group" /\ w.by = "pairing" /\ UNCHANGED <<resets, runs>>
      \/ /\ w.op = "delete" /\ w.by \in Resets
         /\ resets' = [resets EXCEPT ![w.by].phase = "user"]
         /\ UNCHANGED <<runs, pairing>>
  BY <1>1 DEF StorageAnswers, IsWrite
<1> HIDE DEF w
<1>4. \/ /\ w.op = "own" /\ w.by \in Runs
         /\ \A s \in Runs \ {w.by} : runs'[s] = runs[s]
         /\ UNCHANGED <<resets, pairing>>
      \/ /\ w.op = "group" /\ w.by = "pairing" /\ UNCHANGED <<resets, runs>>
      \/ /\ w.op = "delete" /\ w.by \in Resets
         /\ \A j \in Resets \ {w.by} : resets'[j] = resets[j]
         /\ UNCHANGED <<runs, pairing>>
  BY <1>3 DEF TypeOK, BootTypes, ResetTypes
<1>5. StillWait(w)
  <2> SUFFICES ASSUME NEW v, IsWrite(v), Waits(v), v # w PROVE Waits(v)'
    BY DEF StillWait
  <2>1. CASE w.op = "own" /\ w.by \in Runs
    BY <1>1, <1>4, <2>1 DEF IsWrite, Waits
  <2>2. CASE w.op = "group" /\ w.by = "pairing"
    BY <1>1, <1>4, <2>2 DEF IsWrite, Waits
  <2>3. CASE w.op = "delete" /\ w.by \in Resets
    BY <1>1, <1>4, <2>3 DEF IsWrite, Waits
  <2> QED
    BY <1>4, <2>1, <2>2, <2>3
<1>6. w = Head(writes)
  BY DEF w
<1> QED
  BY <1>0, <1>1, <1>2, <1>5, <1>6, WritesMove

\* What a bootstrap that begins, if one does, has to do with what there is.
BeginsOrNot ==
    \/ UNCHANGED <<runs, inFlight>>
    \/ \E r \in Runs :
          /\ runs[r] = Idle /\ inFlight' = r
          /\ runs'[r].phase \in {"lookup", "id"}
          /\ runs'[r].phase = "lookup" =>
                /\ runs'[r].uid \in Uids
                /\ cachedId = NoId /\ storedId = NoId
                /\ inFlight = 0
          /\ \A s \in Runs \ {r} : runs'[s] = runs[s]
          /\ inFlight = 0 \/ ready # <<>>

LEMMA BeginBegins ==
    ASSUME TypeOK, NEW u, Begin(u), lookupFailed' = lookupFailed,
           \/ cachedId # NoId /\ ready # <<>>
           \/ u \in Uids /\ inFlight = 0
    PROVE  BeginsOrNot /\ \E r \in Runs : runs'[r].uid = u /\ inFlight' = r
<1>1. PICK r \in Runs :
         /\ runs[r] = Idle /\ inFlight' = r
         /\ runs'[r] = [Idle EXCEPT !.phase = IF cachedId = NoId /\ storedId = NoId
                                              THEN "lookup" ELSE "id",
                                    !.uid = u]
         /\ \A s \in Runs \ {r} : runs'[s] = runs[s]
  BY Begun DEF TypeOK
<1>2. /\ runs'[r].uid = u
      /\ runs'[r].phase = IF cachedId = NoId /\ storedId = NoId THEN "lookup" ELSE "id"
  BY <1>1 DEF Idle
<1> QED
  BY <1>1, <1>2 DEF BeginsOrNot

LEMMA BootBegins ==
    ASSUME TypeOK, StoppedInv, QuietInv, Resume \/ Deliver \/ Launch
    PROVE  /\ BeginsOrNot
           /\ UNCHANGED <<cloudVars, user, signedIn, keyVars, idVars, resets, pairing,
                          lookupFailed, crashes>>
           /\ UNCHANGED <<attached, attachedId>> \/ (attached' = Nobody /\ attachedId' = NoId)
           /\ ready' = ready \/ ready # <<>>
<1>1. CASE Resume
  <2>1. cachedId # NoId /\ ready # <<>> /\ lookupFailed' = lookupFailed
    BY <1>1 DEF Resume, QuietInv
  <2>2. BeginsOrNot
    BY <1>1, <2>1, BeginBegins DEF Resume, BeginsOrNot
  <2> QED
    BY <1>1, <2>1, <2>2 DEF Resume, fireVars, repoVars, procVars
<1>2. CASE Deliver
  <2>1. UNCHANGED <<cloudVars, user, signedIn, keyVars, idVars, resets, pairing, crashes>>
    BY <1>2 DEF Deliver, procVars
  <2>2. UNCHANGED <<attached, attachedId>> \/ (attached' = Nobody /\ attachedId' = NoId)
    BY <1>2 DEF Deliver, Detach, repoVars
  <2> DEFINE u == Head(events)
  <2>3. u \in Uid
    BY <1>2 DEF Deliver, TypeOK, FireTypes
  <2> HIDE DEF u
  <2>4. CASE u # Nobody
    <3>1. u \in Uids /\ RunBootstrap(u)
      BY <1>2, <2>3, <2>4 DEF Deliver, Uid, u
    <3>2. /\ lookupFailed' = lookupFailed /\ ready' = ready
          /\ UNCHANGED <<runs, inFlight>> \/ (inFlight = 0 /\ Begin(u))
      BY <3>1, CalledFor DEF TypeOK
    <3>3. BeginsOrNot
      BY <3>1, <3>2, BeginBegins DEF BeginsOrNot
    <3> QED
      BY <2>1, <2>2, <3>2, <3>3
  <2>5. CASE u = Nobody
    <3>1. UNCHANGED bootVars
      BY <1>2, <2>5 DEF Deliver, u
    <3> QED
      BY <2>1, <2>2, <3>1 DEF bootVars, BeginsOrNot
  <2> QED
    BY <2>4, <2>5
<1>3. CASE Launch
  <2>1. /\ UNCHANGED <<cloudVars, user, signedIn, keyVars, idVars, resets, pairing, crashes>>
        /\ UNCHANGED <<attached, attachedId>> /\ ready' = ready
        /\ lookupFailed' = lookupFailed /\ ~running
    BY <1>3 DEF Launch, fireVars
  <2>2. inFlight = 0
    BY <2>1 DEF StoppedInv
  <2>3. CASE user # Nobody /\ Begin(user)
    <3>1. user \in Uids
      BY <2>3 DEF TypeOK, FireTypes, Uid
    <3>2. BeginsOrNot
      BY <2>1, <2>2, <2>3, <3>1, BeginBegins
    <3> QED
      BY <2>1, <3>2
  <2>4. CASE UNCHANGED <<inFlight, runs>>
    BY <2>1, <2>4 DEF BeginsOrNot
  <2> QED
    BY <1>3, <2>3, <2>4 DEF Launch
<1> QED
  BY <1>1, <1>2, <1>3

LEMMA WritesKept ==
    ASSUME TypeOK, StoppedInv, QuietInv, WritesInv, [Next]_vars
    PROVE  WritesInv'
<1>0. KeyTypes /\ DOMAIN resets = Resets
  BY DEF TypeOK, ResetTypes
<1>1. CASE Resume \/ Deliver \/ Launch
  <2>1. BeginsOrNot /\ UNCHANGED <<writes, resets, pairing>>
    BY <1>1, BootBegins DEF keyVars
  <2>2. \A r \in Runs : runs[r].phase = "keying" => runs'[r] = runs[r]
    BY <2>1 DEF BeginsOrNot, Idle
  <2> QED
    BY <1>0, <2>1, <2>2, WaitingKept
<1>2. CASE Crash
  BY <1>2 DEF Crash, WritesInv
<1>3. CASE \/ UNCHANGED vars \/ Identify \/ SignInAnswered \/ SignInForNewGroup
           \/ DiscardStale \/ Attach \/ DevicesSnapshot \/ Peer
  <2>1. UNCHANGED <<writes, runs, pairing, resets>>
    BY <1>3
    DEF vars, Identify, SignInAnswered, SignInForNewGroup, DiscardStale, Attach,
        DevicesSnapshot, Peer, keyVars, bootVars
  <2> QED
    BY <1>0, <2>1, WaitingKept
<1>4. CASE Scan
  <2>1. UNCHANGED <<writes, runs, resets>> /\ pairing.phase # "installing"
    BY <1>4 DEF Scan, StartPairing, keyVars, bootVars, NoPairing
  <2> QED
    BY <1>0, <2>1, WaitingKept
<1>5. UNCHANGED vars \/ Resume \/ System \/ Outside
  BY DEF Next
<1> QED
  BY <1>0, <1>1, <1>2, <1>3, <1>4, <1>5, RunWrites, PairingWrites, ResetWrites, StorageWrites
  DEF System, Outside

-----------------------------------------------------------------------------
(* The id, and who looks for it.                                           *)

Control == StoppedInv /\ QuietInv /\ IdsInv /\ AloneInv

LEMMA RunsFrom1 == \A r \in Runs : r # 0
BY BoundsAssumption DEF Runs

LEMMA BootControl ==
    ASSUME TypeOK, Control, Resume \/ Deliver \/ Launch
    PROVE  QuietInv' /\ IdsInv' /\ AloneInv'
<1>1. /\ BeginsOrNot
      /\ UNCHANGED <<writes, cachedId, storedId, minting, resets, pairing>>
      /\ UNCHANGED <<attached, attachedId>> \/ (attached' = Nobody /\ attachedId' = NoId)
      /\ ready' = ready \/ ready # <<>>
  BY BootBegins DEF Control, keyVars, idVars
<1>2. QuietInv'
  BY <1>1, RunsFrom1 DEF BeginsOrNot, Control, QuietInv
<1>3. IdsInv'
  BY <1>1 DEF BeginsOrNot, Control, IdsInv, Idle
<1>4. AloneInv'
  <2>1. CASE UNCHANGED <<runs, inFlight>>
    BY <1>1, <2>1 DEF Control, AloneInv
  <2>2. CASE ~UNCHANGED <<runs, inFlight>>
    <3>1. PICK r \in Runs :
             /\ runs[r] = Idle /\ inFlight' = r
             /\ runs'[r].phase = "lookup" =>
                   /\ cachedId = NoId /\ storedId = NoId
                   /\ inFlight = 0
             /\ \A s \in Runs \ {r} : runs'[s] = runs[s]
             /\ inFlight = 0 \/ ready # <<>>
      BY <1>1, <2>2 DEF BeginsOrNot
    <3>2. \A s \in Runs : runs[s].phase # "lookup"
      BY <3>1, RunsFrom1 DEF Control, AloneInv
    <3>3. \A s \in Runs : runs'[s].phase = "lookup" => s = r
      BY <3>1, <3>2
    <3>4. cachedId = NoId /\ inFlight = 0 =>
             /\ \A s \in Runs : runs[s] = Idle
             /\ ready = <<>> /\ pairing.id = NoId
      BY RunsFrom1 DEF Control, QuietInv
    <3> QED
      BY <1>1, <3>1, <3>3, <3>4 DEF AloneInv
  <2> QED
    BY <2>1, <2>2
<1> QED
  BY <1>2, <1>3, <1>4

LEMMA RunControl ==
    ASSUME TypeOK, Control, NEW r \in Runs, RunStep(r)
    PROVE  QuietInv' /\ IdsInv' /\ AloneInv'
<1>1. UNCHANGED <<resets, pairing, attached, attachedId>>
  BY DEF RunStep, repoVars
<1>2. CASE LookUp(r) /\ runs[r].phase = "lookup" /\ runs'[r].phase = "id"
           /\ inFlight' = inFlight /\ ready' = ready
  <2>1. /\ \A s \in Runs \ {r} : runs'[s] = runs[s] /\ runs[s] = Idle
        /\ inFlight = r /\ ready = <<>>
    BY <1>2, RunMoves DEF Control, AloneInv
  <2>2. /\ UNCHANGED <<minting, writes>>
        /\ \/ UNCHANGED <<cachedId, storedId>>
           \/ minting = NoId /\ cachedId' # NoId
    <3>1. user = runs[r].uid => rows[user] \subseteq Ids
      BY <1>2 DEF TypeOK, BootTypes, CloudTypes
    <3> QED
      BY <1>2, <3>1, UsersAssumption DEF LookUp, keyVars
  <2>3. \A s \in Runs : runs'[s].phase \in {"none", "id"}
    BY <1>2, <2>1 DEF Idle
  <2>4. QuietInv'
    BY <1>1, <1>2, <2>1, <2>2 DEF Control, QuietInv
  <2>5. IdsInv'
    BY <1>1, <2>2, <2>3 DEF Control, IdsInv
  <2>6. AloneInv'
    BY <2>3 DEF AloneInv
  <2> QED
    BY <2>4, <2>5, <2>6
<1>3. CASE runs[r].phase # "lookup"
  <2>1. /\ \A s \in Runs \ {r} : runs'[s] = runs[s]
        /\ runs'[r].phase \notin {"lookup"}
    BY <1>3, RunMoves DEF Idle
  <2>2. cachedId # NoId
    <3>1. CallCreateAccount(r) => cachedId # NoId
      BY DEF CallCreateAccount
    <3>2. runs[r].phase \in {"creating", "created", "registering"} => cachedId # NoId
      BY DEF Control, QuietInv, Idle
    <3> QED
      BY <1>3, <3>1, <3>2, RunMoves
  <2>3. UNCHANGED idVars
    BY <1>3
    DEF RunStep, LookUp, CallCreateAccount, CreateAccount, AccountCreated, RegisterDevice,
        RunFails
  <2>4. QuietInv'
    BY <2>2, <2>3 DEF QuietInv, idVars
  <2>5. AloneInv'
    <3>1. \A s \in Runs : runs[s].phase # "lookup"
      <4> SUFFICES ASSUME NEW s \in Runs, runs[s].phase = "lookup" PROVE FALSE
        OBVIOUS
      <4>1. runs[r] = Idle
        BY <1>3 DEF Control, AloneInv
      <4> QED
        BY <4>1, RunMoves DEF Idle
    <3> QED
      BY <2>1, <3>1 DEF AloneInv
  <2>6. IdsInv'
    <3>1. runs'[r].phase \in {"creating", "created", "keying", "registering"} =>
              runs'[r].id = cachedId
      BY <1>3, RunMoves DEF Control, IdsInv, Idle
    <3> QED
      BY <1>1, <2>1, <2>3, <3>1 DEF Control, IdsInv, idVars
  <2> QED
    BY <2>4, <2>5, <2>6
<1>4. runs[r].phase = "lookup" =>
          LookUp(r) /\ runs'[r].phase = "id" /\ inFlight' = inFlight /\ ready' = ready
  BY RunMoves
<1> QED
  BY <1>2, <1>3, <1>4

LEMMA IdentifyControl ==
    ASSUME TypeOK, Control, Identify
    PROVE  QuietInv' /\ IdsInv' /\ AloneInv'
<1>1. UNCHANGED <<writes, ready, runs, inFlight, resets, attached, attachedId, pairing>>
  BY DEF Identify, keyVars, bootVars, repoVars
<1>2. /\ cachedId = NoId
      /\ \/ /\ storedId # NoId /\ cachedId' = storedId /\ minting = NoId /\ minting' = NoId
            /\ storedId' = storedId
         \/ storedId = NoId /\ cachedId' = NoId /\ storedId' = NoId
         \/ minting # NoId /\ cachedId' = minting /\ minting' = NoId
  BY DEF Identify, ResolveId, Minted, Control, IdsInv
<1>3. /\ \A r \in Runs : runs[r] = Idle \/ runs[r].phase \in {"lookup", "id"}
      /\ pairing.phase \in {"none", "preview", "id"} /\ pairing.id = NoId
  BY <1>2 DEF Control, QuietInv
<1>4. QuietInv'
  BY <1>1, <1>2 DEF Control, QuietInv
<1>5. IdsInv'
  BY <1>1, <1>2, <1>3 DEF Control, IdsInv, Idle
<1>6. AloneInv'
  BY <1>1, <1>2, <1>3 DEF Control, AloneInv
<1> QED
  BY <1>4, <1>5, <1>6

LEMMA PairingControl ==
    ASSUME TypeOK, Control, PairingStep \/ Scan
    PROVE  QuietInv' /\ IdsInv' /\ AloneInv'
<1>1. UNCHANGED <<ready, runs, inFlight, resets, attached, attachedId, idVars>>
  BY DEF PairingStep, Scan, StartPairing, bootVars, repoVars, PairingSignIn, Confirm,
         CallJoinNetwork, JoinNetwork, ExchangeKey, DeleteOldUser, SignInWithCustomToken,
         PairingFails
<1>2. PairingTypes
  BY DEF TypeOK
<1>3. CASE pairing' = NoPairing
  <2>1. cachedId = NoId => UNCHANGED writes
    BY DEF PairingStep, Scan, StartPairing, PairingSignIn, Confirm,
         CallJoinNetwork, JoinNetwork, ExchangeKey, DeleteOldUser, SignInWithCustomToken,
         PairingFails, keyVars, Control, QuietInv
  <2> QED
    BY <1>1, <1>3, <2>1 DEF Control, QuietInv, IdsInv, AloneInv, NoPairing, idVars
<1>4. CASE Scan \/ Confirm \/ PairingSignIn
  <2>1. /\ pairing'.id \in {pairing.id, NoId} /\ pairing'.phase \in {"preview", "id"}
        /\ UNCHANGED writes
    BY <1>2, <1>4 DEF Scan, StartPairing, Confirm, PairingSignIn, PairingTypes, keyVars, NoPairing
  <2> QED
    BY <1>1, <2>1 DEF Control, QuietInv, IdsInv, AloneInv, idVars
<1>5. CASE CallJoinNetwork
  <2>1. pairing'.id = cachedId /\ cachedId # NoId /\ pairing'.phase = "joining"
    BY <1>2, <1>5 DEF CallJoinNetwork, PairingTypes
  <2> QED
    BY <1>1, <2>1 DEF Control, QuietInv, IdsInv, AloneInv, idVars
<1>6. CASE JoinNetwork \/ ExchangeKey \/ DeleteOldUser
  <2>1. /\ pairing'.id = pairing.id /\ pairing'.phase \in {"joined", "installing", "reauth"}
        /\ pairing.phase \notin {"none", "preview", "id"}
    BY <1>2, <1>6 DEF JoinNetwork, ExchangeKey, DeleteOldUser, PairingTypes
  <2>2. cachedId # NoId
    BY <2>1 DEF Control, QuietInv
  <2> QED
    BY <1>1, <2>1, <2>2 DEF Control, QuietInv, IdsInv, AloneInv, idVars
<1> QED
  BY <1>3, <1>4, <1>5, <1>6 DEF PairingStep, SignInWithCustomToken, PairingFails

LEMMA StorageControl ==
    ASSUME TypeOK, WritesInv, Control, StorageAnswers
    PROVE  QuietInv' /\ IdsInv' /\ AloneInv'
<1> DEFINE w == Head(writes)
<1>1. IsWrite(w) /\ Waits(w) /\ writes # <<>>
  BY StorageWrites DEF StorageAnswers
<1>2. cachedId # NoId
  BY <1>1 DEF Control, QuietInv
<1>3. UNCHANGED <<inFlight, ready, attached, attachedId, cachedId, minting>>
  BY DEF StorageAnswers, repoVars, idVars
<1>4. \/ /\ w.op = "own" /\ runs' = [runs EXCEPT ![w.by] = Calling(w.by, "registering")]
         /\ UNCHANGED <<storedId, pairing>>
      \/ /\ w.op = "group" /\ pairing' = [pairing EXCEPT !.phase = "deleting"]
         /\ UNCHANGED <<storedId, runs>>
      \/ w.op = "delete" /\ storedId' = NoId /\ UNCHANGED <<runs, pairing>>
  BY DEF StorageAnswers, idVars
<1> HIDE DEF w
<1>5. QuietInv'
  BY <1>2, <1>3 DEF QuietInv
<1>6. CASE w.op = "own" /\ UNCHANGED <<storedId, pairing>>
           /\ runs' = [runs EXCEPT ![w.by] = Calling(w.by, "registering")]
  <2>1. w.by \in Runs /\ runs[w.by].phase = "keying"
    BY <1>1, <1>6 DEF IsWrite, Waits
  <2>2. /\ Calling(w.by, "registering").id = runs[w.by].id
        /\ Calling(w.by, "registering").phase = "registering"
    <3>1. "registering" \in Phases \ {"lookup"} /\ BootTypes /\ FireTypes /\ NoId \in Id
      BY Ids0 DEF Phases, TypeOK
    <3>2. \A r \in Runs : /\ Calling(r, "registering").id = runs[r].id
                          /\ Calling(r, "registering").phase = "registering"
      <4> SUFFICES ASSUME NEW r \in Runs
                   PROVE  /\ Calling(r, "registering").id = runs[r].id
                          /\ Calling(r, "registering").phase = "registering"
        OBVIOUS
      <4> QED
        BY <3>1, RunIs
    <3> QED
      BY <2>1, <3>2
  <2>3. /\ runs'[w.by] = Calling(w.by, "registering")
        /\ \A s \in Runs \ {w.by} : runs'[s] = runs[s]
    BY <1>6, <2>1 DEF TypeOK, BootTypes
  <2>4. IdsInv'
    BY <1>3, <1>6, <2>1, <2>2, <2>3 DEF Control, IdsInv
  <2>5. AloneInv'
    BY <2>1, <2>2, <2>3 DEF Control, AloneInv, Idle
  <2> QED
    BY <1>5, <2>4, <2>5
<1>7. CASE w.op = "group" /\ pairing' = [pairing EXCEPT !.phase = "deleting"]
           /\ UNCHANGED <<storedId, runs>>
  <2>1. pairing'.phase = "deleting" /\ pairing'.id = pairing.id
    BY <1>7, PairingChanged DEF TypeOK, PairingPhases
  <2>2. IdsInv' /\ AloneInv'
    BY <1>2, <1>3, <1>7, <2>1 DEF Control, IdsInv, AloneInv
  <2> QED
    BY <1>5, <2>2
<1>8. CASE w.op = "delete" /\ storedId' = NoId /\ UNCHANGED <<runs, pairing>>
  <2>1. IdsInv' /\ AloneInv'
    BY <1>2, <1>3, <1>8 DEF Control, IdsInv, AloneInv
  <2> QED
    BY <1>5, <2>1
<1> QED
  BY <1>4, <1>6, <1>7, <1>8

\* The others leave the ids and the bootstraps alone, and need an id for what they do.
LEMMA OtherControl ==
    ASSUME TypeOK, Control,
           \/ UNCHANGED vars \/ SignInAnswered \/ SignInForNewGroup \/ DiscardStale
           \/ Attach \/ AccountSnapshot \/ DevicesSnapshot \/ ResetCall
           \/ \E k \in Resets : Clear(k) \/ ResetUser(k)
           \/ \E what \in {"leave", "destroy"} : Choose(what)
           \/ Peer
    PROVE  /\ UNCHANGED <<idVars, runs, inFlight, ready, pairing, lookupFailed, crashes>>
           /\ QuietInv' /\ IdsInv' /\ AloneInv'
<1>1. UNCHANGED <<idVars, runs, inFlight, ready, pairing, lookupFailed, crashes>>
  <2>1. CASE UNCHANGED vars \/ SignInAnswered \/ SignInForNewGroup \/ DiscardStale \/ Peer
    BY <2>1
    DEF vars, SignInAnswered, SignInForNewGroup, DiscardStale, Peer, bootVars, procVars
  <2>2. CASE Attach \/ AccountSnapshot \/ DevicesSnapshot \/ ResetCall
    BY <2>2
    DEF Attach, AccountSnapshot, DevicesSnapshot, ResetCall, bootVars, procVars
  <2>3. CASE \/ \E k \in Resets : Clear(k) \/ ResetUser(k)
             \/ \E what \in {"leave", "destroy"} : Choose(what)
    BY <2>3 DEF Clear, ResetUser, Choose, bootVars, procVars
  <2> QED
    BY <2>1, <2>2, <2>3
<1>2. cachedId # NoId \/ UNCHANGED <<writes, resets, attached, attachedId>>
  <2>1. CASE UNCHANGED vars \/ SignInAnswered \/ SignInForNewGroup \/ DiscardStale \/ Peer
    BY <2>1
    DEF vars, SignInAnswered, SignInForNewGroup, DiscardStale, Peer, keyVars, repoVars
  <2>2. CASE Attach \/ AccountSnapshot \/ DevicesSnapshot
    BY <2>2
    DEF Attach, AccountSnapshot, DevicesSnapshot, Readable, Control, QuietInv, keyVars
  <2>3. CASE ResetCall \/ \E k \in Resets : Clear(k) \/ ResetUser(k)
    <3>1. \E k \in Resets : resets[k].phase # "none"
      BY <2>3 DEF ResetCall, Leave, Destroy, Clear, ResetUser, Resets
    <3> QED
      BY <3>1 DEF Control, QuietInv, NoReset
  <2>4. CASE \E what \in {"leave", "destroy"} : Choose(what)
    BY <2>4 DEF Choose, Control, QuietInv
  <2> QED
    BY <2>1, <2>2, <2>3, <2>4
<1>3. QuietInv'
  BY <1>1, <1>2 DEF Control, QuietInv, idVars
<1>4. IdsInv' /\ AloneInv'
  BY <1>1 DEF Control, IdsInv, AloneInv, idVars
<1> QED
  BY <1>1, <1>3, <1>4

LEMMA ControlKept ==
    ASSUME TypeOK, WritesInv, Control, [Next]_vars
    PROVE  Control'
<1>0. DOMAIN resets = Resets
  BY DEF TypeOK, ResetTypes
<1>1. StoppedInv'
  BY StoppedKept DEF Control
<1>2. CASE Crash
  <2>1. \A r \in Runs : Idle.phase = "none" /\ runs'[r] = Idle
    BY <1>2 DEF Crash, Idle
  <2>2. QuietInv'
    BY <1>0, <1>2, <2>1 DEF Crash, QuietInv, NoPairing
  <2>3. IdsInv' /\ AloneInv'
    BY <1>2, <2>1 DEF Crash, IdsInv, AloneInv, NoPairing
  <2> QED
    BY <1>1, <2>2, <2>3 DEF Control
<1>3. CASE ~Crash
  <2>1. UNCHANGED vars \/ Resume \/ System \/ Outside
    BY DEF Next
  <2>2. QuietInv' /\ IdsInv' /\ AloneInv'
    BY <1>0, <1>3, <2>1, BootControl, RunControl, IdentifyControl, PairingControl,
       StorageControl, OtherControl
    DEF System, Outside
  <2> QED
    BY <1>1, <2>2 DEF Control
<1> QED
  BY <1>2, <1>3

-----------------------------------------------------------------------------
(* The rows.                                                               *)

\* The user changes: it is not one there was.
UserMoves ==
    /\ signedIn \subseteq signedIn'
    /\ user' = user \/ user' \notin signedIn \cap Anons

LEMMA SignInMoves ==
    /\ \A u \in Uids : SignedInAs(u) /\ u \notin signedIn \cap Anons => UserMoves
    /\ SignedOut => UserMoves
    /\ SignInAnonymously => UserMoves
    /\ UNCHANGED fireVars => UserMoves
<1>1. ASSUME NEW u \in Uids, SignedInAs(u), u \notin signedIn \cap Anons PROVE UserMoves
  BY <1>1 DEF SignedInAs, UserMoves
<1>2. SignedOut => UserMoves
  BY UsersAssumption DEF SignedOut, UserMoves, Uids
<1>3. SignInAnonymously => UserMoves
  <2> SUFFICES ASSUME SignInAnonymously PROVE UserMoves
    OBVIOUS
  <2>1. Fresh(Anons \ signedIn) \in Anons \ signedIn
    BY FreshIn DEF SignInAnonymously
  <2> QED
    BY <1>1, <2>1 DEF SignInAnonymously, Uids
<1>4. UNCHANGED fireVars => UserMoves
  BY DEF fireVars, UserMoves
<1> QED
  BY <1>1, <1>2, <1>3, <1>4

Rows == HomeInv /\ LookUpInv /\ SteadyInv
NoLookUp == \A r \in Runs : runs[r].phase # "lookup"

\* Rows go, and nothing else that matters changes.
LEMMA RowsGo ==
    ASSUME TypeOK, TypeOK', Rows, UserMoves,
           UNCHANGED <<running, runs, cachedId, minting>>, storedId' = storedId,
           \A u \in Uids : rows'[u] \subseteq rows[u],
           UNCHANGED <<pairing>>, running \/ user' = user
    PROVE  Rows'
<1>0. /\ rows \in [Uids -> SUBSET Ids] /\ rows' \in [Uids -> SUBSET Ids]
      /\ NoId \notin Ids
  BY Ids0 DEF TypeOK, CloudTypes
<1>1. HomeInv'
  BY <1>0 DEF Rows, HomeInv, UserMoves
<1>2. SteadyInv'
  BY <1>0 DEF Rows, SteadyInv
<1>3. LookUpInv'
  BY <1>0 DEF Rows, LookUpInv, UserMoves
<1> QED
  BY <1>1, <1>2, <1>3 DEF Rows

LEMMA Alone ==
    ASSUME Control, NEW r \in Runs, runs[r].phase \notin {"none", "lookup"}
    PROVE  NoLookUp
<1> SUFFICES ASSUME NEW s \in Runs, runs[s].phase = "lookup" PROVE FALSE
  BY DEF NoLookUp
<1> QED
  BY DEF Control, AloneInv, Idle

LEMMA RowsOfTypes ==
    ASSUME TypeOK
    PROVE  /\ rows \in [Uids -> SUBSET Ids] /\ NoId \notin Ids /\ Nobody \notin Uids
           /\ user \in Uid /\ storedId \in Id /\ cachedId \in Id
           /\ Target \in Uids /\ Target \notin Anons
           /\ \A r \in Runs : runs[r].phase = "lookup" => runs[r].uid \in Uids
BY Ids0, UsersAssumption DEF TypeOK, CloudTypes, FireTypes, IdTypes, Uids, BootTypes

LEMMA BootRows ==
    ASSUME TypeOK, Control, Rows, running, Resume \/ Deliver
    PROVE  Rows'
<1>1. /\ BeginsOrNot
      /\ UNCHANGED <<rows, user, signedIn, cachedId, storedId, minting, pairing, running>>
  BY BootBegins DEF Control, cloudVars, idVars, Resume, Deliver, procVars
<1>2. HomeInv'
  BY <1>1 DEF HomeInv
<1>3. CASE UNCHANGED <<runs, inFlight>>
  BY <1>1, <1>2, <1>3 DEF Rows, LookUpInv, SteadyInv
<1>4. CASE ~UNCHANGED <<runs, inFlight>>
  <2>1. PICK r \in Runs :
           /\ runs[r] = Idle
           /\ runs'[r].phase \in {"lookup", "id"}
           /\ runs'[r].phase = "lookup" => cachedId = NoId /\ storedId = NoId
           /\ \A s \in Runs \ {r} : runs'[s] = runs[s]
           /\ inFlight = 0 \/ ready # <<>>
    BY <1>1, <1>4 DEF BeginsOrNot
  <2>2. NoLookUp
    BY <2>1, RunsFrom1 DEF Control, AloneInv, NoLookUp
  <2>3. CASE runs'[r].phase = "id"
    <3>1. NoLookUp'
      BY <2>1, <2>2, <2>3 DEF NoLookUp
    <3> QED
      BY <1>1, <1>2, <2>2, <3>1 DEF Rows, LookUpInv, SteadyInv, NoLookUp
  <2>4. CASE runs'[r].phase = "lookup"
    <3>1. \A u \in Uids : rows[u] = {}
      BY <2>1, <2>2, <2>4, RowsOfTypes DEF Rows, SteadyInv, NoLookUp
    <3>2. LookUpInv'
      BY <1>1, <3>1 DEF LookUpInv
    <3>3. SteadyInv'
      BY <2>4 DEF SteadyInv
    <3> QED
      BY <1>2, <3>2, <3>3 DEF Rows
  <2> QED
    BY <2>1, <2>3, <2>4
<1> QED
  BY <1>3, <1>4

LEMMA LaunchRows ==
    ASSUME TypeOK, Control, Rows, Launch
    PROVE  Rows'
<1>1. /\ ~running /\ running'
      /\ UNCHANGED <<rows, user, signedIn, cachedId, storedId, minting, pairing>>
      /\ lookupFailed' = lookupFailed
  BY DEF Launch, cloudVars, fireVars, idVars
<1>2. /\ cachedId = NoId /\ minting = NoId /\ inFlight = 0
      /\ runs = [r \in Runs |-> Idle] /\ pairing = NoPairing
  BY <1>1 DEF Control, StoppedInv
<1>3. /\ pairing.phase = "none" /\ pairing.id = NoId /\ pairing.welcome = FALSE
      /\ \A r \in Runs : runs[r].phase = "none"
  BY <1>2 DEF NoPairing, Idle
<1>4. HomeInv'
  BY <1>1 DEF HomeInv
<1>5. \A u \in Uids : rows[u] # {} =>
         /\ u = user /\ u \in Anons /\ u \in signedIn
         /\ \E i \in Ids : rows[u] = {i} /\ storedId \in {NoId, i}
  BY <1>1 DEF Rows, HomeInv
<1>6. CASE user = Nobody /\ runs' = runs
  <2>1. \A u \in Uids : rows[u] = {}
    BY <1>5, <1>6, RowsOfTypes
  <2>2. LookUpInv'
    BY <1>3, <1>6 DEF LookUpInv
  <2>3. SteadyInv'
    BY <1>1, <1>3, <2>1 DEF SteadyInv
  <2> QED
    BY <1>4, <2>2, <2>3 DEF Rows
<1>7. CASE user # Nobody /\ Begin(user)
  <2>1. user \in Uids
    BY <1>7 DEF TypeOK, FireTypes, Uid
  <2>2. BeginsOrNot /\ \E r \in Runs : runs'[r].uid = user /\ inFlight' = r
    BY <1>1, <1>2, <1>7, <2>1, BeginBegins
  <2>3. PICK r \in Runs :
           /\ runs'[r].uid = user /\ runs'[r].phase \in {"lookup", "id"}
           /\ \A s \in Runs \ {r} : runs'[s] = runs[s]
           /\ runs'[r].phase = "lookup" => storedId = NoId
    BY <1>2, <2>2, RunsFrom1 DEF BeginsOrNot
  <2>4. runs'[r].phase = "id" => storedId # NoId
    <3>1. PICK s \in Runs :
             /\ runs'[s] = [Idle EXCEPT !.phase = IF cachedId = NoId /\ storedId = NoId
                                                  THEN "lookup" ELSE "id",
                                        !.uid = user]
      BY <1>1, <1>7, <2>1, Begun DEF TypeOK
    <3>2. runs'[s].phase = IF cachedId = NoId /\ storedId = NoId THEN "lookup" ELSE "id"
      BY <3>1 DEF Idle
    <3>3. s = r
      BY <1>3, <2>3, <3>2
    <3> QED
      BY <1>2, <3>2, <3>3
  <2>5. CASE runs'[r].phase = "id"
    <3>1. \A u \in Uids : rows[u] \subseteq {storedId} \ {NoId}
      BY <1>5, <2>4, <2>5, RowsOfTypes
    <3>2. \A s \in Runs : runs'[s].phase # "lookup"
      BY <1>3, <2>3, <2>5
    <3>3. SteadyInv'
      BY <1>1, <1>2, <1>3, <3>1 DEF SteadyInv
    <3>4. LookUpInv'
      BY <3>2 DEF LookUpInv
    <3> QED
      BY <1>4, <3>3, <3>4 DEF Rows
  <2>6. CASE runs'[r].phase = "lookup"
    <3>1. SteadyInv'
      BY <2>6 DEF SteadyInv
    <3>2. \A s \in Runs : runs'[s].phase = "lookup" => s = r
      BY <1>3, <2>3
    <3>3. CASE \A u \in Uids : rows[u] = {}
      BY <1>1, <1>4, <3>1, <3>3 DEF LookUpInv, Rows
    <3>4. CASE \E u \in Uids : rows[u] # {}
      <4>1. /\ user \in Anons /\ user \in signedIn
            /\ \A v \in Uids \ {user} : rows[v] = {}
        BY <1>5, <3>4
      <4>2. PICK i \in Ids : rows[user] = {i}
        BY <1>5, <3>4
      <4>3. i \notin {cachedId', minting', pairing'.id} /\ ~pairing'.welcome
        BY <1>1, <1>2, <1>3, RowsOfTypes
      <4>4. LookUpInv'
        BY <1>1, <2>3, <3>2, <4>1, <4>2, <4>3 DEF LookUpInv
      <4> QED
        BY <1>4, <3>1, <4>4 DEF Rows
    <3> QED
      BY <3>3, <3>4
  <2> QED
    BY <2>3, <2>5, <2>6
<1> QED
  BY <1>6, <1>7 DEF Launch

LEMMA RunRows ==
    ASSUME TypeOK, Control, Rows, running, ~lookupFailed', NEW r \in Runs, RunStep(r)
    PROVE  Rows'
<1>1. UNCHANGED <<user, signedIn, pairing, running>>
  BY DEF RunStep, fireVars, procVars
<1>2. HomeInv'
  BY <1>1 DEF HomeInv
<1>3. CASE LookUp(r) /\ runs[r].phase = "lookup" /\ runs'[r].phase = "id"
  <2>1. \A s \in Runs \ {r} : runs'[s] = runs[s] /\ runs[s] = Idle
    BY <1>3, RunMoves DEF Control, AloneInv
  <2>2. NoLookUp'
    BY <1>3, <2>1 DEF NoLookUp, Idle
  <2>3. /\ UNCHANGED rows
        /\ user = runs[r].uid
        /\ \/ /\ \E i \in rows[user] : cachedId' = i
           \/ rows[user] = {} /\ cachedId' = cachedId /\ storedId' = storedId
    BY <1>3 DEF LookUp, cloudVars
  <2>4. pairing.phase = "joining" => pairing.id = cachedId
    BY <1>3 DEF Control, AloneInv, IdsInv
  <2> DEFINE u == runs[r].uid
             Own == {cachedId} \ {NoId}
  <2>5. \/ \A v \in Uids : rows[v] \subseteq Own
        \/ /\ \E i \in Ids : rows[u] = {i}
           /\ user = u => /\ \A v \in Uids \ {u} : rows[v] = {}
                          /\ ~pairing.welcome
    BY <1>3 DEF Rows, LookUpInv
  <2>6. u \in Uids /\ user = u
    BY <1>3, <2>3, RowsOfTypes
  <2> HIDE DEF u
  <2>7. SteadyInv'
    <3>1. CASE \A v \in Uids : rows[v] \subseteq Own
      <4>1. cachedId' = cachedId /\ (cachedId # NoId \/ \A v \in Uids : rows[v] = {})
        BY <2>3, <2>6, <3>1
      <4> QED
        BY <1>1, <2>3, <2>4, <3>1, <4>1 DEF SteadyInv
    <3>2. CASE /\ \E i \in Ids : rows[u] = {i}
               /\ \A v \in Uids \ {u} : rows[v] = {}
               /\ ~pairing.welcome
      <4>1. rows[u] = {cachedId'} /\ cachedId' # NoId
        BY <2>3, <2>6, <3>2, RowsOfTypes
      <4> QED
        BY <1>1, <2>3, <3>2, <4>1 DEF SteadyInv
    <3> QED
      BY <2>5, <2>6, <3>1, <3>2
  <2>8. LookUpInv'
    BY <2>2 DEF LookUpInv, NoLookUp
  <2> QED
    BY <1>2, <2>7, <2>8 DEF Rows
<1>4. CASE runs[r].phase \notin {"none", "lookup"}
  <2>1. NoLookUp
    BY <1>4, Alone
  <2>2. NoLookUp'
    BY <1>4, <2>1, RunMoves DEF NoLookUp, Idle
  <2>3. UNCHANGED <<cachedId, storedId>>
    BY <1>4
    DEF RunStep, LookUp, CallCreateAccount, CreateAccount, AccountCreated, RegisterDevice,
        RunFails, idVars
  <2>4. \A u \in Uids : \/ rows'[u] = rows[u]
                        \/ cachedId # NoId /\ rows'[u] = rows[u] \cup {cachedId}
    <3>1. CASE RegisterDevice(r)
      <4>1. runs[r].id = cachedId /\ cachedId # NoId
        BY <3>1 DEF RegisterDevice, Control, IdsInv, QuietInv, Idle
      <4> QED
        BY <3>1, <4>1, RowsOfTypes DEF RegisterDevice
    <3>2. CASE ~RegisterDevice(r)
      BY <1>4, <3>2
      DEF RunStep, LookUp, CallCreateAccount, CreateAccount, AccountCreated, RunFails, cloudVars
    <3> QED
      BY <3>1, <3>2
  <2>5. LookUpInv'
    BY <2>2 DEF LookUpInv, NoLookUp
  <2>6. SteadyInv'
    BY <1>1, <2>1, <2>3, <2>4 DEF Rows, SteadyInv, NoLookUp
  <2> QED
    BY <1>2, <2>5, <2>6 DEF Rows
<1> QED
  BY <1>3, <1>4, RunMoves

LEMMA IdentifyRows ==
    ASSUME TypeOK, Control, Rows, running, Identify
    PROVE  Rows'
<1>1. UNCHANGED <<rows, user, signedIn, runs, pairing, running>>
  BY DEF Identify, cloudVars, fireVars, bootVars, procVars
<1>2. HomeInv'
  BY <1>1 DEF HomeInv
<1>3. /\ cachedId = NoId
      /\ \/ /\ storedId # NoId /\ cachedId' = storedId /\ minting' = NoId
            /\ storedId' = storedId
         \/ /\ storedId = NoId /\ cachedId' = NoId /\ storedId' = NoId
            /\ \A u \in Uids : minting' \notin rows[u]
         \/ /\ minting # NoId /\ cachedId' = minting /\ minting' = NoId
            /\ storedId = NoId
  <2>1. FreshIds # {} => Fresh(FreshIds) \in FreshIds
    BY FreshIn
  <2> QED
    BY <2>1 DEF Identify, ResolveId, Minted, Control, IdsInv, FreshIds
<1>4. pairing.phase # "joining" /\ pairing.id = NoId
  BY <1>3 DEF Control, QuietInv
<1>5. SteadyInv'
  BY <1>1, <1>3, <1>4 DEF Rows, SteadyInv
<1>6. LookUpInv'
  <2> SUFFICES ASSUME NEW r \in Runs, runs[r].phase = "lookup"
               PROVE  LET u == runs[r].uid
                          Own == {cachedId'} \ {NoId}
                      IN \/ \A v \in Uids : rows[v] \subseteq Own
                         \/ /\ u \in Anons /\ u \in signedIn
                            /\ \E i \in Ids : /\ rows[u] = {i}
                                              /\ i \notin {cachedId', minting', pairing.id}
                            /\ \A v \in Uids \ {u} : rows[v] \subseteq Own
                            /\ user = u => /\ \A v \in Uids \ {u} : rows[v] = {}
                                           /\ ~pairing.welcome
    BY <1>1 DEF LookUpInv
  <2> DEFINE u == runs[r].uid
  <2>1. storedId = NoId /\ u \in Uids
    BY <1>3, RowsOfTypes DEF Control, AloneInv
  <2>2. \/ \A v \in Uids : rows[v] = {}
        \/ /\ u \in Anons /\ u \in signedIn
           /\ \E i \in Ids : rows[u] = {i} /\ i \notin {cachedId, minting, pairing.id}
           /\ \A v \in Uids \ {u} : rows[v] = {}
           /\ user = u => ~pairing.welcome
    BY <1>3 DEF Rows, LookUpInv
  <2> HIDE DEF u
  <2>3. CASE \A v \in Uids : rows[v] = {}
    BY <2>3
  <2>4. CASE \E i \in Ids : rows[u] = {i} /\ i \notin {cachedId, minting, pairing.id}
    <3>1. PICK i \in Ids : rows[u] = {i} /\ i \notin {cachedId, minting, pairing.id}
      BY <2>4
    <3>2. i \notin {cachedId', minting', pairing.id}
      BY <1>3, <2>1, <3>1, RowsOfTypes
    <3> QED
      BY <2>2, <3>1, <3>2 DEF u
  <2> QED
    BY <2>2, <2>3, <2>4
<1> QED
  BY <1>2, <1>5, <1>6 DEF Rows

LEMMA OtherRows ==
    ASSUME TypeOK, TypeOK', Control, Rows,
           \/ UNCHANGED vars \/ SignInAnswered \/ SignInForNewGroup \/ DiscardStale
           \/ Attach \/ AccountSnapshot \/ DevicesSnapshot \/ ResetCall
           \/ \E k \in Resets : Clear(k) \/ ResetUser(k)
           \/ \E what \in {"leave", "destroy"} : Choose(what)
           \/ Peer,
           running \/ UNCHANGED vars \/ Peer
    PROVE  Rows'
<1>1. UNCHANGED <<idVars, runs, pairing>>
  BY OtherControl
<1>2. running' = running
  <2>1. CASE UNCHANGED vars \/ SignInAnswered \/ SignInForNewGroup \/ DiscardStale \/ Peer
    BY <2>1 DEF vars, SignInAnswered, SignInForNewGroup, DiscardStale, Peer, procVars
  <2>2. CASE Attach \/ AccountSnapshot \/ DevicesSnapshot \/ ResetCall
    BY <2>2 DEF Attach, AccountSnapshot, DevicesSnapshot, ResetCall, procVars
  <2>3. CASE \/ \E k \in Resets : Clear(k) \/ ResetUser(k)
             \/ \E what \in {"leave", "destroy"} : Choose(what)
    BY <2>3 DEF Clear, ResetUser, Choose, procVars
  <2> QED
    BY <2>1, <2>2, <2>3
<1>3. UserMoves
  <2>1. \/ UNCHANGED fireVars \/ SignedOut \/ SignInAnonymously
    <3>1. CASE UNCHANGED vars \/ SignInAnswered \/ SignInForNewGroup \/ DiscardStale \/ Peer
      BY <3>1 DEF vars, SignInAnswered, SignInForNewGroup, DiscardStale, Peer, fireVars,
                  DeleteAndReset
    <3>2. CASE Attach \/ AccountSnapshot \/ DevicesSnapshot \/ ResetCall
      BY <3>2 DEF Attach, AccountSnapshot, DevicesSnapshot, ResetCall
    <3>3. CASE \/ \E k \in Resets : Clear(k) \/ ResetUser(k)
               \/ \E what \in {"leave", "destroy"} : Choose(what)
      BY <3>3 DEF Clear, ResetUser, Choose, DeleteAndReset
    <3> QED
      BY <3>1, <3>2, <3>3
  <2> QED
    BY <2>1, SignInMoves
<1>4. UNCHANGED vars \/ Peer => user' = user
  BY DEF vars, Peer, fireVars
<1>5. \A u \in Uids : rows'[u] \subseteq rows[u]
  <2>1. CASE ResetCall
    BY <2>1, RowsOfTypes DEF ResetCall, Leave, Destroy
  <2>2. CASE Peer
    BY <2>2, RowsOfTypes DEF Peer, PeerDestroys, PeerLeaves, PeerRemoves
  <2>3. CASE \/ UNCHANGED vars \/ SignInAnswered \/ SignInForNewGroup \/ DiscardStale
             \/ Attach \/ AccountSnapshot \/ DevicesSnapshot
    BY <2>3
    DEF vars, SignInAnswered, SignInForNewGroup, DiscardStale, Attach, AccountSnapshot,
        DevicesSnapshot, cloudVars
  <2>4. CASE \/ \E k \in Resets : Clear(k) \/ ResetUser(k)
             \/ \E what \in {"leave", "destroy"} : Choose(what)
    BY <2>4 DEF Clear, ResetUser, Choose, cloudVars
  <2> QED
    BY <2>1, <2>2, <2>3, <2>4
<1> QED
  BY <1>1, <1>2, <1>3, <1>4, <1>5, RowsGo DEF idVars

LEMMA StorageRows ==
    ASSUME TypeOK, WritesInv, Control, Rows, running, StorageAnswers
    PROVE  Rows'
<1> DEFINE w == Head(writes)
<1>1. IsWrite(w) /\ Waits(w) /\ writes # <<>>
  BY StorageWrites DEF StorageAnswers
<1>2. cachedId # NoId
  BY <1>1 DEF Control, QuietInv
<1>3. UNCHANGED <<rows, user, signedIn, running, cachedId, minting>>
  BY DEF StorageAnswers, cloudVars, fireVars, procVars, idVars
<1>4. \/ w.op = "own" /\ runs' = [runs EXCEPT ![w.by] = Calling(w.by, "registering")]
         /\ UNCHANGED pairing
      \/ w.op = "group" /\ pairing' = [pairing EXCEPT !.phase = "deleting"]
         /\ UNCHANGED runs
      \/ UNCHANGED <<runs, pairing>>
  BY DEF StorageAnswers
<1> HIDE DEF w
<1>5. HomeInv'
  BY <1>3 DEF HomeInv
<1>6. CASE w.op = "own" /\ UNCHANGED pairing
           /\ runs' = [runs EXCEPT ![w.by] = Calling(w.by, "registering")]
  <2>1. w.by \in Runs /\ runs[w.by].phase = "keying"
    BY <1>1, <1>6 DEF IsWrite, Waits
  <2>2. NoLookUp
    BY <2>1, Alone
  <2>3. \A r \in Runs : Calling(r, "registering").phase = "registering"
    <3> SUFFICES ASSUME NEW r \in Runs PROVE Calling(r, "registering").phase = "registering"
      OBVIOUS
    <3>1. "registering" \in Phases \ {"lookup"} /\ BootTypes /\ FireTypes /\ NoId \in Id
      BY Ids0 DEF Phases, TypeOK
    <3> QED
      BY <3>1, RunIs
  <2>4. /\ runs'[w.by].phase = "registering"
        /\ \A s \in Runs \ {w.by} : runs'[s] = runs[s]
    BY <1>6, <2>1, <2>3 DEF TypeOK, BootTypes
  <2>5. NoLookUp'
    BY <2>2, <2>4 DEF NoLookUp
  <2>6. LookUpInv'
    BY <2>5 DEF LookUpInv, NoLookUp
  <2>7. SteadyInv'
    BY <1>2, <1>3, <1>6, <2>2 DEF Rows, SteadyInv, NoLookUp
  <2> QED
    BY <1>5, <2>6, <2>7 DEF Rows
<1>7. CASE /\ UNCHANGED runs
           /\ pairing' = pairing \/ pairing' = [pairing EXCEPT !.phase = "deleting"]
  <2>1. /\ pairing'.id = pairing.id /\ pairing'.welcome = pairing.welcome
        /\ pairing'.phase = "joining" => pairing.phase = "joining"
    BY <1>7, PairingChanged DEF TypeOK, PairingPhases
  <2>2. LookUpInv'
    BY <1>3, <1>7, <2>1 DEF Rows, LookUpInv
  <2>3. SteadyInv'
    BY <1>2, <1>3, <1>7, <2>1 DEF Rows, SteadyInv
  <2> QED
    BY <1>5, <2>2, <2>3 DEF Rows
<1> QED
  BY <1>4, <1>6, <1>7

\* Pairing goes on, short of joining.
LEMMA PairingMoves ==
    ASSUME TypeOK, Control, Rows, UserMoves, running, running',
           UNCHANGED <<rows, runs, cachedId, storedId, minting>>,
           pairing'.id \in {pairing.id, NoId, cachedId},
           pairing'.welcome => pairing.welcome \/ user' = Nobody,
           pairing'.phase = "joining" => pairing'.id = cachedId
    PROVE  Rows'
<1>1. HomeInv'
  BY DEF HomeInv
<1>2. SteadyInv'
  BY DEF Rows, SteadyInv
<1>3. LookUpInv'
  BY RowsOfTypes DEF Rows, LookUpInv, UserMoves
<1> QED
  BY <1>1, <1>2, <1>3 DEF Rows

LEMMA JoinRows ==
    ASSUME TypeOK, Control, Rows, running, running', JoinNetwork,
           UNCHANGED <<runs, user, signedIn, cachedId, storedId, minting>>
    PROVE  Rows'
<1> DEFINE u == pairing.as
           i == pairing.id
<1>1. /\ pairing.phase = "joining" /\ u \notin {Nobody, Target}
      /\ i \in rows[u] \/ pairing.welcome
      /\ rows' = [rows EXCEPT ![u] = @ \ {i}, ![Target] = @ \cup {i}]
      /\ pairing' = [pairing EXCEPT !.phase = "joined"]
  BY DEF JoinNetwork
<1>2. /\ pairing'.phase = "joined" /\ pairing'.id = i
      /\ pairing'.welcome = pairing.welcome
  BY <1>1, PairingChanged DEF TypeOK, PairingPhases
<1>3. i # NoId /\ cachedId # NoId /\ u \in Uids
  BY <1>1 DEF Control, IdsInv, QuietInv, TypeOK, PairingTypes, Uid
<1>4. /\ rows'[Target] = rows[Target] \cup {i}
      /\ \A v \in Uids \ {Target} : rows'[v] \subseteq rows[v]
      /\ \A v \in Uids \ {Target} : i \notin rows[v] => rows'[v] = rows[v]
  BY <1>1, <1>3, RowsOfTypes
<1> HIDE DEF u, i
<1>5. HomeInv'
  BY DEF HomeInv
<1>6. CASE NoLookUp
  <2>1. \A v \in Uids : rows[v] \subseteq {cachedId}
    BY <1>3, <1>6 DEF Rows, SteadyInv, NoLookUp
  <2>2. i = cachedId
    <3>1. i # cachedId => ~pairing.welcome
      BY <1>1, <1>6 DEF Rows, SteadyInv, NoLookUp, i
    <3> QED
      BY <1>1, <1>3, <2>1, <3>1
  <2>3. \A v \in Uids : rows'[v] \subseteq {cachedId}
    BY <1>4, <2>1, <2>2
  <2>4. SteadyInv'
    BY <1>2, <1>3, <2>3 DEF SteadyInv
  <2>5. LookUpInv'
    BY <1>6 DEF LookUpInv, NoLookUp
  <2> QED
    BY <1>5, <2>4, <2>5 DEF Rows
<1>7. CASE ~NoLookUp
  <2>1. PICK r \in Runs : runs[r].phase = "lookup"
    BY <1>7 DEF NoLookUp
  <2>2. \A s \in Runs : runs[s].phase = "lookup" => s = r
    BY <2>1 DEF Control, AloneInv, Idle
  <2>3. i = cachedId
    BY <1>3, <2>1 DEF Control, AloneInv, i
  <2>4. SteadyInv'
    BY <2>1 DEF SteadyInv
  <2> DEFINE x == runs[r].uid
             Own == {cachedId} \ {NoId}
  <2>5. x \in Uids
    BY <2>1, RowsOfTypes
  <2>6. \/ \A v \in Uids : rows[v] \subseteq Own
        \/ /\ x \in Anons /\ x \in signedIn
           /\ \E j \in Ids : rows[x] = {j} /\ j \notin {cachedId, minting, pairing.id}
           /\ \A v \in Uids \ {x} : rows[v] \subseteq Own
           /\ user = x => /\ \A v \in Uids \ {x} : rows[v] = {}
                          /\ ~pairing.welcome
    BY <2>1 DEF Rows, LookUpInv
  <2> HIDE DEF x
  <2>7. CASE \A v \in Uids : rows[v] \subseteq Own
    <3>1. \A v \in Uids : rows'[v] \subseteq Own
      BY <1>3, <1>4, <2>3, <2>7
    <3>2. LookUpInv'
      BY <3>1 DEF LookUpInv
    <3> QED
      BY <1>5, <2>4, <3>2 DEF Rows
  <2>8. CASE /\ x \in Anons /\ x \in signedIn
             /\ \E j \in Ids : rows[x] = {j} /\ j \notin {cachedId, minting, pairing.id}
             /\ \A v \in Uids \ {x} : rows[v] \subseteq Own
             /\ user = x => /\ \A v \in Uids \ {x} : rows[v] = {}
                            /\ ~pairing.welcome
    <3>1. PICK j \in Ids : rows[x] = {j} /\ j \notin {cachedId, minting, pairing.id}
      BY <2>8
    <3>2. x # Target /\ rows'[x] = {j}
      BY <1>4, <2>3, <2>5, <2>8, <3>1, RowsOfTypes
    <3>3. \A v \in Uids \ {x} : rows'[v] \subseteq Own
      BY <1>3, <1>4, <2>3, <2>8
    <3>4. user # x
      BY <1>1, <1>3, <2>3, <2>8, <3>1
    <3>5. runs'[r].uid = x
      BY DEF x
    <3>6. LookUpInv'
      BY <1>2, <2>2, <2>8, <3>1, <3>2, <3>3, <3>4, <3>5 DEF LookUpInv, i
    <3> QED
      BY <1>5, <2>4, <3>6 DEF Rows
  <2> QED
    BY <2>6, <2>7, <2>8
<1> QED
  BY <1>6, <1>7

LEMMA PairingRows ==
    ASSUME TypeOK, Control, Rows, running, PairingStep \/ Scan
    PROVE  Rows'
<1>1. UNCHANGED <<running, runs, cachedId, storedId, minting>>
  BY DEF PairingStep, Scan, StartPairing, bootVars, idVars, procVars, PairingSignIn, Confirm,
         CallJoinNetwork, JoinNetwork, ExchangeKey, DeleteOldUser, SignInWithCustomToken,
         PairingFails
<1>2. CASE JoinNetwork
  BY <1>1, <1>2, JoinRows DEF JoinNetwork, fireVars
<1>3. CASE ~JoinNetwork
  <2>1. UNCHANGED rows
    BY <1>3
    DEF PairingStep, Scan, StartPairing, cloudVars, PairingSignIn, Confirm,
        CallJoinNetwork, ExchangeKey, DeleteOldUser, SignInWithCustomToken, PairingFails
  <2>2. UserMoves
    <3>1. \/ UNCHANGED fireVars \/ SignedOut \/ SignInAnonymously
          \/ SignedInAs(Target)
      BY <1>3
      DEF PairingStep, Scan, StartPairing, PairingSignIn, Confirm,
          CallJoinNetwork, ExchangeKey, DeleteOldUser, SignInWithCustomToken, PairingFails
    <3> QED
      BY <3>1, SignInMoves, RowsOfTypes
  <2>3. /\ pairing'.id \in {pairing.id, NoId, cachedId}
        /\ pairing'.welcome => pairing.welcome \/ user' = Nobody
        /\ pairing'.phase = "joining" => pairing'.id = cachedId
    <3>1. PairingTypes
      BY DEF TypeOK
    <3>2. CASE Scan
      BY <3>2 DEF Scan, StartPairing, NoPairing, fireVars
    <3>3. CASE pairing' = NoPairing
      BY <3>3 DEF NoPairing
    <3>4. CASE PairingSignIn \/ Confirm \/ ExchangeKey \/ DeleteOldUser
      BY <3>1, <3>4
      DEF PairingSignIn, Confirm, ExchangeKey, DeleteOldUser, PairingTypes
    <3>5. CASE CallJoinNetwork
      BY <3>1, <3>5 DEF CallJoinNetwork, PairingTypes
    <3> QED
      BY <1>3, <3>2, <3>3, <3>4, <3>5 DEF PairingStep, SignInWithCustomToken, PairingFails
  <2> QED
    BY <1>1, <2>1, <2>2, <2>3, PairingMoves
<1> QED
  BY <1>2, <1>3

\* A look-up that has failed is not forgotten, nor that the process has ended.
LEMMA AliveBefore ==
    ASSUME TypeOK, Control, [Next]_vars, Alive'
    PROVE  Alive /\ ~Crash
<1>1. ~Crash
  BY DEF Crash, Alive, TypeOK, ProcTypes
<1>2. crashes' = crashes
  <2>1. UNCHANGED vars \/ Resume \/ System \/ Outside
    BY DEF Next
  <2>2. CASE UNCHANGED vars \/ Resume
    BY <2>2 DEF vars, Resume, procVars
  <2>3. CASE System
    BY <2>3
    DEF System, Identify, Deliver, SignInAnswered, Attach, StorageAnswers,
        AccountSnapshot, DevicesSnapshot, ResetCall, Clear, ResetUser, PairingStep,
        RunStep, procVars
  <2>4. CASE Outside
    BY <1>1, <2>4
    DEF Outside, SignInForNewGroup, DiscardStale, Scan, Choose, Launch, Peer, procVars
  <2> QED
    BY <2>1, <2>2, <2>3, <2>4
<1>3. lookupFailed => lookupFailed'
  <2>0. DOMAIN resets = Resets
    BY DEF TypeOK, ResetTypes
  <2>1. UNCHANGED vars \/ Resume \/ System \/ Outside
    BY DEF Next
  <2>2. CASE Resume \/ Deliver \/ Launch
    BY <2>2, BootBegins DEF Control
  <2>3. ASSUME NEW r \in Runs, RunStep(r) PROVE lookupFailed => lookupFailed'
    BY <2>3
    DEF RunStep, LookUp, CallCreateAccount, CreateAccount, AccountCreated, RegisterDevice,
        RunFails
  <2>4. CASE Identify \/ PairingStep \/ Scan \/ StorageAnswers
    BY <2>4 DEF Identify, PairingStep, Scan, StorageAnswers, bootVars
  <2> QED
    BY <1>1, <2>0, <2>1, <2>2, <2>3, <2>4, OtherControl DEF System, Outside
<1> QED
  BY <1>1, <1>2, <1>3 DEF Alive

LEMMA RowsKept ==
    ASSUME TypeOK, TypeOK', WritesInv, Control, Alive => Rows, [Next]_vars, Alive'
    PROVE  Rows'
<1>0. DOMAIN resets = Resets
  BY DEF TypeOK, ResetTypes
<1>1. Rows /\ ~Crash /\ ~lookupFailed'
  BY AliveBefore DEF Alive
<1>2. CASE UNCHANGED vars \/ Peer
  BY <1>1, <1>2, OtherRows
<1>3. CASE Launch
  BY <1>1, <1>3, LaunchRows
<1>4. CASE ~UNCHANGED vars /\ ~Peer /\ ~Launch
  <2>1. running
    BY <1>4, StoppedSteps DEF Control
  <2>2. Resume \/ System \/ Outside
    BY <1>4 DEF Next
  <2> QED
    BY <1>0, <1>1, <1>4, <2>1, <2>2, BootRows, RunRows, IdentifyRows, OtherRows, StorageRows,
       PairingRows
    DEF System, Outside
<1> QED
  BY <1>2, <1>3, <1>4

-----------------------------------------------------------------------------
(* The theorems.                                                           *)

LEMMA InitTypes == Init => TypeOK
<1> SUFFICES ASSUME Init PROVE TypeOK
  OBVIOUS
<1>1. /\ NoId \in Id /\ Nobody \in Uid /\ Uids \subseteq Uid /\ Ids \subseteq Id
      /\ Fresh(Anons) \in Uids /\ Fresh(Ids) \in Ids /\ Target \in Uids
  BY Ids0, FreshIn, UsersAssumption DEF Uids
<1>2. PICK start \in Starts :
         /\ accounts = IF start = "fresh" THEN {Target} ELSE {Target, Fresh(Anons)}
         /\ rows = [u \in Uids |-> IF start # "fresh" /\ u = Fresh(Anons)
                                   THEN {Fresh(Ids)} ELSE {}]
         /\ peers \in {{Target}} \cup (IF start = "fresh" THEN {} ELSE {{Target, Fresh(Anons)}})
         /\ user = IF start = "fresh" THEN Nobody ELSE Fresh(Anons)
         /\ key = IF start = "fresh" THEN "none" ELSE "own"
         /\ storedId = IF start = "member" THEN Fresh(Ids) ELSE NoId
  BY DEF Init
<1>3. token = TRUE /\ existed = accounts /\ signedIn = {user} \ {Nobody} /\ events = <<>>
  BY DEF Init
<1>4. CloudTypes
  BY <1>1, <1>2, <1>3 DEF CloudTypes
<1>5. FireTypes
  <2>1. <<>> \in Seq(Uid)
    OBVIOUS
  <2>2. user \in Uid /\ signedIn \subseteq Uids
    BY <1>1, <1>2, <1>3 DEF Uid
  <2> QED
    BY <1>3, <2>1, <2>2 DEF FireTypes
<1>6. AuthTypes
  BY <1>1 DEF Init, AuthTypes
<1>7. KeyTypes
  BY <1>2 DEF Init, KeyTypes, ToSet
<1>8. IdTypes
  BY <1>1, <1>2 DEF Init, IdTypes
<1>9. BootTypes
  <2>1. runs = [r \in Runs |-> Idle] /\ inFlight = 0 /\ lookupFailed = FALSE
    BY DEF Init
  <2>2. Idle.phase = "none"
    BY DEF Idle
  <2>3. inFlight \in 0..MaxRuns
    BY <2>1, BoundsAssumption
  <2> QED
    BY <2>1, <2>2, <2>3, IdleTypes DEF BootTypes
<1>10. RepoTypes
  <2>1. <<>> \in Seq(Uids)
    OBVIOUS
  <2> QED
    BY <1>1, <2>1 DEF Init, RepoTypes
<1>11. ResetTypes
  BY IdleTypes DEF Init, ResetTypes, Resets
<1>12. PairingTypes
  BY IdleTypes DEF Init, PairingTypes
<1>13. ProcTypes
  BY DEF Init, ProcTypes
<1> QED
  BY <1>4, <1>5, <1>6, <1>7, <1>8, <1>9, <1>10, <1>11, <1>12, <1>13 DEF TypeOK

LEMMA InitHolds == Init => IndInv
<1> SUFFICES ASSUME Init PROVE IndInv
  OBVIOUS
<1>0. TypeOK
  BY InitTypes
<1>1. AccountsInv
  BY DEF Init, AccountsInv
<1>2. WritesInv
  BY DEF Init, WritesInv
<1>3. StoppedInv
  BY DEF Init, StoppedInv
<1>4. QuietInv /\ IdsInv /\ AloneInv
  <2>1. NoPairing.phase = "none" /\ NoPairing.id = NoId /\ Idle.phase = "none"
    BY DEF NoPairing, Idle
  <2> QED
    BY <2>1 DEF Init, QuietInv, IdsInv, AloneInv, Resets
<1>5. HomeInv /\ LookUpInv /\ SteadyInv
  <2>1. \A r \in Runs : runs[r].phase # "lookup"
    BY DEF Init, Idle
  <2>2. ~running
    BY DEF Init
  <2>3. /\ Fresh(Anons) \in Anons /\ Fresh(Ids) \in Ids /\ Nobody \notin Uids
    BY FreshIn, UsersAssumption
  <2>4. HomeInv
    <3>1. PICK start \in Starts :
             /\ rows = [u \in Uids |-> IF start # "fresh" /\ u = Fresh(Anons)
                                       THEN {Fresh(Ids)} ELSE {}]
             /\ user = IF start = "fresh" THEN Nobody ELSE Fresh(Anons)
             /\ storedId = IF start = "member" THEN Fresh(Ids) ELSE NoId
             /\ signedIn = {user} \ {Nobody}
      BY DEF Init
    <3> SUFFICES ASSUME NEW u \in Uids, rows[u] # {}
                 PROVE  /\ u = user /\ u \in Anons /\ u \in signedIn
                        /\ \E i \in Ids : rows[u] = {i} /\ storedId \in {NoId, i}
      BY DEF HomeInv
    <3>2. start # "fresh" /\ u = Fresh(Anons) /\ rows[u] = {Fresh(Ids)}
      BY <3>1
    <3> QED
      BY <2>3, <3>1, <3>2
  <2> QED
    BY <2>1, <2>2, <2>4 DEF LookUpInv, SteadyInv
<1> QED
  BY <1>0, <1>1, <1>2, <1>3, <1>4, <1>5 DEF IndInv

LEMMA StepHolds == IndInv /\ [Next]_vars => IndInv'
<1> SUFFICES ASSUME IndInv, [Next]_vars PROVE IndInv'
  OBVIOUS
<1>1. TypeOK /\ AccountsInv /\ WritesInv /\ Control /\ (Alive => Rows)
  BY DEF IndInv, Control, Rows
<1>2. TypeOK'
  BY <1>1, TypesKept DEF Control
<1>3. AccountsInv'
  BY <1>1, AccountsKept
<1>4. WritesInv'
  BY <1>1, WritesKept DEF Control
<1>5. Control'
  BY <1>1, ControlKept
<1>6. (Alive => Rows)'
  BY <1>1, <1>2, RowsKept
<1> QED
  BY <1>2, <1>3, <1>4, <1>5, <1>6 DEF IndInv, Control, Rows

\* The invariant is inductive: through every step of the services, the repository, the
\* process and the other devices.
THEOREM Invariant == Spec => []IndInv
<1> QED
  BY InitHolds, StepHolds, PTL DEF Spec

\* The state is what its types say.
THEOREM TypeCorrect == Spec => []TypeOK
<1>1. IndInv => TypeOK
  BY DEF IndInv
<1> QED
  BY <1>1, Invariant, PTL

\* While the process lives and has not failed to look itself up, an account lists the
\* installation once (_runBootstrap, ensureDeviceId, deviceRegister, joinNetwork).
THEOREM ListedOnce == Spec => []OneRow
<1>1. IndInv => OneRow
  <2> SUFFICES ASSUME IndInv, Alive, NEW u \in Uids PROVE Cardinality(rows[u]) <= 1
    BY DEF OneRow
  <2>1. TypeOK /\ AloneInv /\ HomeInv /\ LookUpInv /\ SteadyInv
    BY DEF IndInv
  <2>2. \E i : rows[u] \subseteq {i}
    <3>1. CASE ~running
      BY <2>1, <3>1 DEF HomeInv
    <3>2. CASE running /\ \A r \in Runs : runs[r].phase # "lookup"
      BY <2>1, <3>2 DEF SteadyInv
    <3>3. CASE \E r \in Runs : runs[r].phase = "lookup"
      BY <2>1, <3>3 DEF LookUpInv
    <3> QED
      BY <2>1, <3>1, <3>2, <3>3
  <2>3. PICK i : rows[u] = {} \/ rows[u] = {i}
    BY <2>2
  <2>4. Cardinality({}) = 0 /\ Cardinality({i}) = 1
    BY FS_EmptySet, FS_Singleton
  <2> QED
    BY <2>3, <2>4
<1> QED
  BY <1>1, Invariant, PTL

\* That an account is not there yet is never taken for its end: a reset of a vanished
\* account starts only for one that has existed (accountRepository, AccountResetService).
THEOREM NeverTakenForItsEnd == Spec => FreshAccountSpared
<1> DEFINE Spared == resets["vanished"] = NoReset /\ resets'["vanished"] # NoReset =>
                         attached \in existed
<1>1. IndInv /\ [Next]_vars => [Spared]_vars
  <2> SUFFICES ASSUME IndInv, Next, resets["vanished"] = NoReset,
                      resets'["vanished"] # NoReset
               PROVE  attached \in existed
    BY DEF vars
  <2>1. TypeOK /\ AccountsInv /\ WritesInv
    BY DEF IndInv
  <2>2. NoReset.phase = "none" /\ DOMAIN resets = Resets
    BY <2>1 DEF NoReset, TypeOK, ResetTypes
  <2>3. CASE AccountSnapshot
    BY <2>1, <2>3 DEF AccountSnapshot, Readable, AccountsInv
  <2>4. CASE StorageAnswers
    <3> DEFINE w == Head(writes)
    <3>1. IsWrite(w) /\ Waits(w)
      BY <2>1, <2>4, StorageWrites
    <3>2. UNCHANGED resets \/ (w.op = "delete" /\ resets' = [resets EXCEPT ![w.by].phase = "user"])
      BY <2>4 DEF StorageAnswers
    <3> HIDE DEF w
    <3>3. PICK k \in Resets : resets[k].phase = "clearing"
                              /\ resets' = [resets EXCEPT ![k].phase = "user"]
      BY <3>1, <3>2 DEF IsWrite, Waits
    <3>4. k # "vanished"
      BY <2>2, <3>3
    <3> QED
      BY <2>1, <3>3, <3>4 DEF TypeOK, ResetTypes, Resets
  <2>5. CASE \/ ResetCall \/ \E k \in Resets : Clear(k) \/ ResetUser(k)
             \/ Choose("leave") \/ Choose("destroy")
    BY <2>1, <2>2, <2>5
    DEF ResetCall, Leave, Destroy, Clear, ResetUser, Choose, TypeOK, ResetTypes, Resets
  <2>6. UNCHANGED resets \/ Crash \/ AccountSnapshot \/ StorageAnswers \/ ResetCall
        \/ (\E k \in Resets : Clear(k) \/ ResetUser(k)) \/ Choose("leave") \/ Choose("destroy")
    BY <2>2
    DEF Next, System, Outside, Resume, Identify, Deliver, SignInAnswered, Attach,
        DevicesSnapshot, PairingStep, RunStep, SignInForNewGroup, DiscardStale, Scan,
        Launch, Peer
  <2>7. CASE Crash
    BY <2>2, <2>7 DEF Crash, Resets
  <2> QED
    BY <2>3, <2>4, <2>5, <2>6, <2>7
<1> QED
  BY <1>1, Invariant, PTL DEF Spec, FreshAccountSpared
=============================================================================
