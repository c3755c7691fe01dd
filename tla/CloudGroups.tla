------------------------------- MODULE CloudGroups -------------------------------
(***************************************************************************)
(* Device groups in the cloud (firebase/functions/src): a group is an      *)
(* account document named by an anonymous user, with a document per device *)
(* and a cached count of them; a join token moves a device into a group.   *)
(*                                                                         *)
(*   - A callable changes documents in one transaction, which is one       *)
(*     action here.  What a callable does outside its transaction is an    *)
(*     action of its own: the check before a token is written, and the     *)
(*     recursive delete that sweeps a subtree document by document.        *)
(*   - Two scheduled jobs delete old tokens and accounts that have been    *)
(*     idle for 90 days.                                                   *)
(*   - A device calls as the user it is signed in as.  A join ends with a  *)
(*     new sign-in, which may not be reached.                              *)
(*                                                                         *)
(* A call that is refused changes nothing and has no action.               *)
(*                                                                         *)
(* GroupsInit, GroupsNext, GroupsSpec, ... carry the name of the module:   *)
(* it can be extended beside another state machine.                        *)
(***************************************************************************)
EXTENDS Integers, FiniteSets

CONSTANTS
    Uids,       \* anonymous users
    Devices,    \* device ids: an installation keeps its id
    Tokens,     \* join tokens
    Nobody,     \* not a user: signed out
    Restarters, \* devices that may sign out although they are in a group
    MaxCount,   \* bound: deviceCount, beyond which no device is added
    MaxSweeps   \* bound: recursive deletes that run at once

ASSUME NobodyAssumption == Nobody \notin Uids
ASSUME DevicesAssumption == IsFiniteSet(Devices) /\ Restarters \subseteq Devices
ASSUME GroupsBoundsAssumption == MaxCount \in Nat /\ MaxSweeps \in Nat

VARIABLES
    accounts,       \* the account documents there are
    deviceCount,    \* AccountDoc::deviceCount
    devices,        \* the device documents under an account
    idle,           \* accounts whose lastActiveAt is 90 days back
    token,          \* state of a join token
    tokenAccount,   \* JoinTokenDoc::accountId
    sweeps,         \* recursive deletes of accounts
    deviceSweeps,   \* recursive deletes of single devices
    collecting,     \* idle accounts the weekly job found and has yet to delete
    auth,           \* the user a device is signed in as
    customToken,    \* the account a join has just moved a device into
    minted,         \* users there have been
    inherited       \* history: accounts created over an earlier one's devices

docVars    == <<accounts, deviceCount, devices, idle>>
tokenVars  == <<token, tokenAccount>>
sweepVars  == <<sweeps, deviceSweeps, collecting>>
clientVars == <<auth, customToken, minted>>
groupsVars == <<docVars, tokenVars, sweepVars, clientVars, inherited>>

Users == Uids \cup {Nobody}

GroupsInit ==
    /\ accounts = {}
    /\ deviceCount = [u \in Uids |-> 0]
    /\ devices = [u \in Uids |-> {}]
    /\ idle = {}
    /\ token = [t \in Tokens |-> "new"]
    /\ tokenAccount = [t \in Tokens |-> Nobody]
    /\ sweeps = {}
    /\ deviceSweeps = {}
    /\ collecting = {}
    /\ auth = [d \in Devices |-> Nobody]
    /\ customToken = [d \in Devices |-> Nobody]
    /\ minted = {}
    /\ inherited = {}

-----------------------------------------------------------------------------
(* Recursive deletes.                                                      *)

CanSweep == Cardinality(sweeps) + Cardinality(deviceSweeps) < MaxSweeps

\* A recursive delete lists the documents below the account, and then deletes
\* each of them and the account, in any order.
Sweep(u, job) ==
    [uid |-> u, job |-> job, listed |-> FALSE, left |-> {}, account |-> TRUE]
Replace(s, r) ==
    sweeps' = (sweeps \ {s}) \cup (IF r.account \/ r.left # {} THEN {r} ELSE {})

SweepList(s) ==
    /\ ~s.listed
    /\ Replace(s, [s EXCEPT !.listed = TRUE, !.left = devices[s.uid]])
    /\ UNCHANGED <<docVars, tokenVars, deviceSweeps, collecting, clientVars, inherited>>

SweepDelete(s, d) ==
    /\ d \in s.left
    /\ Replace(s, [s EXCEPT !.left = @ \ {d}])
    /\ devices' = [devices EXCEPT ![s.uid] = @ \ {d}]
    /\ UNCHANGED <<accounts, deviceCount, idle, tokenVars, deviceSweeps, collecting,
                   clientVars, inherited>>

SweepAccount(s) ==
    /\ s.listed /\ s.account
    /\ accounts' = accounts \ {s.uid}
    /\ Replace(s, [s EXCEPT !.account = FALSE])
    /\ UNCHANGED <<deviceCount, devices, idle, tokenVars, deviceSweeps, collecting,
                   clientVars, inherited>>

SweepDevice(u, d) ==
    /\ <<u, d>> \in deviceSweeps
    /\ deviceSweeps' = deviceSweeps \ {<<u, d>>}
    /\ devices' = [devices EXCEPT ![u] = @ \ {d}]
    /\ UNCHANGED <<accounts, deviceCount, idle, tokenVars, sweeps, collecting,
                   clientVars, inherited>>

\* The instance that runs a delete is gone, and with it the job it is part of.
SweepCrashes(s) ==
    /\ sweeps' = sweeps \ {s}
    /\ collecting' = IF s.job = "weekly" THEN {} ELSE collecting
    /\ UNCHANGED <<docVars, tokenVars, deviceSweeps, clientVars, inherited>>

DeviceSweepCrashes(u, d) ==
    /\ <<u, d>> \in deviceSweeps
    /\ deviceSweeps' = deviceSweeps \ {<<u, d>>}
    /\ UNCHANGED <<docVars, tokenVars, sweeps, collecting, clientVars, inherited>>

-----------------------------------------------------------------------------
(* Accounts and devices.                                                   *)

\* A fresh anonymous user.
SignIn(d) ==
    /\ auth[d] = Nobody
    /\ \E u \in Uids \ minted :
          /\ auth' = [auth EXCEPT ![d] = u]
          /\ minted' = minted \cup {u}
    /\ UNCHANGED <<docVars, tokenVars, sweepVars, customToken, inherited>>

\* deleteAndReset: once the device has left its group or the group is deleted.
\* Also when the bootstrap or the deletion of the group has failed: then the
\* device is still listed.
SignOut(d) ==
    /\ auth[d] # Nobody
    /\ d \in devices[auth[d]] => d \in Restarters
    /\ auth' = [auth EXCEPT ![d] = Nobody]
    /\ UNCHANGED <<docVars, tokenVars, sweepVars, customToken, minted, inherited>>

CreateAccount(u) ==
    /\ u \notin accounts
    /\ accounts' = accounts \cup {u}
    /\ deviceCount' = [deviceCount EXCEPT ![u] = 0]
    /\ idle' = idle \ {u}
    /\ inherited' = IF devices[u] = {} THEN inherited \ {u} ELSE inherited \cup {u}
    /\ UNCHANGED <<devices, tokenVars, sweepVars, clientVars>>

\* Mutant: the new device is not counted.
RegisterUncounted(u, d) ==
    /\ u \in accounts
    /\ idle' = idle \ {u}
    /\ devices' = [devices EXCEPT ![u] = @ \cup {d}]
    /\ UNCHANGED <<accounts, deviceCount, tokenVars, sweepVars, clientVars, inherited>>

\* A device that is registered already is refreshed and not counted again.
RegisterDevice(u, d) ==
    /\ u \in accounts
    /\ idle' = idle \ {u}
    /\ devices' = [devices EXCEPT ![u] = @ \cup {d}]
    /\ \/ /\ d \notin devices[u]
          /\ deviceCount[u] < MaxCount
          /\ deviceCount' = [deviceCount EXCEPT ![u] = @ + 1]
       \/ /\ d \in devices[u]
          /\ UNCHANGED deviceCount
    /\ UNCHANGED <<accounts, tokenVars, sweepVars, clientVars, inherited>>

\* A new name or icon, or a notification.
CheckIn(u) ==
    /\ u \in accounts /\ devices[u] # {}
    /\ idle' = idle \ {u}
    /\ UNCHANGED <<accounts, deviceCount, devices, tokenVars, sweepVars, clientVars,
                   inherited>>

\* Mutant: two devices count as the last one.
DepartsOffByOne(u, d) ==
    /\ u \in accounts /\ d \in devices[u]
    /\ CanSweep
    /\ \/ /\ deviceCount[u] > 2
          /\ deviceSweeps' = deviceSweeps \cup {<<u, d>>}
          /\ UNCHANGED <<accounts, sweeps>>
       \/ /\ deviceCount[u] <= 2
          /\ accounts' = accounts \ {u}
          /\ sweeps' = sweeps \cup {Sweep(u, "call")}
          /\ UNCHANGED deviceSweeps
    /\ UNCHANGED collecting

\* A device goes, and the account with it when it counts no other; then what
\* is below is swept.
Departs(u, d) ==
    /\ u \in accounts /\ d \in devices[u]
    /\ CanSweep
    /\ \/ /\ deviceCount[u] > 1
          /\ deviceSweeps' = deviceSweeps \cup {<<u, d>>}
          /\ UNCHANGED <<accounts, sweeps>>
       \/ /\ deviceCount[u] <= 1
          /\ accounts' = accounts \ {u}
          /\ sweeps' = sweeps \cup {Sweep(u, "call")}
          /\ UNCHANGED deviceSweeps
    /\ UNCHANGED collecting

Uncounted(u) == IF deviceCount[u] > 1 THEN deviceCount[u] - 1 ELSE deviceCount[u]

RemoveDevice(u, d) ==
    /\ Departs(u, d)
    /\ devices' = [devices EXCEPT ![u] = @ \ {d}]
    /\ deviceCount' = [deviceCount EXCEPT ![u] = Uncounted(u)]
    /\ idle' = idle \ {u}
    /\ UNCHANGED <<tokenVars, clientVars, inherited>>

DeleteAccount(u) ==
    /\ u \in accounts
    /\ CanSweep
    /\ sweeps' = sweeps \cup {Sweep(u, "call")}
    /\ UNCHANGED <<docVars, tokenVars, deviceSweeps, collecting, clientVars, inherited>>

-----------------------------------------------------------------------------
(* Pairing.                                                                *)

\* createJoinToken checks the account and the issuing device, and then
\* writes the token.
CheckIssuer(u, d, t) ==
    /\ token[t] = "new"
    /\ u \in accounts /\ d \in devices[u]
    /\ token' = [token EXCEPT ![t] = "checked"]
    /\ tokenAccount' = [tokenAccount EXCEPT ![t] = u]
    /\ UNCHANGED <<docVars, sweepVars, clientVars, inherited>>

WriteToken(t) ==
    /\ token[t] = "checked"
    /\ token' = [token EXCEPT ![t] = "live"]
    /\ UNCHANGED <<docVars, tokenAccount, sweepVars, clientVars, inherited>>

\* Five minutes have passed.
ExpireToken(t) ==
    /\ token[t] = "live"
    /\ token' = [token EXCEPT ![t] = "expired"]
    /\ UNCHANGED <<docVars, tokenAccount, sweepVars, clientVars, inherited>>

\* The transaction of joinNetwork: the token is consumed and the device moves
\* from its account, if it has one, into the token's.  The answer carries a
\* custom token for the new account.
JoinNetwork(source, d, t) ==
    LET target == tokenAccount[t]
        leaves == source \in accounts
    IN  /\ customToken[d] = Nobody
        /\ token[t] = "live"
        /\ target # source
        /\ target \in accounts
        /\ deviceCount[target] < MaxCount
        /\ token' = [token EXCEPT ![t] = "consumed"]
        /\ \/ leaves /\ Departs(source, d)
           \/ ~leaves /\ UNCHANGED <<accounts, sweepVars>>
        /\ devices' = [u \in Uids |->
               CASE u = target -> devices[u] \cup {d}
                 [] u = source /\ leaves -> devices[u] \ {d}
                 [] OTHER -> devices[u]]
        /\ deviceCount' = [u \in Uids |->
               CASE u = target -> deviceCount[u] + 1
                 [] u = source /\ leaves -> Uncounted(u)
                 [] OTHER -> deviceCount[u]]
        /\ idle' = idle \ {source, target}
        /\ customToken' = [customToken EXCEPT ![d] = target]
        /\ UNCHANGED <<tokenAccount, auth, minted, inherited>>

\* The end of completePairing: the key has been exchanged and the device
\* signs in with the custom token.
SignInWithCustomToken(d) ==
    /\ customToken[d] # Nobody
    /\ auth' = [auth EXCEPT ![d] = customToken[d]]
    /\ customToken' = [customToken EXCEPT ![d] = Nobody]
    /\ UNCHANGED <<docVars, tokenVars, sweepVars, minted, inherited>>

\* The answer, the key or the new sign-in is lost: the device remains signed
\* in as before, or has already deleted that user.
PairingFails(d) ==
    /\ customToken[d] # Nobody
    /\ customToken' = [customToken EXCEPT ![d] = Nobody]
    /\ \E u \in {auth[d], Nobody} : auth' = [auth EXCEPT ![d] = u]
    /\ UNCHANGED <<docVars, tokenVars, sweepVars, minted, inherited>>

-----------------------------------------------------------------------------
(* Time and the scheduled jobs.                                            *)

\* 90 days without a check-in.
GoIdle(u) ==
    /\ u \in accounts \ idle
    /\ idle' = idle \cup {u}
    /\ UNCHANGED <<accounts, deviceCount, devices, tokenVars, sweepVars, clientVars,
                   inherited>>

\* Consumed tokens expire as well.
CleanupExpiredJoinTokens ==
    \E expired \in SUBSET {t \in Tokens : token[t] \in {"expired", "consumed"}} :
        /\ {t \in Tokens : token[t] = "expired"} \subseteq expired
        /\ expired # {}
        /\ token' = [t \in Tokens |-> IF t \in expired THEN "deleted" ELSE token[t]]
        /\ UNCHANGED <<docVars, tokenAccount, sweepVars, clientVars, inherited>>

\* The weekly job finds the idle accounts and deletes one after the other.
Weekly == {s \in sweeps : s.job = "weekly"}

CleanupInactiveAccounts ==
    /\ collecting = {} /\ Weekly = {}
    /\ idle \cap accounts # {}
    /\ collecting' = idle \cap accounts
    /\ UNCHANGED <<docVars, tokenVars, sweeps, deviceSweeps, clientVars, inherited>>

CollectAccount(u) ==
    /\ u \in collecting /\ Weekly = {}
    /\ CanSweep
    /\ collecting' = collecting \ {u}
    /\ sweeps' = sweeps \cup {Sweep(u, "weekly")}
    /\ UNCHANGED <<docVars, tokenVars, deviceSweeps, clientVars, inherited>>

-----------------------------------------------------------------------------
\* What a device calls, as the user it is signed in as.
Call(u, d) ==
    \/ CreateAccount(u) \/ RegisterDevice(u, d) \/ CheckIn(u) \/ DeleteAccount(u)
    \/ \E e \in Devices : RemoveDevice(u, e)
    \/ \E t \in Tokens : CheckIssuer(u, d, t) \/ JoinNetwork(u, d, t)

Client(d) ==
    \/ SignIn(d) \/ SignOut(d)
    \/ SignInWithCustomToken(d) \/ PairingFails(d)

Sweeping ==
    \/ \E s \in sweeps :
          \/ SweepList(s) \/ SweepAccount(s) \/ SweepCrashes(s)
          \/ \E d \in s.left : SweepDelete(s, d)
    \/ \E u \in Uids, d \in Devices : SweepDevice(u, d) \/ DeviceSweepCrashes(u, d)

\* What goes on without a call.
Background ==
    \/ \E t \in Tokens : WriteToken(t) \/ ExpireToken(t)
    \/ \E u \in Uids : GoIdle(u) \/ CollectAccount(u)
    \/ CleanupExpiredJoinTokens
    \/ CleanupInactiveAccounts

GroupsNext ==
    \/ \E d \in Devices : Client(d)
    \/ \E u \in Uids, d \in Devices : auth[d] = u /\ Call(u, d)
    \/ Sweeping
    \/ Background

GroupsSpec == GroupsInit /\ [][GroupsNext]_groupsVars

-----------------------------------------------------------------------------
(* Properties.                                                             *)

Sweeps == [uid : Uids, job : {"call", "weekly"}, listed : BOOLEAN,
           left : SUBSET Devices, account : BOOLEAN]

GroupsTypeOK ==
    /\ accounts \subseteq Uids
    /\ deviceCount \in [Uids -> Nat]
    /\ devices \in [Uids -> SUBSET Devices]
    /\ idle \subseteq Uids
    /\ token \in [Tokens -> {"new", "checked", "live", "expired", "consumed", "deleted"}]
    /\ tokenAccount \in [Tokens -> Users]
    /\ sweeps \subseteq Sweeps
    /\ deviceSweeps \subseteq Uids \X Devices
    /\ collecting \subseteq Uids
    /\ auth \in [Devices -> Users]
    /\ customToken \in [Devices -> Users]
    /\ minted \subseteq Uids
    /\ inherited \subseteq Uids

\* The cached count is never less than the devices there are, whatever joins,
\* removals and sweeps interleave, so that removeDevice does not take another
\* device for the last one.  An account that was created again while devices
\* of an earlier one were still there is the exception.
NeverUndercounts ==
    \A u \in accounts \ inherited : Cardinality(devices[u]) <= deviceCount[u]

\* A group does not vanish under its other devices when one is removed or
\* joins another group: while two are left only a recursive delete, which a
\* device or the weekly job asked for, takes the account away.
SparesOtherDevices ==
    [][\A u \in accounts \ inherited :
          Cardinality(devices[u]) > 1 /\ u \notin accounts' =>
              \E s \in sweeps : s.uid = u /\ s.listed]_groupsVars
=============================================================================
