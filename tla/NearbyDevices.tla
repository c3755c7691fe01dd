----------------------------- MODULE NearbyDevices -----------------------------
(***************************************************************************)
(* The devices found on the network (nearby_devices_provider.dart).        *)
(*                                                                         *)
(* Announcements and scans register a device under its address; rounds of  *)
(* probes, one after the other from the poller and more from the refresh   *)
(* button, evict an address that missed several.  A round reads which      *)
(* addresses have a session (activeIps), awaits its probes and evicts.     *)
(***************************************************************************)
EXTENDS MergedDevices, FiniteSets

CONSTANTS
    Announcements,      \* what devices of the LAN announce, one HTTP endpoint each
    SignalingAnnouncements, \* what the signaling server tells, one endpoint each
    LocalIdentities,    \* ids and tokens of this device's own connections
    Rounds,             \* Poller, and a round per refresh that may overlap
    Poller,
    MaxProbeFailures    \* _kMaxConsecutiveProbeFailures

Ips == {FirstIp(d) : d \in Announcements}

ASSUME AnnouncementsAssumption ==
    /\ \A d \in Announcements : Len(d.http) = 1 /\ d.sig = <<>>
    /\ \A d \in SignalingAnnouncements : Len(d.sig) = 1 /\ d.http = <<>>
ASSUME ProbesAssumption == Poller \in Rounds /\ MaxProbeFailures \in Nat \ {0}

VARIABLES
    devices,            \* the map ip -> device, in order of insertion
    signalingDevices,   \* the map token -> set of devices: [token, group]
    failures,           \* _consecutiveProbeFailures
    rounds              \* a round's addresses still awaited, and the answered ones

nearbyVars == <<devices, signalingDevices, failures, rounds>>

Idle == [running |-> FALSE, probed |-> {}, seen |-> {}]
KnownIps(list) == {FirstIp(d) : d \in ToSet(list)}

NearbyInit ==
    /\ devices = <<>>
    /\ signalingDevices = <<>>
    /\ failures = [ip \in Ips |-> 0]
    /\ rounds = [r \in Rounds |-> Idle]

\* RegisterDeviceAction: an address keeps its place in the map.
Registered(list, device) ==
    LET i == SelectInSeq(list, LAMBDA d : FirstIp(d) = FirstIp(device))
    IN IF i = 0 THEN Append(list, device) ELSE ReplaceAt(list, i, device)

\* A multicast announcement, a scan or a register request.
RegisterDevice(device) ==
    /\ devices' = Registered(devices, device)
    /\ UNCHANGED <<signalingDevices, failures, rounds>>

RegisterSignalingDevice(device) ==
    LET id == device.sig[1].id
        i == SelectInSeq(signalingDevices, LAMBDA g : g.token = Token(device))
        group == IF i = 0 THEN <<>> ELSE signalingDevices[i].group
        entry == [token |-> Token(device),
                  group |-> Append(SelectSeq(group, LAMBDA d : d.sig[1].id # id),
                                   device)]
    IN /\ {id, Token(device)} \cap LocalIdentities = {}
       /\ signalingDevices' = IF i = 0 THEN Append(signalingDevices, entry)
                              ELSE ReplaceAt(signalingDevices, i, entry)
       /\ UNCHANGED <<devices, failures, rounds>>

UnregisterSignalingDevice(id) ==
    /\ signalingDevices' =
         [i \in DOMAIN signalingDevices |->
             [signalingDevices[i] EXCEPT !.group =
                 SelectSeq(@, LAMBDA d : d.sig[1].id # id)]]
    /\ UNCHANGED <<devices, failures, rounds>>

\* Mutant: a round forgets what earlier rounds have missed.
StartProbesAfresh(r, activeIps) ==
    LET targets == KnownIps(devices) \ activeIps
    IN /\ ~rounds[r].running
       /\ failures' = [ip \in Ips |-> 0]
       /\ rounds' = IF targets = {} THEN rounds
                    ELSE [rounds EXCEPT ![r] =
                             [running |-> TRUE, probed |-> targets, seen |-> {}]]
       /\ UNCHANGED <<devices, signalingDevices>>

\* ProbeAndPruneKnownDevicesAction, until it awaits the answers.  A round with
\* nobody to probe returns.
StartProbes(r, activeIps) ==
    LET targets == KnownIps(devices) \ activeIps
    IN /\ ~rounds[r].running
       /\ failures' = [ip \in Ips |->
             IF ip \in KnownIps(devices) \cap activeIps THEN 0 ELSE failures[ip]]
       /\ rounds' = IF targets = {} THEN rounds
                    ELSE [rounds EXCEPT ![r] =
                             [running |-> TRUE, probed |-> targets, seen |-> {}]]
       /\ UNCHANGED <<devices, signalingDevices>>

ProbeAnswered(r, device) ==
    /\ FirstIp(device) \in rounds[r].probed \ rounds[r].seen
    /\ rounds' = [rounds EXCEPT ![r].seen = @ \cup {FirstIp(device)}]
    /\ devices' = Registered(devices, device)
    /\ UNCHANGED <<signalingDevices, failures>>

\* The addresses that have now missed too many rounds.
Struck(r) ==
    {ip \in rounds[r].probed \ rounds[r].seen :
        failures[ip] + 1 >= MaxProbeFailures}

\* The stream of answers is over: who has not answered has missed this round.
EndProbes(r) ==
    /\ rounds[r].running
    /\ failures' = [ip \in Ips |->
          CASE ip \in rounds[r].seen \cup Struck(r) -> 0
            [] ip \in rounds[r].probed \ (rounds[r].seen \cup Struck(r)) ->
                 failures[ip] + 1
            [] OTHER -> failures[ip]]
    /\ devices' = SelectSeq(devices, LAMBDA d : FirstIp(d) \notin Struck(r))
    /\ rounds' = [rounds EXCEPT ![r] = Idle]
    /\ UNCHANGED signalingDevices
=============================================================================
