----------------------------- MODULE MergedDevices -----------------------------
(***************************************************************************)
(* The list of devices the Send tab shows, as pure functions.              *)
(*                                                                         *)
(* A device is [alias, model, http, sig]: model stands for deviceModel and *)
(* deviceType, http is the sequence of its HTTP endpoints [ip, cert] and   *)
(* sig that of its signaling endpoints [id, token].  A row of the account  *)
(* is [id, fp, name], its fingerprint Unknown when the document has none.  *)
(* Dart's maps and sets keep the order of insertion: both are sequences.   *)
(***************************************************************************)
EXTENDS Naturals, SequencesExt

Unknown == "unknown"    \* a fingerprint, or the row of a device, there is none of

CertHashes(device) == {e.cert : e \in ToSet(device.http)}
HasHttpEndpoint(device) == device.http # <<>>
HasAnyEndpoint(device) == HasHttpEndpoint(device) \/ device.sig # <<>>
FirstIp(device) == device.http[1].ip
Token(device) == device.sig[1].token

-----------------------------------------------------------------------------
\* NearbyDevicesState.allDevices: a sequence of [key, device].

AddEndpoint(endpoints, e) ==
    IF e \in ToSet(endpoints) THEN endpoints ELSE Append(endpoints, e)
MergeDevice(a, b) ==
    [a EXCEPT !.http = FoldLeft(AddEndpoint, @, b.http),
              !.sig = FoldLeft(AddEndpoint, @, b.sig)]

CertHashMatch(result, device) ==
    SelectInSeq(result, LAMBDA r :
                            CertHashes(r.device) \cap CertHashes(device) # {})
IdentityMatch(result, device) ==
    SelectInSeq(result, LAMBDA r : /\ r.device.alias = device.alias
                                   /\ r.device.model = device.model)
KeyMatch(result, key) == SelectInSeq(result, LAMBDA r : r.key = key)

MergeAt(result, i, device) ==
    [result EXCEPT ![i].device = MergeDevice(@, device)]
\* result[key] = device, which replaces a device that has the key.
Put(result, key, device) ==
    LET i == KeyMatch(result, key)
        entry == [key |-> key, device |-> device]
    IN IF i = 0 THEN Append(result, entry) ELSE ReplaceAt(result, i, entry)

CollapseLan(result, device) ==
    LET i == CertHashMatch(result, device)
    IN IF i # 0 THEN MergeAt(result, i, device)
       ELSE Put(result, device.http[1].cert, device)

MergeSignaling(result, device) ==
    LET i == IdentityMatch(result, device)
    IN IF i # 0 THEN MergeAt(result, i, device)
       ELSE Put(result, Token(device), device)

AllDevices(lan, signaling) ==
    LET entries == FoldLeft(MergeSignaling,
                            FoldLeft(CollapseLan, <<>>, lan),
                            signaling)
    IN [i \in DOMAIN entries |-> entries[i].device]

-----------------------------------------------------------------------------
\* mergeNetworkDevices: a sequence of [device, cloud, reachable].

Listed(device, ownCert, ownIps) ==
    /\ HasAnyEndpoint(device)
    /\ ownCert \notin CertHashes(device)
    /\ \A e \in ToSet(device.http) : e.ip \notin ownIps
\* The row is not this device's, and not one it had before.
IsOther(row, currentDeviceId, ownCert) ==
    row.id # currentDeviceId /\ row.fp # ownCert

\* Mutant: an entry may be taken by name although it has its row.
AliasMatchTaken(entries, name) ==
    SelectInSeq(entries, LAMBDA e : e.device.alias = name)
\* _findAliasMatchIndex, among the entries no row was folded into: all of
\* them are reachable.
AliasMatch(entries, name) ==
    SelectInSeq(entries, LAMBDA e : e.cloud = Unknown /\ e.device.alias = name)

TwinMatch(entries, row) ==
    SelectInSeq(entries, LAMBDA e : /\ row.fp # Unknown
                                    /\ e.cloud = Unknown
                                    /\ row.fp \in CertHashes(e.device))

\* Mutant: the name is looked for before the certificate.
MatchByName(entries, row) ==
    LET named == AliasMatch(entries, row.name)
    IN IF named # 0 THEN named ELSE TwinMatch(entries, row)

Match(entries, row) ==
    LET twin == TwinMatch(entries, row)
    IN IF twin # 0 THEN twin ELSE AliasMatch(entries, row.name)

SynthesizeDevice(row) ==
    [alias |-> row.name, model |-> Unknown, http |-> <<>>, sig |-> <<>>]

Fold(entries, row) ==
    LET i == Match(entries, row)
    IN IF i # 0
       THEN [entries EXCEPT ![i].cloud = row.id, ![i].device.alias = row.name]
       ELSE Append(entries, [device |-> SynthesizeDevice(row),
                             cloud |-> row.id, reachable |-> FALSE])

\* One round of the loop over the devices of the network, and of the one over
\* the rows of the account.
AddListed(entries, device, ownCert, ownIps) ==
    IF Listed(device, ownCert, ownIps)
    THEN Append(entries, [device |-> device, cloud |-> Unknown, reachable |-> TRUE])
    ELSE entries
FoldOther(entries, row, currentDeviceId, ownCert) ==
    IF IsOther(row, currentDeviceId, ownCert) THEN Fold(entries, row) ELSE entries

MergeNetworkDevices(lan, cloud, currentDeviceId, ownCert, ownIps) ==
    LET network == FoldLeft(LAMBDA entries, device :
                                AddListed(entries, device, ownCert, ownIps), <<>>, lan)
    IN FoldLeft(LAMBDA entries, row : FoldOther(entries, row, currentDeviceId, ownCert),
                network, cloud)
=============================================================================
