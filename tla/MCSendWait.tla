------------------------------ MODULE MCSendWait ------------------------------
(***************************************************************************)
(* Instances of SendWait for TLC.                                          *)
(***************************************************************************)
EXTENDS SendWait, TLC

CONSTANTS n1, n2

Http(ip, cert, alias) ==
    [alias |-> alias, model |-> "m", http |-> <<[ip |-> ip, cert |-> cert]>>,
     sig |-> <<>>]
Signaled(id, token, alias) ==
    [alias |-> alias, model |-> "m", http |-> <<>>,
     sig |-> <<[id |-> id, token |-> token]>>]
Row(id, fp, name) == [id |-> id, fp |-> fp, name |-> name]

\* A device of the network that is in the account.
OneDevice == {Http(1, "certA", n1)}
\* Its address is given to another.
OneAddress == OneDevice \cup {Http(1, "certB", n2)}
AnnouncedToo == {Signaled("s1", "t1", n1)}
OneRow == <<Row("me", "certMe", "self"), Row("a", "certA", n1)>>
SmallAccounts == {<<>>, OneRow}

-----------------------------------------------------------------------------
(* Up to two devices of the network, one of the signaling server and two   *)
(* rows of the account.  a may have two addresses, 9 is an address of this *)
(* device, and two rows may be of one device.                              *)

Names == {n1, n2}
Certs == {"certA", "certB", "certMe"}
UpTo(n, S) == UNION {[1..m -> S] : m \in 0..n}

SmallLanLists ==
    {l \in UpTo(2, {Http(ip, cert, n) : ip \in {1, 2, 9}, cert \in Certs, n \in Names}) :
        \A i, j \in DOMAIN l : FirstIp(l[i]) = FirstIp(l[j]) => i = j}
SmallSignaledLists == UpTo(1, {Signaled("s1", "t1", n) : n \in Names})
SmallRowLists ==
    {l \in UpTo(2, {Row(id, fp, n) : id \in {"me", "a", "b"},
                                     fp \in {"certA", "certB", Unknown}, n \in Names}) :
        \A i, j \in DOMAIN l : l[i].id = l[j].id => i = j}
=============================================================================
