------------------------------ MODULE FileTransfer ------------------------------
(***************************************************************************)
(* What a transfer promises, whatever carries it: the receiver takes the   *)
(* files its user (or its settings) accepted and no others, and the sender *)
(* counts a file as sent only once the receiver has it.                    *)
(***************************************************************************)
CONSTANTS Transfers, Files

VARIABLES
    accepted,      \* the files the receiver agreed to
    saved,         \* the files the receiver has
    acknowledged   \* the files the sender counts as sent

vars == <<accepted, saved, acknowledged>>

Init ==
    /\ accepted = [t \in Transfers |-> {}]
    /\ saved = [t \in Transfers |-> {}]
    /\ acknowledged = [t \in Transfers |-> {}]

\* Agreed to once, to some of the files.
Accept(t, selection) ==
    /\ accepted[t] = {}
    /\ selection # {}
    /\ accepted' = [accepted EXCEPT ![t] = selection]
    /\ UNCHANGED <<saved, acknowledged>>

Save(t, f) ==
    /\ f \in accepted[t]
    /\ saved' = [saved EXCEPT ![t] = @ \cup {f}]
    /\ UNCHANGED <<accepted, acknowledged>>

Acknowledge(t, f) ==
    /\ f \in saved[t]
    /\ acknowledged' = [acknowledged EXCEPT ![t] = @ \cup {f}]
    /\ UNCHANGED <<accepted, saved>>

Next ==
    \E t \in Transfers :
        \/ \E selection \in SUBSET Files : Accept(t, selection)
        \/ \E f \in Files : Save(t, f) \/ Acknowledge(t, f)

Spec == Init /\ [][Next]_vars
=============================================================================
