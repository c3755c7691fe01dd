------------------------- MODULE MCSignalingServer -------------------------
(* Instances of SignalingServer for TLC.                                   *)
EXTENDS SignalingServer, TLC

CONSTANTS p1, p2, p3, g1

OneGroup == [p \in Peers |-> g1]
=============================================================================
