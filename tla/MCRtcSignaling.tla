---------------------------- MODULE MCRtcSignaling ----------------------------
(* An instance of RtcSignaling for TLC: an offer of a client to another,   *)
(* who is told of a third peer and changes its own name in between.        *)
EXTENDS RtcSignaling, TLC

CONSTANTS a, b, s1

OneOfferer == s1 :> a
OneTarget == s1 :> b
NewsAtA == (a :> 1) @@ (b :> 0)
=============================================================================
