---------------------------- MODULE MCLanTransfer ----------------------------
(* Instances of LanTransfer for TLC.                                       *)
EXTENDS LanTransfer, TLC

CONSTANTS a, b, t1, t2, t3, f1, f2

OneFrom == (t1 :> a)
OneTo == (t1 :> b)

\* Two transfers to one device.
TwoFrom == (t1 :> a) @@ (t2 :> a)
TwoTo == (t1 :> b) @@ (t2 :> b)

\* A third the other way.
ThreeFrom == TwoFrom @@ (t3 :> b)
ThreeTo == TwoTo @@ (t3 :> a)
=============================================================================
