---------------------------- MODULE MCCloudGroups ----------------------------
(* Instances of CloudGroups for TLC.                                       *)
EXTENDS CloudGroups, TLC

CONSTANTS u1, u2, a, b, t1

MCSymmetry == Permutations(Uids) \cup Permutations(Devices)
=============================================================================
