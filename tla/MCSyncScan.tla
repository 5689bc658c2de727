----------------------------- MODULE MCSyncScan -----------------------------
(* Instances of SyncScan for TLC.                                          *)
EXTENDS SyncScan, TLC

CONSTANTS p1, p2

\* All photos are images: the scan does not look at the kind.
ImageKind == [u \in Photos |-> "image"]

PhotoSymmetry == Permutations(Photos)

=============================================================================
