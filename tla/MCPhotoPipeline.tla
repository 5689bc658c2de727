-------------------------- MODULE MCPhotoPipeline --------------------------
(* Instances of PhotoPipeline for TLC.                                     *)
EXTENDS PhotoPipeline, TLC

CONSTANTS img, heic, vid, oth, w1, w2

\* The media_type of each photo: heic is an image no preview exists of.
MCKind == (img :> "image") @@ (heic :> "image") @@ (vid :> "video") @@ (oth :> "other")

\* TLC substitutes this for Kind: the part of MCKind that a run uses.
KindOf == [u \in Photos |-> MCKind[u]]

WorkerSymmetry == Permutations(Workers)

=============================================================================
