------------------------------ MODULE MCAlbums ------------------------------
(* Instances of Albums for TLC.                                            *)
EXTENDS Albums

CONSTANTS vid, oth, a1

\* The media_type of each photo; both may come with a preview or without one.
KindOf == [u \in Photos |-> IF u = vid THEN "video" ELSE "other"]

=============================================================================
