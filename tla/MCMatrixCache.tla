--------------------------- MODULE MCMatrixCache ---------------------------
(* Instances of MatrixCache for TLC.                                       *)
EXTENDS MatrixCache, TLC

CONSTANTS w1, w2

\* Generation 1 has one face more than the first, generation 2 as many as 1.
Rows == (0 :> 1) @@ (1 :> 2) @@ (2 :> 2)
Counts == [g \in 0..MaxEvents |-> Rows[g]]

=============================================================================
