--------------------------- MODULE MCPacedDownload ---------------------------
(* Instances of PacedDownload for TLC.                                       *)
EXTENDS PacedDownload

\* In order; with a gap; out of order.
FewBlocks == {<<1, 2, 3, 4>>, <<1, 3>>, <<3, 1, 2>>, <<>>}
Indices == 1..MaxIndex

=============================================================================
