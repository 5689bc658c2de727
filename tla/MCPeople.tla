------------------------------ MODULE MCPeople ------------------------------
(* Instances of People for TLC.                                            *)
EXTENDS People, TLC

CONSTANTS f1, f2, p1, p2, p3, r1, r2

\* Faces, people and request threads are interchangeable.
Symmetry == Permutations(Faces) \cup Permutations(Ids) \cup Permutations(Requests)

=============================================================================
