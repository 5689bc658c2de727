---------------------------- MODULE OrderedCopy ----------------------------
(* What a download promises its sink, however its blocks arrive: the blocks *)
(* 1, 2, 3 ... each once and in this order, success only after the last     *)
(* one, and nothing more once it has ended.                                 *)
EXTENDS Naturals, Sequences

VARIABLES
    total,      \* the number of blocks of the revision
    out,        \* the blocks written so far
    result      \* "open", "complete" or "failed"

vars == <<total, out, result>>

Init ==
    /\ total \in Nat
    /\ out = <<>>
    /\ result = "open"

Copy ==
    /\ result = "open"
    /\ out' = Append(out, Len(out) + 1)
    /\ UNCHANGED <<total, result>>

Complete ==
    /\ result = "open"
    /\ Len(out) = total
    /\ result' = "complete"
    /\ UNCHANGED <<total, out>>

Fail ==
    /\ result = "open"
    /\ result' = "failed"
    /\ UNCHANGED <<total, out>>

Next == Copy \/ Complete \/ Fail

Spec == Init /\ [][Next]_vars

=============================================================================
