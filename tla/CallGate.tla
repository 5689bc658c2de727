------------------------------ MODULE CallGate ------------------------------
(* What a rate limiter promises the calls that go through it, whatever its   *)
(* rate: a call enters, waits in a queue of bounded length or is refused,    *)
(* the queue is served from its head, and once it is shut nobody waits.      *)
EXTENDS Naturals, Sequences

CONSTANTS
    Callers,        \* the calls
    MaxParked       \* the calls that may wait at a time

VARIABLES
    waiters,        \* the calls that wait, the head first
    closed          \* the gate is shut for good

gateVars == <<waiters, closed>>

GateInit == waiters = <<>> /\ closed = FALSE

\* Nobody is overtaken.
Enter ==
    /\ ~closed
    /\ waiters = <<>>
    /\ UNCHANGED gateVars

Park(c) ==
    /\ ~closed
    /\ Len(waiters) < MaxParked
    /\ waiters' = Append(waiters, c)
    /\ UNCHANGED closed

Refuse ==
    /\ ~closed
    /\ Len(waiters) >= MaxParked
    /\ UNCHANGED gateVars

TurnAway ==
    /\ closed
    /\ UNCHANGED gateVars

Grant ==
    /\ waiters # <<>>
    /\ waiters' = Tail(waiters)
    /\ UNCHANGED closed

Shut ==
    /\ closed' = TRUE
    /\ waiters' = <<>>

GateNext ==
    \/ Enter \/ Refuse \/ TurnAway \/ Grant \/ Shut
    \/ \E c \in Callers : Park(c)

GateSpec == GateInit /\ [][GateNext]_gateVars

\* Whoever waits is served or turned away.
FairGateSpec == GateSpec /\ WF_gateVars(Grant)

=============================================================================
