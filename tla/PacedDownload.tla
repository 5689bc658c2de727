--------------------------- MODULE PacedDownload ---------------------------
(* The download of a revision through the transport of the bridge: every    *)
(* request of a block takes a token of the bucket first (httpClient.ts).    *)
EXTENDS BlockDownload, TokenBucket

ASSUME CallersAssumption == Callers = Blocks

vars == <<downloadVars, bucketVars>>

Init == DownloadInit /\ BucketInit

\* A block wants to send and is not parked with that already.
Wants(b) == block[b] \in {"ask", "askToken"} /\ NotParked(b)

\* pace() before the request: it goes out, parks or is refused.
Paced(b) ==
    /\ Wants(b)
    /\ \/ AcquireNow /\ Send(b)
       \/ AcquireParks(b) /\ UNCHANGED downloadVars
       \/ AcquireRefused /\ Refused(b)

\* The timer: the head of the queue sends.
Wake ==
    \/ WakeGrants /\ Send(Head(waiters))
    \/ WakeTooEarly /\ UNCHANGED downloadVars

\* noteResponseThrottle
Slowed(b) == Throttled(b) /\ \E s \in Backoffs : NoteRetryAfter(s)

Next ==
    \/ Loop /\ UNCHANGED bucketVars
    \/ \E b \in Blocks : Paced(b) \/ Slowed(b) \/ (Answer(b) /\ UNCHANGED bucketVars)
    \/ Wake
    \/ Abort /\ UNCHANGED bucketVars
    \/ Tick /\ UNCHANGED downloadVars

Spec == Init /\ [][Next]_vars

\* The loop and the timer run, requests are answered, time goes by.  An answer
\* may be an error, the bound on the faults ends them.
Fairness ==
    /\ WF_vars(Loop /\ UNCHANGED bucketVars)
    /\ WF_vars(Wake)
    /\ WF_vars(Tick /\ UNCHANGED downloadVars)
    /\ \A b \in Blocks : /\ WF_vars(Paced(b))
                         /\ WF_vars(Answer(b) /\ UNCHANGED bucketVars)

FairSpec == Spec /\ Fairness

\* The state of both parts.
TypeOK == DownloadTypeOK /\ BucketTypeOK

=============================================================================
