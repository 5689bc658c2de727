------------------------------ MODULE MCServer ------------------------------
(* Instance of Upkeep and Sessions for TLC: a behaviour is one part of Upkeep,   *)
(* or the accounts.  Photos 1 and 2 carry coordinates, so that a sweep meets its *)
(* limit; photo 3 has them only in the Takeout export, photo 4 nowhere.          *)
EXTENDS Upkeep, Sessions

MCMixes == {{"people", "dups"}, {"people", "suggested"}, {"groups"}}

serverVars == <<upkeepVars, vars>>

ServerInit ==
    /\ UpkeepInit /\ Init
    /\ part # "accounts" => secret = [u \in Users |-> FALSE]

\* Bound: when all calls have been made and none is under way, the accounts rest.
Rest ==
    /\ calls = MaxCalls /\ \A t \in Threads : At(t, "idle")
    /\ UNCHANGED vars

ServerNext ==
    \/ UpkeepNext /\ UNCHANGED vars
    \/ part = "accounts" /\ (Next \/ Rest) /\ UNCHANGED upkeepVars

ServerSpec == ServerInit /\ [][ServerNext]_serverVars

=============================================================================
