\* up to four blocks through a window of two and a bucket of a token and a third, two faults
CONSTANTS
    MaxIndex = 4
    Listings <- FewBlocks
    MaxConcurrent = 2
    MaxFaults = 2
    Callers <- Indices
    One = 3
    Rate = 2
    Capacity = 4
    MaxParked = 1
    Backoffs = {0, 3}
SPECIFICATION FairSpec
INVARIANTS TypeOK TimerArmed RateKept ProgressHonest
PROPERTIES GateKept CopiesInOrder Ends
CHECK_DEADLOCK FALSE
