\* two photos beside two that never change, a failure and two user actions
CONSTANTS
    p1 = p1
    p2 = p2
    Photos = {p1, p2}
    Kind <- ImageKind
    MaxRetryPark = 1
    Rest = 2
    LossPercent = 25
    GraceCycles = 2
    FullInterval = 1
    NodesBatch = 1
    MaxFaults = 1
    MaxChanges = 1
    MaxAdmin = 1
SPECIFICATION FairSpec
INVARIANTS TypeOK LossBounded
PROPERTIES EventuallyGone EventuallyListed
