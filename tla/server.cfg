\* Four photos, a schedule, four lists and two accounts, one of these parts at a time.
CONSTANTS
    Shots = {1, 2, 3, 4}
    Takeout = {3}
    Carriers = {1, 2}
    PageSize = 2
    Limit = 1
    ChunkSize = 2
    MaxOccurred = 2
    Day = 2
    Hours = {1}
    Keep = 1
    LastTime = 4
    MaxSnapshots = 2
    MaxMishaps = 2
    Requests = {r1, r2}
    Nobody = nobody
    Queries = {all, name}
    All = all
    Size = 1
    PeopleTTL = 2
    DupsTTL = 1
    SuggestedTTL = 1
    GroupsTTL = 1
    Mixes <- MCMixes
    MaxClock = 3
    Users = {ann, bob}
    Admins = {ann}
    Threads = {t1, t2}
    MaxLoginFailures = 1
    MaxIpFailures = 2
    MaxChecks = 1
    MaxCalls = 3
    Parts = {"places", "backups", "lists", "accounts"}
SPECIFICATION ServerSpec
INVARIANTS
    UpkeepTypeOK
    SweepCovers
    OncePerSlot
    ListsBounded
    TypeOK
    RowsOwned
    OnePending
    LateChecksBounded
