\* one photo, two workers, every failure the code handles, twice
CONSTANTS
    img = img
    heic = heic
    vid = vid
    oth = oth
    w1 = w1
    w2 = w2
    Photos = {heic}
    Kind <- KindOf
    Workers = {w1, w2}
    Preview = {}
    Vanishing = {heic}
    MaxRetryPark = 1
    ThumbnailsBatch = 2
    ClipBatchSize = 2
    ClipQueueDepth = 2
    DbMayFail = TRUE
    MaxFaults = 2
    MaxCrashes = 0
    MaxQueue = 2
SPECIFICATION Spec
INVARIANTS TypeOK OneDetectorRun
PROPERTY LibraryKept
SYMMETRY WorkerSymmetry
