\* an image with a preview and a video without, through a crash and a failure: all is indexed
CONSTANTS
    img = img
    heic = heic
    vid = vid
    oth = oth
    w1 = w1
    w2 = w2
    Photos = {img, vid}
    Kind <- KindOf
    Workers = {w1}
    Preview = {img}
    Vanishing = {}
    MaxRetryPark = 1
    ThumbnailsBatch = 2
    ClipBatchSize = 2
    ClipQueueDepth = 2
    DbMayFail = FALSE
    MaxFaults = 1
    MaxCrashes = 1
    MaxQueue = 2
SPECIFICATION FairSpec
INVARIANTS DoneIsComplete NoStrandedClaim
PROPERTY EventuallyIndexed
