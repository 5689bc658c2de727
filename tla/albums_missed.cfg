\* As albums: a video that the full-size thread finishes after a recount has pruned it.
CONSTANTS
    vid = vid
    oth = oth
    a1 = a1
    NoCount = NoCount
    Photos = {vid, oth}
    Kind <- KindOf
    MaxRetryPark = 1
    AlbumUids = {a1}
    MaxEdits = 1
SPECIFICATION Spec
INVARIANT CleanNeverMisses
