\* A video, with and without the full-size thread, beside a photo that may get no
\* thumbnail; one album that they join and leave, one later change of the timeline.
CONSTANTS
    vid = vid
    oth = oth
    a1 = a1
    NoCount = NoCount
    Photos = {vid, oth}
    Kind <- KindOf
    MaxRetryPark = 1
    AlbumUids = {a1}
    MaxEdits = 1
SPECIFICATION Spec
INVARIANTS TypeOK MirrorComplete CleanMissesBypassedOnly
PROPERTIES EventuallyCounted
