\* two faces, three ids, two requests and the indexer, one call that stops
CONSTANTS
    f1 = f1
    f2 = f2
    p1 = p1
    p2 = p2
    p3 = p3
    r1 = r1
    r2 = r2
    NoFile = NoFile
    Faces = {f1, f2}
    Ids = {p1, p2, p3}
    Names = {"n"}
    Requests = {r1, r2}
    MinCluster = 1
    MaxSimilar = 1
    MaxCalls = 2
    MaxStops = 1
SPECIFICATION Spec
INVARIANTS TypeOK CountsCover
SYMMETRY Symmetry
