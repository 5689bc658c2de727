\* two requests for any route, one place in the queue of the gate, one slot, a stop and a lost unlink
CONSTANTS
    Requests = {r1, r2}
    Callers <- AllRequests
    Kinds = {"timeline", "ids", "nodes", "collect", "full", "head", "clear"}
    MaxParked = 1
    MaxSlots = 1
    MaxAge = 3
    MaxStops = 1
    MaxFaults = 1
SPECIFICATION FairSpec
INVARIANTS TypeOK WholeServed DownloadKeepsFile
PROPERTIES Answered OrphansGo
