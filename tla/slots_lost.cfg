\* as bridge: the slots of requests that are over
CONSTANTS
    Requests = {r1, r2}
    Callers <- AllRequests
    Kinds = {"timeline", "ids", "nodes", "collect", "full", "head", "clear"}
    MaxParked = 1
    MaxSlots = 1
    MaxAge = 3
    MaxStops = 1
    MaxFaults = 1
SPECIFICATION Spec
INVARIANT SlotsReturned
