\* A stream and another request at a time.
CONSTANTS
    stream = stream
    r1 = r1
    Stream = stream
    Reader = {r1}
    None = None
    MaxVersion = 2
    MaxJobs = 3
    MaxRequests = 1
    MaxFaults = 1
SPECIFICATION ServeSpec
INVARIANTS
    CacheIsNotOlder
PROPERTIES
    StreamShowsTheBoard
    DriftCatchesUp
CHECK_DEADLOCK FALSE
