SPECIFICATION GeoSpec
CONSTANTS
    None = None
    Addresses = {a1}
    InBlocks = {}
    InMmdb = {a1}
    Lookups = {p1}
    Administrators = {d1}
    Intervals = {2}
    MaxEntries = 2
    MaxTime = 3
    MaxPublications = 1
    MaxGeoFaults = 0
    MaxGeoRestarts = 0
    MaxRequests = 1
INVARIANT SamePipeline
CHECK_DEADLOCK FALSE
