\* The whole server and its client.
CONSTANTS
    i1 = i1
    Null = Null
    NoId = NoId
    Ids <- MCIds
    Traffic <- MCTraffic
    MaxSent = 3
    MaxCalls = 1
SPECIFICATION FairSpec
INVARIANTS
    TypeOK
    VerdictIsTrue
PROPERTIES
    KeepsPromise
    RequestsSettle
    ServerEnds
CHECK_DEADLOCK FALSE
