SPECIFICATION FairSpec
CONSTANTS
    unix = unix  vsock = vsock  l = l  q = q  r = r
    Transports = {unix, vsock}
    Clients = {l, q, r}
    Via <- MCVia
    Kind <- MCKind
    Rejected = {q}
    MaxConnections = 3
    Capacity = 1
    Buffer = 1
    MaxEvents = 2
    MaxTries = 2
    MaxFaults = 1
INVARIANTS TypeOK PermitsAccounted AnswerFirst FeedComplete
PROPERTY RequestsSettle
CHECK_DEADLOCK FALSE
