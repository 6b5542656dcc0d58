SPECIFICATION FairSpec
CONSTANTS
    None = None  a = a  b = b  c = c  i1 = i1  i2 = i2
    Devices = {a, b, c}
    Ids = {i1, i2}
    Id <- DistinctId
    Rank <- ScanOrder
    RoutedDevices = {a}
    Fallback = {}
    Hubs = {b}
    HostAllow = {c}
    Authorization = TRUE
    DeauthorizeUnmatched = TRUE
    Faults = {"refuse", "lost", "save", "sysfs", "scan", "crash"}
    Calm = TRUE
    MaxPlugs = 1
    MaxFaults = 1
    MaxRequests = 1
    MaxStarts = 2
INVARIANT NoStrayAuthorization
PROPERTIES Apart AuthorizationSettles StockAfterStop
