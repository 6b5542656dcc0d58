SPECIFICATION Spec
CONSTANTS
    None = None  a = a  b = b  c = c  i1 = i1  i2 = i2
    Devices = {a}
    Ids = {i1, i2}
    Id <- DistinctId
    Rank <- ScanOrder
    RoutedDevices = {a}
    Fallback = {}
    Hubs = {a}
    HostAllow = {}
    Authorization = FALSE
    DeauthorizeUnmatched = FALSE
    Faults = {}
    Calm = TRUE
    MaxPlugs = 1
    MaxFaults = 0
    MaxRequests = 0
    MaxStarts = 1
INVARIANT HubsSpared
