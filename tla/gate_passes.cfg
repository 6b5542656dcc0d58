SPECIFICATION FairSpec
CONSTANTS
    None = None  a = a  b = b  c = c  i1 = i1  i2 = i2
    Devices = {a, b}
    Ids = {i1, i2}
    Id <- TwinId
    Rank <- ScanOrder
    RoutedDevices = {a}
    Fallback = {b}
    Hubs = {}
    HostAllow = {}
    Authorization = FALSE
    DeauthorizeUnmatched = FALSE
    Faults = {}
    Calm = FALSE
    MaxPlugs = 1
    MaxFaults = 0
    MaxRequests = 1
    MaxStarts = 1
INVARIANT TypeOK
PROPERTIES NoBindCycle AttachedConfigured GateSettles
