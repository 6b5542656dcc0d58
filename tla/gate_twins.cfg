SPECIFICATION Spec
CONSTANTS
    None = None  a = a  b = b  c = c  i1 = i1  i2 = i2
    Devices = {a, b}
    Ids = {i1, i2}
    Id <- TwinId
    Rank <- ScanOrder
    RoutedDevices = {}
    Fallback = {a}
    Hubs = {}
    HostAllow = {}
    Authorization = FALSE
    DeauthorizeUnmatched = FALSE
    Faults = {}
    Calm = TRUE
    MaxPlugs = 0
    MaxFaults = 0
    MaxRequests = 0
    MaxStarts = 1
PROPERTY VerdictsRemembered
