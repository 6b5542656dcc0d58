SPECIFICATION FairSpec
CONSTANTS
    None = None
    s1 = s1  s2 = s2  d1 = d1  d2 = d2  v1 = v1  v2 = v2
    i1 = i1  i2 = i2  k1 = k1  k2 = k2
    Slots = {s1}
    Devices = {d1, d2}
    VMs = {v1, v2}
    Ports = {1, 2, 3}
    Ids = {i1, i2}
    Kinds = {k1, k2}
    Id <- TwinId
    Kind <- SameKind
    Rule <- ChoiceRules
    Hubs = {d2}
    Persistency = TRUE
    Authorization = TRUE
    Faults = {"refuse", "lost", "save", "crash"}
    MaxPlugs = 2
    MaxGens = 0
    MaxFaults = 1
    Calm = FALSE
    MaxRequests = 1
PROPERTIES QuietPassSettles Converges
