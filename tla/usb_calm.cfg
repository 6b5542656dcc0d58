SPECIFICATION Spec
CONSTANTS
    None = None
    s1 = s1  s2 = s2  d1 = d1  d2 = d2  v1 = v1  v2 = v2
    i1 = i1  i2 = i2  k1 = k1  k2 = k2
    Slots = {s1, s2}
    Devices = {d1, d2}
    VMs = {v1, v2}
    Ports = {1, 2}
    Ids = {i1, i2}
    Kinds = {k1, k2}
    Id <- DistinctId
    Kind <- SameKind
    Rule <- ChoiceRules
    Hubs = {}
    Persistency = TRUE
    Authorization = FALSE
    Faults = {}
    MaxPlugs = 2
    MaxGens = 1
    MaxFaults = 0
    Calm = TRUE
    MaxRequests = 3
INVARIANTS Exclusive
SYMMETRY Interchangeable
PROPERTY SuspendReleases
