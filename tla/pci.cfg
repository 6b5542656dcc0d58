SPECIFICATION FairSpec
CONSTANTS
    Addresses = {1, 2, 3}
    v1 = v1
    v2 = v2
    VMs = {v1, v2}
    None = None
    Group <- OneShared
    Rule <- TwoRules
    Order <- RuleOrder
    HotPlug = {3}
    Persistency = TRUE
    Faults = {"refuse", "lost", "late", "bind", "save", "crash", "observe"}
    MaxPlugs = 1
    MaxStarts <- Starts
    MaxFaults = 1
    MaxRequests = 1
INVARIANTS TypeOK GroupQuarantined
PROPERTIES PciStaysDetached PciNews PciQuietPassSettles PciConverges
