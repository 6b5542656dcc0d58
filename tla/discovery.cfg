SPECIFICATION Spec
CONSTANTS
    None = None  Bad = Bad
    hub = hub  modem = modem  twin = twin
    sda = sda  md = md  dm = dm  alias = alias  other = other
    Devices = {hub, modem, twin}
    Order <- MCOrder
    Below <- MCBelow
    Blocks = {sda, md, dm}
    Home <- MCHome
    Parts <- MCParts
    Desc <- MCDesc
    Drivers <- MCDrivers
    pass = pass  client = client
    Askers = {pass, client}
    Scanner = pass
    Lists <- MCLists
    Modalias <- MCModalias
    Modules <- MCModules
    PciDevices = {1, 2, 3}
    PciDesc <- MCPciDesc
    Shared = {3}
    Configs <- MCConfigs
    MaxUses = 3
INVARIANTS TypeOK StorageSpared UsbRuleChosen PciListed
