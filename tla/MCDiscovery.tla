---------------------------- MODULE MCDiscovery ----------------------------
(* An instance of Discovery for TLC: a hub with a modem that only its       *)
(* driver tells and that has a disk, the modem's twin beside the hub, and   *)
(* two layers of virtual block devices over the disk.                       *)
EXTENDS Discovery, TLC

CONSTANTS pass, client, hub, modem, twin, sda, md, dm, alias, other

MCOrder == <<hub, modem, twin>>
MCBelow == (hub :> {hub, modem}) @@ [d \in {modem, twin} |-> {d}]
MCHome  == (sda :> modem) @@ [b \in {md, dm} |-> None]
MCParts == (md :> {sda}) @@ (dm :> {md}) @@ (sda :> {})

Interface(class) == [class |-> class, subclass |-> "01"]
Device(id, port, removable, interfaces) ==
    [vendorId |-> "046d", productId |-> id, vendorName |-> "Acme", bus |-> 1, port |-> port,
     removable |-> removable, deviceClass |-> "00", deviceSubclass |-> "00",
     interfaces |-> interfaces, drivers |-> {}]
MCDesc == (hub    :> [Device("h", 1, "fixed", {Interface("09")}) EXCEPT !.deviceClass = "09"])
       @@ (modem  :> Device("m", 1, "removable", {Interface("ff")}))
       @@ (twin   :> Device("m", 2, None, {Interface("ff")}))
MCDrivers == [d \in {hub, twin} |-> {}] @@ (modem :> {"cdc_ether"})
MCLists == {{twin}}
MCModalias == [d \in {modem, twin} |-> alias] @@ (hub :> other)
MCModules  == (alias :> {"cdc_ether"}) @@ (other :> {})

NetDriver == [driverPath |-> {"cdc_ether"}]
MCUsb1 ==
    <<[targetVm |-> "net", allow |-> <<NetDriver>>],
       [targetVm |-> "gui", deny |-> <<NetDriver, [interfaceClass |-> "09"]>>,
        allow |-> <<[vendorName |-> {"Acme"}]>>]>>
MCUsb2 ==
    <<[allowedVms |-> <<"gui">>, allow |-> <<[vendorId |-> "046d"], [deviceClass |-> "00",
            deviceSubclass |-> "01"], [interfaceClass |-> "09", removable |-> {"removable"}]>>],
       [disable |-> TRUE, targetVm |-> "net", allow |-> <<[bus |-> 1, port |-> 2]>>],
       [allow |-> <<[vendorId |-> "046d", productId |-> "m"]>>],
       [targetVm |-> "net", enable |-> TRUE, allow |-> <<[disable |-> TRUE, vendorName |-> {"Acme"}],
            [enable |-> FALSE, vendorName |-> {"Acme"}], [bus |-> 1, port |-> 1]>>]>>

MCPciDesc == [a \in 1..3 |-> [address |-> a, vendorId |-> "8086", deviceId |-> a,
                              deviceClass |-> IF a = 3 THEN "02" ELSE "04",
                              deviceSubclass |-> "00"]]
MCPci1 ==
    <<[targetVm |-> "net", allow |-> <<[address |-> 9], [deviceClass |-> "02"]>>],
       [targetVm |-> "net", allow |-> <<[vendorId |-> "8086", deviceId |-> 2],
            [vendorId |-> Bad, deviceId |-> 3], [deviceClass |-> "04"]>>]>>
MCPci2 ==
    <<[targetVm |-> "net", deny |-> <<[address |-> 1]>>, allow |-> <<[deviceClass |-> "04"]>>],
       [targetVm |-> "net", pciIommuSkipIfShared |-> TRUE, allow |-> <<[vendorId |-> "8086",
            deviceId |-> 1], [address |-> 3]>>],
       [disable |-> TRUE, targetVm |-> "net", allow |-> <<[address |-> 3]>>]>>
MCConfigs == {[usb |-> MCUsb1, pci |-> MCPci1], [usb |-> MCUsb2, pci |-> MCPci2]}
=============================================================================
