----------------------------- MODULE MCUsbGate -----------------------------
(* Small instances of UsbGate: identities, the order of a scan.             *)
EXTENDS UsbGate
CONSTANTS a, b, c, i1, i2

DistinctId == [d \in Devices |-> IF d = a THEN i1 ELSE i2]
TwinId     == [d \in Devices |-> i1]

\* The order of a scan.
ScanOrder  == [d \in Devices |-> CASE d = a -> 1 [] d = b -> 2 [] d = c -> 3]
=============================================================================
