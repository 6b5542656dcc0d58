-------------------------- MODULE MCUsbAttachment --------------------------
(* Instances of UsbAttachment for TLC.                                     *)
EXTENDS UsbAttachment, TLC

CONSTANTS s1, s2, d1, d2, v1, v2, i1, i2, k1, k2

\* Two different devices, or two of the same model without a serial number.
DistinctId   == (d1 :> i1) @@ (d2 :> i2)
TwinId       == [d \in Devices |-> i1]
SameKind     == [i \in Ids |-> k1]

Fixed(v)  == [target |-> v, allowed |-> {}, skip |-> FALSE]
AnyVm     == [target |-> None, allowed |-> VMs, skip |-> FALSE]
Sole(v)   == [target |-> None, allowed |-> {v}, skip |-> TRUE]

\* With ChoiceRules and DistinctId, VMs and slots are interchangeable, and so
\* are the devices, each with its identity.
Interchangeable ==
    Permutations(VMs) \cup Permutations(Slots)
        \cup {(d1 :> d2) @@ (d2 :> d1) @@ (i1 :> i2) @@ (i2 :> i1)}

\* The user chooses for every device.
ChoiceRules == [s \in Slots |-> [d \in Devices |-> AnyVm]]
\* A choice at s1, one VM only at s2.
PortRules   == [s \in Slots |-> [d \in Devices |-> IF s = s1 THEN AnyVm ELSE Sole(v1)]]
=============================================================================
