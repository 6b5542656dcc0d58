-------------------------- MODULE MCPciAttachment --------------------------
(* PciAttachment on two routed devices: 1 takes the unrouted 2 of its IOMMU *)
(* group along, 3 has a group of its own and comes and goes.                *)
EXTENDS PciAttachment

CONSTANTS v1, v2

OneShared == [a \in Addresses |-> IF a <= 2 THEN {1, 2} ELSE {3}]
TwoRules == [a \in Addresses |->
    CASE a = 1 -> [target |-> v1, addAll |-> TRUE, skipShared |-> FALSE, skip |-> FALSE]
      [] a = 3 -> [target |-> v1, addAll |-> FALSE, skipShared |-> TRUE, skip |-> TRUE]
      [] OTHER -> None]
RuleOrder == [a \in Addresses |-> 4 - a]

\* v2 does not run.
Starts == [v \in VMs |-> IF v = v1 THEN 2 ELSE 0]
=============================================================================
