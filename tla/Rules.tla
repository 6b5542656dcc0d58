------------------------------- MODULE Rules -------------------------------
(* The rules of config.rs: which rule of the configuration a device falls   *)
(* under, and in which order the PCI devices are listed.                    *)
(*                                                                          *)
(* A rule or a selector is a record of the JSON keys it has; Bad is a value *)
(* of the wrong type, or a text that does not parse.  A pattern is the set  *)
(* of the texts it matches, and texts are equal or not in whatever letter   *)
(* case.  An attribute that could not be read is None.                      *)
EXTENDS Naturals, Sequences, FiniteSets

CONSTANTS None, Bad

ASSUME ValuesAssumption == None # Bad /\ {None, Bad} \cap BOOLEAN = {}

\* JSON: an array, and an object, whose keys all have a value.
IsList(list) == list \in Seq({list[i] : i \in DOMAIN list})
IsObject(node) == \A key \in DOMAIN node : node[key] # None

---------------------------------------------------------------------------
(* Keys.                                                                   *)

Stated(node, key) == key \in DOMAIN node
Value(node, key) == IF Stated(node, key) /\ node[key] # Bad THEN node[key] ELSE None

\* (Faulty variants, named F_..., show which property notices the fault.)
\* "disable" wins over "enable", and true is the default.
Enabled(node) == IF Stated(node, "disable") THEN Value(node, "disable") # TRUE
                 ELSE Value(node, "enable") # FALSE

Same(node, key, value) == Value(node, key) # None /\ Value(node, key) = value
\* Both may be None, the key is there.
Alike(node, key, value) == Stated(node, key) /\ Value(node, key) = value
\* A key that is missing agrees with everything.
Agrees(node, key, value) == Value(node, key) \in {None, value}
Fits(node, key, value) == Value(node, key) # None /\ value \in Value(node, key)

Entries(rule, key) == IF Value(rule, key) = None THEN <<>> ELSE rule[key]

---------------------------------------------------------------------------
(* USB.                                                                    *)

UsbSelectorMatches(selector, device) ==
    /\ Enabled(selector)
    /\ Value(selector, "removable") # None => Fits(selector, "removable", device.removable)
    /\ \/ /\ Same(selector, "vendorId", device.vendorId)
          /\ Same(selector, "productId", device.productId)
       \/ Fits(selector, "vendorName", device.vendorName)
       \/ Alike(selector, "bus", device.bus) /\ Alike(selector, "port", device.port)
       \/ IF Same(selector, "deviceClass", device.deviceClass)
          THEN Agrees(selector, "deviceSubclass", device.deviceSubclass)
          ELSE \E interface \in device.interfaces :
                 /\ Same(selector, "interfaceClass", interface.class)
                 /\ Agrees(selector, "interfaceSubclass", interface.subclass)

\* Classes 0 and ff say nothing, as does one that could not be read.
Vague == {None, "00", "ff"}

\* The selector has to ask which modules the device would load.
Undecided(selector, device) ==
    /\ ~UsbSelectorMatches(selector, device)
    /\ \A interface \in device.interfaces : interface.class \in Vague
    /\ Value(selector, "driverPath") # None

\* The driverPath fallback, when the modules are known.
SelectorMatches(selector, device, modules) ==
    \/ UsbSelectorMatches(selector, device)
    \/ /\ Undecided(selector, device)
       /\ (device.drivers \cup modules) \cap selector.driverPath # {}

\* A search asks for the modules at the places <<i, key, j>>, selector j of a
\* list of rule i, and may be answered differently at each.
Places(rules) == UNION {{i} \X {key} \X DOMAIN Entries(rules[i], key) :
                            i \in DOMAIN rules, key \in {"allow", "deny"}}
Answer(answers, place) == IF place \in DOMAIN answers THEN answers[place] ELSE {}

Hits(rules, i, key, device, answers) ==
    {j \in DOMAIN Entries(rules[i], key) :
        SelectorMatches(rules[i][key][j], device, Answer(answers, <<i, key, j>>))}

F_RuleMatches(rules, i, device, answers) ==      \* deny is ignored
    Enabled(rules[i]) /\ Hits(rules, i, "allow", device, answers) # {}
RuleMatches(rules, i, device, answers) ==
    /\ Enabled(rules[i])
    /\ Hits(rules, i, "allow", device, answers) # {}
    /\ Hits(rules, i, "deny", device, answers) = {}

NamesVm(rule) == Value(rule, "targetVm") # None \/ Entries(rule, "allowedVms") # <<>>

\* The index of the first rule that matches and names a VM, 0 if there is none.
F_UsbRule(rules, device, answers) ==         \* the search runs off the end
    LET wins == {i \in DOMAIN rules : RuleMatches(rules, i, device, answers) /\ NamesVm(rules[i])}
    IN  CHOOSE i \in wins \cup {Len(rules) + 1} : \A j \in wins : i <= j
UsbRule(rules, device, answers) ==
    LET wins == {i \in DOMAIN rules : RuleMatches(rules, i, device, answers) /\ NamesVm(rules[i])}
    IN  IF wins = {} THEN 0 ELSE CHOOSE i \in wins : \A j \in wins : i <= j

\* The search reaches a selector that asks for the modules: find_map goes
\* through the rules up to the first that wins, any() through both lists of a
\* rule, each up to its first match.
Reached(rules, device, answers, place) ==
    LET i == place[1]  key == place[2]
        selector == rules[i][key][place[3]]
    IN  /\ Undecided(selector, device) /\ device.drivers \cap selector.driverPath = {}
        /\ Enabled(rules[i])
        /\ \A j \in Hits(rules, i, key, device, answers) : place[3] <= j

\* The questions that are still to be asked, and the first of them.
Open(rules, device, answers) ==
    LET won == UsbRule(rules, device, answers)
    IN  {place \in Places(rules) \ DOMAIN answers :
            (won = 0 \/ place[1] <= won) /\ Reached(rules, device, answers, place)}
Precedes(p, q) == \/ p[1] < q[1]
                  \/ p[1] = q[1] /\ p[2] = "allow" /\ q[2] = "deny"
                  \/ p[1] = q[1] /\ p[2] = q[2] /\ p[3] < q[3]

---------------------------------------------------------------------------
(* PCI.                                                                    *)

PciSelectorMatches(selector, device) ==
    /\ Enabled(selector)
    /\ \/ Same(selector, "address", device.address)
       \/ /\ Alike(selector, "vendorId", device.vendorId)
          /\ Alike(selector, "deviceId", device.deviceId)
       \/ /\ Same(selector, "deviceClass", device.deviceClass)
          /\ Agrees(selector, "deviceSubclass", device.deviceSubclass)

\* The position of the first entry that matches, 0 if none does.
FirstMatch(entries, device) ==
    LET hits == {i \in DOMAIN entries : PciSelectorMatches(entries[i], device)}
    IN  IF hits = {} THEN 0 ELSE CHOOSE i \in hits : \A j \in hits : i <= j

\* What the loop over the rules adds to the order for one of them.
F_Counted(rule, device) ==                   \* a rule that does not match counts nothing
    FirstMatch(Entries(rule, "allow"), device)
Counted(rule, device) ==
    IF ~Enabled(rule) THEN 0
    ELSE IF FirstMatch(Entries(rule, "allow"), device) = 0 THEN Len(Entries(rule, "allow"))
    ELSE FirstMatch(Entries(rule, "allow"), device)

PciWants(rule, device) ==
    /\ Enabled(rule) /\ FirstMatch(Entries(rule, "allow"), device) > 0
    /\ ~\E i \in DOMAIN Entries(rule, "deny") : PciSelectorMatches(rule.deny[i], device)
    /\ Value(rule, "targetVm") # None

\* Index and order of the rule of a device; the index is 0 if it has none.
PciRule(rules, device) ==
    LET wins  == {i \in DOMAIN rules : PciWants(rules[i], device)}
        first == CHOOSE i \in wins : \A j \in wins : i <= j
        order[n \in 0..Len(rules)] ==
            IF n = 0 THEN 0 ELSE order[n - 1] + Counted(rules[n], device)
    IN  IF wins = {} THEN [rule |-> 0, order |-> 0] ELSE [rule |-> first, order |-> order[first]]
=============================================================================
