----------------------------- MODULE Discovery -----------------------------
(* What the daemon sees of the host: the USB scan of device.rs, which reads *)
(* mounts and block devices one after the other while the host goes on      *)
(* using its disks, the rule each device gets, the cache of modprobe's      *)
(* answers, which every task that lists the devices reads and fills, and    *)
(* the list of PCI devices.                                                 *)
(*                                                                          *)
(* One scan is taken step by step.  What a scan reads no other scan changes;*)
(* of the others' scans only the list is here, any of the devices there.    *)
EXTENDS Rules

CONSTANTS
    Devices,      \* USB devices
    Order,        \* the order of their directory
    Below,        \* Below[d]: d and the devices that hang off it
    Blocks,       \* block devices
    Home,         \* Home[b]: the USB device a disk or partition is on, None if it is virtual
    Parts,        \* Parts[b]: what a virtual block device is made of
    Desc,         \* Desc[d]: the attributes and descriptors of d, no driver bound
    Drivers,      \* Drivers[d]: the host drivers that may be bound to d's interfaces
    Modalias,     \* Modalias[d]
    Modules,      \* Modules[m]: what modprobe and modinfo say of the modalias m
    PciDevices,   \* addresses in the order of their names: 1, 2, ...
    PciDesc,      \* PciDesc[a]: the attributes of the device at a
    Shared,       \* PCI devices that share their IOMMU group
    Configs,      \* configurations: lists of USB and of PCI rules
    Askers,       \* the tasks that list USB devices: the reconcile pass, API connections
    Scanner,      \* the one whose scan is taken step by step
    Lists,        \* what the scans of the others may find
    MaxUses       \* mounts, maps, plugs, unplugs, binds and lists of the other tasks

Modaliases == {Modalias[d] : d \in Devices}

ASSUME ConstantsAssumption ==
    /\ IsFiniteSet(Devices) /\ IsFiniteSet(Blocks) /\ None \notin Devices
    /\ Order \in Seq(Devices) /\ Devices = {Order[i] : i \in DOMAIN Order}
    /\ \A i, j \in DOMAIN Order : Order[i] = Order[j] => i = j
    /\ Below \in [Devices -> SUBSET Devices] /\ \A d \in Devices : d \in Below[d]
    /\ Home \in [Blocks -> Devices \cup {None}] /\ Parts \in [Blocks -> SUBSET Blocks]
    /\ \A b \in Blocks : Home[b] = None <=> Parts[b] # {}
    /\ Modules \in [Modaliases -> SUBSET UNION {Modules[m] : m \in Modaliases}]
    /\ \A m \in Modaliases : \A answer \in SUBSET Modules[m] : answer # None
    /\ Drivers \in [Devices -> SUBSET UNION {Drivers[d] : d \in Devices}]
    /\ Scanner \in Askers /\ Lists \subseteq SUBSET Devices
    /\ PciDevices \subseteq Nat /\ IsFiniteSet(PciDevices) /\ Shared \subseteq PciDevices
    /\ MaxUses \in Nat

ASSUME ConfigsAssumption ==
    \A c \in Configs : \A rules \in {c.usb, c.pci} :
        /\ IsList(rules) /\ \A i \in DOMAIN rules : IsObject(rules[i])
        /\ \A i \in DOMAIN rules : \A key \in {"allow", "deny"} :
               LET entries == Entries(rules[i], key)
               IN  IsList(entries) /\ \A j \in DOMAIN entries : IsObject(entries[j])

VARIABLES
    config,    \* the configuration
    present,   \* USB devices that are plugged in
    mounted,   \* block devices that are mounted or swapped on
    anonymous, \* those whose file system shows a device number of its own
    mapped,    \* virtual block devices that exist
    bound,     \* bound[d]: the host drivers bound to d's interfaces
    scan,      \* the scan
    since,     \* of the device being looked at: what has shown a use of it from
               \* the first read on, and whether nothing has
    search,    \* search[k]: the devices k has listed and is to find rules for
    known,     \* known[m]: the driver cache
    raced,     \* modaliases that were asked for twice, and answered differently
    verdict,   \* verdict[d]: the rule d got last, 0 if none, and its drivers then
    pciList,   \* the list of PCI devices, until the next scan
    uses       \* what the host and the clients have done so far

host == <<present, mounted, anonymous, mapped, bound, uses>>
judging == <<search, known, raced, verdict>>
vars == <<config, host, scan, since, judging, pciList>>

---------------------------------------------------------------------------
(* Block devices.                                                          *)

Exists(b) == IF Home[b] = None THEN b \in mapped ELSE Home[b] \in present
Slaves(b) == IF b \in mapped THEN Parts[b] ELSE {}
Holders(b) == {h \in mapped : b \in Parts[h]}

\* The blocks that rest on those of start: slaves[b] is what b is made of.
Resting(start, slaves) ==
    LET grow[n \in 0..Cardinality(DOMAIN slaves)] ==
            IF n = 0 THEN start
            ELSE LET less == grow[n - 1]
                 IN  less \cup {b \in DOMAIN slaves : slaves[b] \cap less # {}}
    IN  grow[Cardinality(DOMAIN slaves)]

DisksOf(d) == {b \in Blocks : Home[b] \in Below[d]}

\* The mounts whose number in mountinfo and swaps is that of a block device.
Shown == mounted \ anonymous

\* The mounts and the maps that need device d.
Uses(d, mounts, maps) ==
    LET rests == Resting(DisksOf(d), [b \in maps |-> Parts[b]])
    IN  (mounts \cap rests) \cup (maps \cap rests)

---------------------------------------------------------------------------
(* The host.  Disks are opened exclusively, and not pulled out in use.     *)

\* The host's disks become `mounts', of which `hidden' show another number
\* (btrfs does), and `maps'.
HostUses(mounts, hidden, maps) ==
    /\ uses < MaxUses /\ uses' = uses + 1
    /\ mounted' = mounts /\ anonymous' = hidden /\ mapped' = maps
    /\ since' = IF scan.dev = None THEN since
                ELSE LET now == Uses(scan.dev, mounts \ hidden, maps)
                     IN  [always |-> since.always \cap now, never |-> since.never /\ now = {}]
    /\ UNCHANGED <<config, present, bound, scan, judging, pciList>>

Mount(b) == /\ Exists(b) /\ b \notin mounted /\ Holders(b) = {}
            /\ \E hidden \in {anonymous, anonymous \cup {b}} :
                  HostUses(mounted \cup {b}, hidden, mapped)
Unmount(b) == b \in mounted /\ HostUses(mounted \ {b}, anonymous \ {b}, mapped)
Map(b)     == /\ Parts[b] # {} /\ b \notin mapped
              /\ \A s \in Parts[b] : Exists(s) /\ s \notin mounted /\ Holders(s) = {}
              /\ HostUses(mounted, anonymous, mapped \cup {b})
Unmap(b)   == /\ b \in mapped /\ b \notin mounted /\ Holders(b) = {}
              /\ HostUses(mounted, anonymous, mapped \ {b})

Elsewhere == /\ uses < MaxUses /\ uses' = uses + 1
             /\ UNCHANGED <<config, mounted, anonymous, mapped, scan, since, known, raced, pciList>>

\* No host driver is bound to what the kernel has yet to authorize or probe.
Plug(d) ==
    /\ d \notin present /\ \A h \in Devices : d \in Below[h] /\ h # d => h \in present
    /\ Elsewhere
    /\ present' = present \cup {d}
    /\ UNCHANGED <<bound, search, verdict>>
Unplug(d) ==
    /\ d \in present /\ Uses(d, mounted, mapped) = {}
    /\ Elsewhere
    /\ present' = present \ Below[d]
    /\ bound' = [e \in Devices |-> IF e \in Below[d] THEN {} ELSE bound[e]]
    /\ verdict' = [e \in Devices |-> IF e \in Below[d] THEN None ELSE verdict[e]]
    /\ UNCHANGED search

\* The kernel, the gate or an attach binds and unbinds host drivers.
Rebind(d) ==
    /\ d \in present /\ Elsewhere
    /\ \E S \in SUBSET Drivers[d] : S # bound[d] /\ bound' = [bound EXCEPT ![d] = S]
    /\ UNCHANGED <<present, search, verdict>>

---------------------------------------------------------------------------
(* The scan.                                                               *)

Between(pc, todo, found) ==
    [pc |-> pc, todo |-> todo, dev |-> None, active |-> {}, unread |-> {}, read |-> <<>>,
     found |-> found]
NoScan == Between("idle", {}, <<>>)
NoUse == [always |-> {}, never |-> TRUE]
Listed(left) == [left |-> left, answers |-> <<>>, asking |-> FALSE]
Idle == Listed(<<>>)
Scan(pc) == scan.pc = pc /\ UNCHANGED <<config, host, known, raced, pciList>>

\* The block devices whose numbers are in mountinfo and swaps.
ActiveStorage == {b \in Blocks : b \in Shown}

ScanStart ==
    /\ scan.pc = "idle" /\ search[Scanner] = Idle /\ pciList' = <<>>
    /\ scan' = Between("next", {i \in DOMAIN Order : Order[i] \in present}, <<>>)
    /\ UNCHANGED <<config, host, since, judging>>

\* The next entry of the directory; one that has gone has no idVendor.  At the
\* end the rules are looked up for all that was found.
ScanNext ==
    /\ Scan("next")
    /\ \/ \E i \in scan.todo :
            /\ \A j \in scan.todo : i <= j
            /\ \/ /\ Order[i] \in present
                  /\ scan' = [scan EXCEPT !.pc = "resolve", !.dev = Order[i], !.todo = @ \ {i},
                                          !.active = ActiveStorage]
                  /\ LET used == Uses(Order[i], Shown, mapped)
                     IN  since' = [always |-> used, never |-> used = {}]
               \/ /\ Order[i] \notin present
                  /\ scan' = [scan EXCEPT !.todo = @ \ {i}] /\ UNCHANGED since
            /\ UNCHANGED search
       \/ /\ scan.todo = {} /\ scan' = NoScan /\ UNCHANGED since
          /\ search' = [search EXCEPT ![Scanner] = Listed(scan.found)]
    /\ UNCHANGED verdict

\* canonicalize errs for a device that has gone, and with it the scan.
ScanResolve ==
    /\ Scan("resolve")
    /\ scan' = IF scan.dev \in present
               THEN [scan EXCEPT !.pc = "blocks", !.unread = {b \in Blocks : Exists(b)},
                                 !.read = <<>>]
               ELSE NoScan
    /\ since' = IF scan.dev \in present THEN since ELSE NoUse
    /\ UNCHANGED <<search, verdict>>

\* One block device: it is skipped if it has gone.
ScanBlock ==
    /\ Scan("blocks")
    /\ \E b \in scan.unread :
         scan' = [scan EXCEPT !.unread = @ \ {b},
                    !.read = IF ~Exists(b) THEN @
                             ELSE [x \in DOMAIN @ \cup {b} |->
                                     IF x = b THEN [slaves |-> Slaves(b), held |-> Holders(b) # {}]
                                     ELSE @[x]]]
    /\ UNCHANGED <<since, search, verdict>>

\* usb_backs_active_storage, from what was read.
F_Backs(d, read, active) ==      \* holders are not looked at
    LET own == {b \in DOMAIN read : Home[b] \in Below[d]}
    IN  own \cap active # {}
Backs(d, read, active) ==
    LET own == {b \in DOMAIN read : Home[b] \in Below[d]}
    IN  \/ \E b \in own : read[b].held
        \/ Resting(own, [b \in DOMAIN read |-> read[b].slaves]) \cap active # {}

\* A device that backs storage is left out of the list.
ScanDecide ==
    /\ Scan("blocks") /\ scan.unread = {}
    /\ scan' = [scan EXCEPT !.pc = IF Backs(scan.dev, scan.read, scan.active)
                                   THEN "excluded" ELSE "offered"]
    /\ UNCHANGED <<since, search, verdict>>

Left(found) == Between("next", scan.todo, found)

Excluded ==
    /\ Scan("excluded")
    /\ scan' = Left(scan.found)
    /\ verdict' = [verdict EXCEPT ![scan.dev] = None]
    /\ since' = NoUse /\ UNCHANGED search

\* The attributes of the others are read, and the drivers they have now.
Offered ==
    /\ Scan("offered")
    /\ scan' = Left([d \in DOMAIN scan.found \cup {scan.dev} |->
                        IF d = scan.dev THEN bound[d] ELSE scan.found[d]])
    /\ since' = NoUse /\ UNCHANGED <<search, verdict>>

---------------------------------------------------------------------------
(* The rules of the devices that were found, one device after the other.   *)

\* Another task lists the devices: its scan leaves out what it will.
ListUsb(k) ==
    /\ k # Scanner /\ search[k] = Idle /\ Elsewhere
    /\ \E S \in Lists : /\ S \subseteq present
                       /\ search' = [search EXCEPT ![k] = Listed([d \in S |-> bound[d]])]
    /\ UNCHANGED <<present, bound, verdict>>

IsFirst(d, S) == /\ d \in S
                 /\ \E i \in DOMAIN Order : /\ Order[i] = d
                                           /\ \A j \in 1..(i - 1) : Order[j] \notin S

\* The device d as it was when its drivers were read.
Seen(d, drivers) == [Desc[d] EXCEPT !.drivers = drivers]

\* Task k looks for the rule of d, and at which place the next question is asked.
Judging(k, d) == /\ IsFirst(d, DOMAIN search[k].left)
                 /\ UNCHANGED <<config, host, scan, since, pciList>>
Asked(k, d) ==
    LET open == Open(config.usb, Seen(d, search[k].left[d]), search[k].answers)
    IN  {place \in open : \A other \in open : ~Precedes(other, place)}

Answered(k, place, answer) ==
    LET told == search[k].answers
        more == [p \in DOMAIN told \cup {place} |-> IF p = place THEN answer ELSE told[p]]
    IN  search' = [search EXCEPT ![k] = [left |-> @.left, answers |-> more, asking |-> FALSE]]

\* module_paths looks into the cache.  It lets go of the lock to run modprobe.
LookUp(k, d) ==
    /\ Judging(k, d) /\ ~search[k].asking
    /\ \E place \in Asked(k, d) :
         IF known[Modalias[d]] # None
         THEN Answered(k, place, known[Modalias[d]])
         ELSE search' = [search EXCEPT ![k].asking = TRUE]
    /\ UNCHANGED <<known, raced, verdict>>

\* What is in the cache afterwards: whatever was there before is replaced.
F_Learnt(m, answer) ==           \* a failure is not cached
    IF answer # {} THEN [known EXCEPT ![m] = answer] ELSE known
Learnt(m, answer) == [known EXCEPT ![m] = answer]

\* modprobe and modinfo answer; either may fail.
Learn(k, d) ==
    LET m == Modalias[d] IN
    /\ Judging(k, d) /\ search[k].asking
    /\ \E place \in Asked(k, d), answer \in SUBSET Modules[m] :
          /\ known' = Learnt(m, answer)
          /\ raced' = IF known[m] \in {None, answer} THEN raced ELSE raced \cup {m}
          /\ Answered(k, place, answer)
    /\ UNCHANGED verdict

Judge(k, d) ==
    LET me == search[k]  device == Seen(d, me.left[d]) IN
    /\ Judging(k, d) /\ Open(config.usb, device, me.answers) = {}
    /\ search' = [search EXCEPT ![k] = Listed([e \in DOMAIN me.left \ {d} |-> me.left[e]])]
    /\ verdict' = IF d \in present
                  THEN [verdict EXCEPT ![d] = [rule |-> UsbRule(config.usb, device, me.answers),
                                               drivers |-> me.left[d]]]
                  ELSE verdict
    /\ UNCHANGED <<known, raced>>

---------------------------------------------------------------------------
(* The list of PCI devices: scan_pci, pci_rule, the group and the sort.    *)

PciListing(rules) ==
    LET rule == [a \in PciDevices |-> PciRule(rules, PciDesc[a])]
        all  == {a \in PciDevices :
                   /\ rule[a].rule # 0
                   /\ Value(rules[rule[a].rule], "pciIommuSkipIfShared") = TRUE => a \notin Shared}
        before(a, b) == rule[a].order < rule[b].order \/ (rule[a].order = rule[b].order /\ a < b)
        place == [a \in all |-> 1 + Cardinality({b \in all : before(b, a)})]
    IN  [i \in 1..Cardinality(all) |->
            LET a == CHOOSE x \in all : place[x] = i IN [address |-> a, rule |-> rule[a].rule]]

PciListings == [c \in Configs |-> PciListing(c.pci)]

\* It shares nothing with the scan of the USB devices: one follows the other.
ListPci ==
    /\ scan.pc = "idle" /\ search[Scanner] = Idle /\ pciList' = PciListings[config]
    /\ UNCHANGED <<config, host, scan, since, judging>>

---------------------------------------------------------------------------

Init ==
    /\ config \in Configs
    /\ present = Devices /\ mounted = {} /\ anonymous = {} /\ mapped = {} /\ uses = 0
    /\ bound = [d \in Devices |-> {}]
    /\ scan = NoScan /\ since = NoUse
    /\ search = [k \in Askers |-> Idle]
    /\ known = [m \in Modaliases |-> None] /\ raced = {}
    /\ verdict = [d \in Devices |-> None]
    /\ pciList = <<>>

Host == \/ \E b \in Blocks : Mount(b) \/ Unmount(b) \/ Map(b) \/ Unmap(b)
        \/ \E d \in Devices : Plug(d) \/ Unplug(d) \/ Rebind(d)

Search == \E k \in Askers :
             \/ ListUsb(k)
             \/ \E d \in Devices : LookUp(k, d) \/ Learn(k, d) \/ Judge(k, d)

Next == \/ Host \/ ScanStart \/ ScanNext \/ ScanResolve \/ ScanBlock \/ ScanDecide
        \/ Excluded \/ Offered \/ Search \/ ListPci

Spec == Init /\ [][Next]_vars
---------------------------------------------------------------------------
(* Properties.                                                             *)

Bindable == UNION {Drivers[d] : d \in Devices}

\* The types of the state; a scan looks at one device at a time, knows only
\* blocks that were there when it began to read them, and the host's uses are
\* such that a disk has one user.
TypeOK ==
    /\ config \in Configs
    /\ present \subseteq Devices /\ mounted \subseteq Blocks /\ anonymous \subseteq mounted
    /\ mapped \subseteq {b \in Blocks : Parts[b] # {}}
    /\ \A b \in mapped : \A s \in Parts[b] : Holders(s) = {b} /\ s \notin mounted
    /\ scan.pc \in {"idle", "next", "resolve", "blocks", "excluded", "offered"}
    /\ scan.todo \subseteq DOMAIN Order
    /\ (scan.dev = None) <=> scan.pc \in {"idle", "next"}
    /\ scan.dev # None => scan.dev \in Devices
    /\ scan.unread \cup scan.active \cup DOMAIN scan.read \subseteq Blocks
    /\ scan.unread \cap DOMAIN scan.read = {}
    /\ bound \in [Devices -> SUBSET Bindable]
    /\ \A k \in Askers : /\ DOMAIN search[k].left \subseteq Devices
                         /\ DOMAIN search[k].answers \subseteq Places(config.usb)
    /\ known \in [Modaliases -> {None} \cup SUBSET UNION {Modules[m] : m \in Modaliases}]
    /\ raced \subseteq Modaliases
    /\ verdict \in [Devices -> {None} \cup [rule : 0..Len(config.usb), drivers : SUBSET Bindable]]
    /\ uses \in 0..MaxUses

\* The scan reads the mounts, then one block device after the other, while the
\* host mounts, maps and lets go of them.  It still never offers a device that
\* a mount under its own number, or a virtual device, has used all the while, be
\* it through layers of virtual devices, and leaves out none that nothing of the
\* kind has used.  (A file system that shows a number of its own is missed if it
\* lies right on the device's disk: see the README.)
StorageSpared ==
    /\ scan.pc = "offered" => since.always = {}
    /\ scan.pc = "excluded" => ~since.never

\* What a selector says of a device, key by key: it names the device if it
\* states what the device is known to be.
Off(node) == IF "disable" \in DOMAIN node THEN node.disable = TRUE
             ELSE "enable" \in DOMAIN node /\ node.enable = FALSE
Says(s, d, keys) == \A k \in keys : Stated(s, k) /\ s[k] # Bad /\ s[k] = d[k]
Names(s, d, modules) ==
    LET stated == {k \in DOMAIN s : s[k] # Bad}
        interface(i) == [interfaceClass |-> i.class, interfaceSubclass |-> i.subclass]
        ofClass(i) == Says(s, interface(i), {"interfaceClass"} \cup ({"interfaceSubclass"} \cap stated))
    IN  /\ ~Off(s)
        /\ "removable" \in stated => d.removable \in s.removable
        /\ \/ Says(s, d, {"vendorId", "productId"}) \/ Says(s, d, {"bus", "port"})
           \/ "vendorName" \in stated /\ d.vendorName \in s.vendorName
           \/ /\ Says(s, d, {"deviceClass"})
              /\ Says(s, d, {"deviceSubclass"} \cap stated)
           \/ ~Says(s, d, {"deviceClass"}) /\ \E i \in d.interfaces : ofClass(i)
           \/ /\ "driverPath" \in stated /\ (d.drivers \cup modules) \cap s.driverPath # {}
              /\ \A i \in d.interfaces : i.class \in Vague

\* A device's verdict is the first rule that is on, names a VM, allows the
\* device and does not deny it, by the drivers the scan saw, by what the cache
\* says of its modules at any later time, and never by what is missing: however
\* many tasks look things up and ask at once, and whether modprobe fails, as
\* long as no two of them asked at once and were answered differently.  (Not so
\* for a driverPath selector that is switched off or limited to removable
\* devices, and for one whose bus or port is malformed: see the README.)
Plain(s) == /\ "driverPath" \in DOMAIN s => {"disable", "enable", "removable"} \cap DOMAIN s = {}
            /\ \A k \in {"bus", "port"} \cap DOMAIN s : s[k] # Bad

Cached(cache, m) == IF cache[m] = None THEN {} ELSE cache[m]

UsbRuleChosen ==
    LET Wants(r, d) ==
            LET named(key) == \E i \in DOMAIN Entries(r, key) :
                                  Names(r[key][i], Seen(d, verdict[d].drivers),
                                        Cached(known, Modalias[d]))
            IN  /\ ~Off(r)
                /\ ("targetVm" \in DOMAIN r /\ r.targetVm # Bad) \/ Entries(r, "allowedVms") # <<>>
                /\ named("allow") /\ ~named("deny")
        plain == \A i \in DOMAIN config.usb : \A key \in {"allow", "deny"} :
                    \A j \in DOMAIN Entries(config.usb[i], key) : Plain(config.usb[i][key][j])
    IN  \A d \in Devices :
            verdict[d] # None /\ Modalias[d] \notin raced /\ plain =>
                /\ verdict[d].rule # 0 => Wants(config.usb[verdict[d].rule], d)
                /\ \A i \in DOMAIN config.usb :
                        Wants(config.usb[i], d) => verdict[d].rule \in 1..i

\* The PCI devices of a list come in the order of the rules and, within a rule,
\* of the entries that allow them, except that a device which an earlier rule
\* allows and denies may come before its turn; every device is there once.
PciListed ==
    LET rules == config.pci
        allows(i, a) == FirstMatch(Entries(rules[i], "allow"), PciDesc[a])
    IN  \A x, y \in DOMAIN pciList :
            LET p == pciList[x]  q == pciList[y] IN
            /\ x # y => p.address # q.address
            /\ (p.rule < q.rule /\ \A i \in 1..p.rule :
                    Enabled(rules[i]) => allows(i, q.address) = 0) => x < y
            /\ (p.rule = q.rule /\ \A i \in 1..(p.rule - 1) :
                    Enabled(rules[i]) => allows(i, p.address) = 0 /\ allows(i, q.address) = 0) =>
                (allows(p.rule, p.address) < allows(q.rule, q.address) => x < y)
=============================================================================
