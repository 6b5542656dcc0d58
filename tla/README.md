# A TLA+ model of ghaf-device-manager

`ghaf-device-manager` assigns USB and PCI devices of a Ghaf host to Crosvm
virtual machines. This directory holds TLA+ modules that model its core,
configurations that check them with TLC on small instances, and proofs checked
by TLAPS for all instances. Paths such as `manager.rs` are under `src/src/`.

## The system

| Component | State | Operations | Module |
|---|---|---|---|
| USB attachment (`manager.rs`) | `usb_vms`, `observed_usb`, `pending_usb_selection`, `deferred`; persistent: `disconnected`, `selected_vms`, `crosvm_usb_ports` | attach, detach (also permanent), suspend, resume, observe, reconcile | `UsbAttachment` |
| PCI attachment (`manager.rs`) | `pci_vms`, `observed_pci`, persistent `disconnected`; driver of each device in sysfs | attach, detach, suspend, resume, observe, `vmm_args` | `PciAttachment` |
| USB host driver gate and authorization (`usb_gate.rs`, `manager.rs`) | `drivers_autoprobe`, `authorized_default`, `authorized` and the drivers in sysfs; `usb_routing` | close and open the gate, the gate pass, the authorization guard, deauthorization | `UsbGate` |
| Daemon main loop (`bin/ghaf-device-manager.rs`) | udev socket, channel, retry delay | monitor, reconcile task, shutdown | `ReconcileLoop` |
| State file (`state.rs`) | the file and its temporary sibling | load, save | `StateFile`, `DurableStore` |
| Crosvm control client (`crosvm.rs`) | none (a child process per command) | usb list/attach/detach, vfio list/add/remove, `bind_vfio` | inside the modules that call it |
| API server, protocol (`api.rs`, `protocol.rs`) | the semaphore, the notification channel, per-connection subscription | serve, connection, `handle_line`, notify | `ApiServer` |
| Command line (`client.rs`, `bin/ghaf-device.rs`) | the attempt and its deadline | request, `request_with_retry`, `listen` | the clients of `ApiServer` |
| Rules and selectors (`config.rs`) | the cache of modprobe's answers | `usb_rule`, `pci_rule`, selectors, `module_paths` | `Rules`, `Discovery` |
| Discovery (`device.rs`) | none (reads sysfs and `/proc`) | `scan_usb`, `usb_backs_host_storage`, `scan_pci` | `Discovery` |
| ACPI tables, evdev arguments, `unix_ids.rs` | none | parsing, formatting, `chown` | not modelled |

How they interact. Clients call the API, and the main loop calls `reconcile`,
which runs the gate pass, `observe`, `resume_pci`, `resume_usb` and the
deauthorization. Attaches, detaches, suspends and resumes hold the `operation`
mutex for a whole request. `observe`, the gate pass, the deauthorization,
`vmm_args` and the reopening of the gate do not: they interleave with a request
at each of its awaits, and with each other where they run in different tasks.
Crosvm, the kernel and the VMs' services change under all of them. State in
memory is lost in a crash; the persistent part is saved on every change.

What is hard here, and what would be wrong (`PROJECT.json` lists each hazard at
its line): requests racing the lock-free halves of a pass; sysfs and Crosvm
lists that are stale by the time they are acted on; commands that time out
although they took effect; partial failures inside a group, a commit or a save;
identities (vid:pid:serial) shared by two devices; records that start empty
after a restart while the VMs keep what they hold; wake-ups lost between an
edge-triggered socket, a bounded channel and a 30 second timer; permits that
must come back on every way out of a connection; notifications that race the
answer to the request for them, and clients too slow to read them; a scan that
reads mounts and block devices one after the other while the host uses them;
attributes that are missing, malformed or unreadable and must not make a rule
match.

## The modules and the code

A step of a model is the code between two awaits on a Crosvm command, two
acquisitions of the state lock, or two iterations of a loop over devices.
`PROJECT.json` maps every definition to its lines.

**`UsbAttachment`.** `op` is the request that holds the operation lock, `at` its
call of `attach_one_usb` or `detach_one_usb`: `BeginAttach` (choice and check of
the VM), with authorization `Preflight` (generation and `usb list`),
`DetachRead`/`DetachList`/`DetachCmd`/`Forget` (a detach, by itself or as the
first half of a move), `Claim` (configure, release host drivers, known binding),
`List` (free, stale or reusable port, by a new list or by that of the preflight,
which may be as old as the detach of a move), `AttachCmd`, `StaleDetach`, `Commit`
(memory and the three saves), `Announce` (the event, sent after the state lock is
released). `rec` is `observe` with the resume after it. `usbVms`, `mem`, `disk`,
`observed`, `pending` and `deferred` are the daemon's state of the same names;
`held` is what each Crosvm really has at each port, `view` what a listener
believes and `promised` the permanent detaches that were acknowledged. The last
two are history: no action reads them. A device node is the number of its plug
event. Every Crosvm command can be refused, or take effect and not be answered;
every save can fail; the daemon can die anywhere, also between the saves of
`Commit`.

**`PciAttachment`.** The same frame for PCI. An attach works through an IOMMU
group: `Preflight` (list, group), `BindVfio` per member, `Compare` (is it news),
`VfioAdd` per member, `Record`; a detach is `VfioRemove` per member and `Forget`.
`VmmArgs` is the start script's request, which binds groups without the lock and
may end with an error at any member of any group, the groups before it bound;
`VmStart` boots the VM with the devices it named. `driver` is the driver in
sysfs. `leaving` is what a guest was asked to give up and has not when the polls of
`vfio_remove` end; it lets go at any later moment (`LetGo`). The other members of a
group follow the rule's `pciIommuAddAll`.

**`UsbGate`.** `main` starts and stops the daemon (`MainStart`, `MainOpen`,
`MainProbe`, `MainGivesUp`, `MainExit`), `rec` runs the gate pass device by device
(`RecGate`, `RecConfigure`, `RecRoute`, `RecNames`, `RecRead`, `RecSettle`), observe,
resume and the deauthorization, `op` is a request's attach or detach as far as
sysfs is concerned (`Authorize`, `OpConfigure`, `OpRelease`, `OpCrosvm`,
`OpRollback`, `OpCommit`, `OpDetach`, `OpForget`). The gate reads a driver in
`RecRead` and acts on what it read in `RecSettle`; anything may happen between.
Every listing of sysfs (the scan of each half of a pass and of the reopening, the
interfaces of a device) and every write of an authorization or a driver may fail,
and then happens what the code does there: the start, the configuring loop, the
settling loop, the reopening, the guard and a detach log it and go on with the next
device; the gate and observe end; the deauthorization and an attach err. There is
one VM, and a device has one interface and a fixed slot; ports and moves are in
`UsbAttachment`. `taken` (what a pass took off a host driver), `excused` (what was
authorized before the daemon started, or stayed so because a write that was to
take it back failed) and `main.lost` (what the reopening failed on) are history.

**`ReconcileLoop`.** The monitor with tokio's readiness (set on an edge, cleared
only if nothing arrived since the guard was made), the channel, the reconcile
task with its two delays, and `main` with the initial pass, the `select!`, the
abort and the reopening of the gate.

**`StateFile`, `DurableStore`.** The steps of `State::save` (truncate, write,
sync, rename), with errors, kills and power losses; and the store that
`DeviceManager` takes it for, which it implements under the mapping `stored <-
Loaded(file)`, `disk <- Loaded(durable)`.

**`ApiServer`.** `task` is the accept loop of a transport (`Begin`, `Accept`,
`AcceptFails`, `Backoff`), which takes a permit before it accepts; `free` and
`waiters` are the semaphore, which is fair. `conn` is a connection: `ReadLine` and
`Reply` are a request and its answer, `Recv` and `Push` a notification taken from
the channel and sent, `EndOfFile` the end. All sends wait for room in the socket
(`out`), and a connection that waits does nothing else. `client` is a command:
`Connect`, `ReadLines`, `HungUp`, and `AttemptFails`, which is where `vmm args`
comes back for another attempt. A client may give up at any moment (`Deadline`),
an accept may err and the daemon may be killed (`Crash`, `Start`). What a request
does is in the attachment modules; here a handler takes a while and ends.

**`Rules`.** The rule of a device as `config.rs` finds it, in pure operators: a
rule or selector is the record of the keys it has, `Bad` stands for a value that
does not parse and `None` for an attribute that could not be read, and the
operators tell "has the key" from "has a value" where the code does. A search is
given answers for the places at which it asks which modules a device would load,
and `Open` says which questions it has yet to ask.

**`Discovery`.** `scan` is the `scan_usb` of the reconcile task, entry by entry
(`ScanNext`, `ScanResolve`, `ScanBlock` per block device, `ScanDecide`, `Excluded` or
`Offered`); `todo` holds the positions of the directory that are still to be read.
A mount counts by the number that mountinfo shows: `anonymous` are the mounts whose
number is none of a block device's, as with btrfs, and `ActiveStorage` does not see
them. The rules of what was found are looked up device by device and question by
question: `LookUp` reads the cache of `module_paths` and lets go of its lock, `Learn`
is what modprobe and modinfo say and the insert, `Judge` the result. `search[k]` is
that of task `k`, and other tasks, which answer `usb list`, do the same at the same
time (`ListUsb`). The host mounts, unmounts, maps, unmaps, plugs and unplugs, and
the drivers bound to a device change (`Rebind`), at any step. `since` (what has shown
a use of the device at hand from the first read on) and `raced` (modaliases for
which two tasks asked at once and were answered differently) are history. `ListPci`
is `DeviceManager::pci_devices`.

`MCUsbAttachment`, `MCUsbGate`, `MCPciAttachment`, `MCStateFile`, `MCApiServer` and
`MCDiscovery` hold the instances; `UsbAttachmentProofs`, `PciAttachmentProofs`,
`UsbGateProofs`, `ReconcileLoopProofs`, `StateFileProofs`, `ApiServerProofs`,
`RulesProofs` and `DiscoveryProofs` the proofs.
Definitions named `F_...` are wrong variants of their namesakes, kept to show
which property notices the error.

## What the runs check

| Run | Properties | Instance |
|---|---|---|
| `usb_faults` | `TypeOK`, `HeldAllowed`, `ListenerView`, `StaysDetached` | one device, two slots with different rules, two VMs; any one fault; one request; authorization on, so that attaches begin with a preflight |
| `usb_calm` | `Exclusive`, `SuspendReleases` | two devices at two slots, two VMs, a stop or start of each, three requests; no faults, and nothing overlaps; authorization off. VMs, slots and devices are interchangeable (`SYMMETRY`) |
| `usb_converge` | `QuietPassSettles`, `Converges` | a device and a hub of one identity, two VMs, three ports, one fault, one request, plugging at any moment; authorization on |
| `pci` | `TypeOK`, `GroupQuarantined`, `PciStaysDetached`, `PciNews`, `PciQuietPassSettles`, `PciConverges` | a device that takes an unrouted one along, a device that is hot-plugged, a VM that boots twice; any one fault; one request |
| `gate_calm` | `NoStrayAuthorization`, `Apart`, `AuthorizationSettles`, `StockAfterStop` | authorization on; a routed device, a hub and a device the rules leave to the host; two starts, one fault of any kind (a refusal, a lost answer, a failed save, a failed write or listing of sysfs, a kill), one request, one plug |
| `gate_passes` | `TypeOK`, `NoBindCycle`, `AttachedConfigured`, `GateSettles` | two devices of one identity, the second with descriptors that may be unreadable; everything overlaps; no faults |
| `loop` | `TypeOK`, `NothingWaits`, `GateComesLast`, `EventsAnswered`, `StopsWhenAsked`, `StopsWhenDeaf` | a channel of two, three events in the socket, every fault |
| `state_file` | `TypeOK`, `NeverDiscarded`, `AtomicSave` | three states, any number of failures, kills and power losses |
| `api` | `TypeOK`, `PermitsAccounted`, `AnswerFirst`, `FeedComplete`, `RequestsSettle` | a listener and a retrying command on one transport, a rejected client on another; three permits, a channel and a socket of one place, two notifications, one crash or failing accept |
| `discovery` | `TypeOK`, `StorageSpared`, `UsbRuleChosen`, `PciListed` | a hub with a modem whose disk lies under two layers of virtual block devices, and the modem's twin, of one modalias and told only by their drivers or modules; two configurations with every kind of selector; the pass and a client whose list has the twin; three mounts, maps, plugs, unplugs, rebinds or lists |
| `gate_twins` | `VerdictsRemembered` violated | two devices of one identity, the first known by its `driverPath` alone; no faults, nothing overlaps |
| `gate_hub` | `HubsSpared` violated | one hub plugged in behind the closed gate |

Deadlock is checked except in `loop`, where the daemon ends, and in `api`, where
the commands do.

The bounds. Counters bound only the environment (`MaxPlugs`, `MaxGens`,
`MaxStarts`, `MaxFaults`, `MaxRequests`, `MaxQueue`); passes of the reconcile loop
are not counted, so each run contains pass after pass over whatever the bounded
events left behind. Two slots (or two devices at one slot), two VMs and one
request against a running pass is the smallest setting with a move, a shared
identity and a race, and a fault at every point of it; where nothing overlaps,
three requests are an attach, a move and a suspend, or an attach after a replug. A
second fault multiplies the states without a new interleaving: the code keeps no
memory of a fault other than the state it left. `MaxPlugs = 2` lets a device leave
and come back, and `MaxPlugs` of `PciAttachment` was raised to 2 in a trial of the
safety properties. The channel has two places instead of eight: full, partly full
and empty all occur. In `api` three permits are one for each accept loop and one
to fight over, or all of them with connections; with one place in the channel and
two notifications a listener lags, and with one place in the socket it blocks its
connection. In `discovery` three events are what it takes to map a partition, map
the map and mount the upper one while one device is looked at, or to let two tasks
ask for one modalias with a driver bound between them. In `gate_calm` the one plug
lets a device come while the gate is closed, or leave and come back.

`Calm`. `Exclusive`, `SuspendReleases` and `Apart` are not promises of the code in
every interleaving. They are checked where requests, passes, hot-plug, VM starts
and stops, Crosvm's freeing of dead ports and (in `UsbGate`) gate passes, crashes
and stops take turns, and where the daemon is stopped only when what the VM holds
is on record. TLC finds each violated without that:
* two VMs hold a device when a move follows a restart, whose records are empty; or
  when the port that an attach is about to free is freed by Crosvm, or by a pass,
  just before: the detach then errs after the attach has succeeded, the device is
  with a VM that no record names, and the next attach gives it to another;
* a suspend leaves a device with a VM that no record names for the same reasons;
* a device with a driver is in a VM when a client attaches a device that is
  marked as the host's while a gate pass runs, when a crash between an attach and
  its record is followed by a permanent detach, or when the gate is reopened after
  a restart whose first pass has not attached yet, or in a stop that aborts an
  attach between Crosvm's answer and the record.

### Fairness

Weak fairness of the daemon's own tasks: tokio runs every ready task, every
Crosvm command has a ten second timeout, and the loop wakes at least every 30
seconds. `UsbAttachment` also assumes that Crosvm frees the ports of devices
that have gone. In `ReconcileLoop` the timers get no fairness, so that
`EventsAnswered` is owed to the events alone. In `ApiServer` handlers end, since
every command they run has a timeout, systemd starts the daemon again, and
requests read their answer; a listener need not read, ever, and notifications need
not come. Nothing is assumed of plug events, VMs, signals or deadlines.

### What the violations show

* `VerdictsRemembered`: the gate remembers one verdict per vendor, product and
  serial number, and of two such devices the one scanned last decides. When that
  one matches no rule, the verdict of a device known by its `driverPath` is gone
  while it stays plugged in, and a pass that cannot read its descriptors binds the
  driver an earlier pass took off (`src/README.md:78`). In the other order the
  verdict stays: `NoBindCycle` holds for every device but those that such a twin
  can overrule.
* `HubsSpared`: a hub is recognised by its hub driver, which a hub plugged in
  behind the gate does not have when the first attach looks (`src/README.md:82`).

### Other differences from the documentation

These have no run of their own, but the properties that touch them say that they
leave them out.
* "Devices a VM still holds are left out of that" (`src/README.md:62`, the
  reopening of the gate). `usb_held_by_vms` takes them from `usb_vms`, which is
  empty after a restart until a pass has attached, lacks the device of an attach
  that the stop aborts after Crosvm's answer, and counts as empty when the scan of
  the bus fails (`manager.rs:287-289`), as it does for a device that is being
  unplugged. `Calm` excludes the first two and `Apart` exempts the third.
* "Devices backing active host storage are always excluded" (`src/README.md:111`).
  A file system whose mount shows an anonymous device number, as btrfs does, is
  not seen if it lies right on the device's disk (`device.rs:446-448`): such a stick
  is offered while it is mounted. `StorageSpared` is about the mounts that show
  their block device's number and about virtual block devices. Also, a use that
  begins after the mounts were read is not seen, and the list is used after the
  scan.
* "A device a VM already holds through `usbfs` is left alone" (`src/README.md:53`).
  The gate reads the driver and unbinds what is bound when it writes
  (`manager.rs:374-378`): if an attach has released the host driver in between and
  the VM has claimed the interface, that is `usbfs`. The model has both steps; no
  property excludes the outcome.

### Further observations

Not findings, since no document says otherwise, but worth knowing; each was seen
with TLC or follows from the model.
* `Converges` needs one port more than races and lost answers can leak: the
  daemon never detaches a port it has no binding for.
* A device that matches only through its bound driver can be released by an
  attach that then fails. The gate does not remember it, and the next pass gives
  it its driver back, again and again while the VM is stopped.
* Outside the calm system `NoStrayAuthorization` fails when a device is unplugged
  and plugged in again under a request whose attach then reuses the dead port.
* A gate pass does give its host driver back to a device that an earlier pass
  took, if a request has marked it as the host's meanwhile; `NoBindCycle` lets go
  of marked devices.
* A device whose deauthorization fails, in the guard of an attach or after a
  detach, stays authorized until `deauthorizeUnmatched`, if it is on, comes to it;
  `NoStrayAuthorization` exempts it. A device whose probe fails while the gate is
  reopened stays without a driver; `StockAfterStop` exempts it. If
  `drivers_autoprobe` itself cannot be written, the reopening ends there.
* A VM boots with PCI devices that are marked as permanently disconnected, and
  until the next pass `suspend_pci` does not see them.
* With two `pciIommuAddAll` rules in one group, detaching one device for good
  lasts until the pass that resumes the other.
* A PCI device that is unplugged when its group is read and back when it is
  bound counts as having no group; its siblings are then not bound.
* A failed state save after a successful attach loses the event: the next pass
  finds the record in place and announces nothing. `ListenerView` exempts it.
* A listener keeps a device that has gone if `usb_disconnected` overtakes the
  `usb_attached` of the same node; `ListenerView` is about devices that are there.
* `observe` compares names, so a device that re-enumerates between two passes is
  not seen to have gone, and the attach may reuse the dead port that Crosvm still
  lists.
* `Apart` needs its single request where saves fail: after a permanent detach, an
  attach whose save fails leaves the mark on a device a VM holds, and the next
  gate pass gives it its host driver.
* The permits. Every accept loop holds one while it waits for a client, also
  during the backoff, so the 64 are not all for connections; connections have no
  idle timeout. `RequestsSettle` is checked with a permit to spare: with idle
  listeners on all of them TLC finds a request that is never served.
* A client's deadline can strike while its request is still being executed; the
  daemon completes it. `request_with_retry` retries errors of the connection, not
  an answer that says `failed`.
* A listener that lags is not told.
* The `driverPath` fallback (`config.rs:309-340`) does not look at a selector's
  `disable`, `enable` or `removable`. A malformed `bus` or `port` equals one the
  device does not have (a root hub has no port), and a malformed PCI identifier
  equals one that could not be read. `UsbRuleChosen` exempts the selectors of the
  first two kinds. `disable` wins over `enable`, even when it is malformed.
* A failed `modprobe` is cached like an answer, for the daemon's life. The insert
  is unconditional: of two tasks that ask for one modalias at once the one that
  answers last decides what stays, and their lists may differ meanwhile.
  `UsbRuleChosen` exempts such a modalias.
* A device is judged by the drivers that were bound when it was scanned; the gate
  may have taken them off, or bound others, by the time the rule is found.
* The order of a PCI device counts the entries of earlier rules, but only up to
  the match in a rule that then denies it, so such devices may be listed before
  those of that rule; `PciListed` exempts them.
* With authorization an attach chooses the port by the list and the generation of
  its preflight; a move detaches in between.
* A device that vanishes between its directory entry and `canonicalize` ends the
  scan with an error.

## What is proved

All theorems hold for every value of the constants that satisfies the module's
`ConstantsAssumption`: any number of devices, slots, VMs, ports, requests, plug
events and faults. `Rules` and `Discovery` further assume that `None`, `Bad` and
the booleans differ (`ValuesAssumption`) and that rules and their entries are
JSON arrays of objects (`ConfigsAssumption`), which is what the parser makes and
`string_list` and `as_array` filter. Some theorems have a hypothesis on the
options or the environment; it is named, and TLC finds the property violated
where it was tried without it. `UsbAttachment` also assumes that `None` is no
binding (`BindingAssumption`), as `Option` has it.

**`UsbAttachmentProofs`**: `TypeCorrect` (`TypeOK`), `AttachAllowed`
(`HeldAllowed`), `DetachStands` (`StaysDetached`). None is inductive alone. What a
VM gets at `AttachCmd` was checked many steps earlier, so `IInv` carries the check
along: `ScanOK` (the scan of a request holds routed devices only), `FrameOK` (the
VM of an attach is allowed by the rule, and no promise stands against the
device), `NodesOK` (a device node names one plug event, so the device that is
attached is the one that was scanned), `HubOK` (past the claim it is no hub while
it is plugged in), `MarksOK` (acknowledged marks are in memory and, with
persistency, on disk, which is what a crash falls back on), and `RecOK` (observe
touches only what it had observed). The proof has a lemma per conjunct and per
group of actions.

Four more theorems of `UsbAttachment` need invariants of their own on top of `IInv`:

| Theorem | Property | Under |
|---|---|---|
| `ListenersInStep` | `ListenerView` | every interleaving and fault |
| `QuietPasses` | `QuietPassSettles` | every interleaving and fault |
| `OneHolder` | `Exclusive` | `Undisturbed`: `Calm` and no faults |
| `SuspendStands` | `SuspendReleases` | `Undisturbed` |

* `ListenersInStep` rests on `LInv`. `SeenOK`: a device node names one slot for
  ever, so what a running pass gives up (`Gone`) is not on the bus and its late
  `usb_disconnected` cannot speak of a device that is plugged in. `CallOK`: what
  `usb_vms` says of the device of a call is nothing or the VM of the attach, and
  exactly that VM if the attach is not announced. `FreshOK`: nothing is said of
  nodes to come. `ViewOK`: what was said is what is on record, but for the one
  announcement that is still to go out.
* `QuietPasses` rests on `QInv`: the resume of a pass wants every device
  (`PassOK`); as long as it has neither failed nor deferred, the devices it has
  been through are settled, and the call in hand is about the VM the rule and the
  selection name at that moment (`QuietOK`). A hot-plug, a crash or the attach of
  another device leaves a settled device settled (`SettledKept`, `OthersSettled`);
  devices that share an identity are the exception `Settled` makes.
* `OneHolder` and `SuspendStands` rest on `CalmState`: what is held is on the bus
  and its VM is up (`AliveOK`); who holds a device is on record with port and
  generation, or is the call between its attach and its commit (`RecordOK`); who
  can still hold the device of a call, for each place in it (`HolderOK`: nobody at
  `attach` and at `forget`); what the call has read still holds (`ReadOK`); and
  what a suspend has been through is released (`SuspendOK`, `Released`). The
  proof needs that no binding equals `None` (`BindingAssumption`).

**`PciAttachmentProofs`**: `TypeCorrect` (`TypeOK`), `Quarantined`
(`GroupQuarantined`) and, where no `pciIommuAddAll` rule takes a routed device
along (`OneRouted`), `StaysDetached` (`PciStaysDetached`). A VM gets a device long
after its group was bound, so `IInv` carries the bind along: `BoundOK` (what is on
a command line, or in the set of a call that has reached vfio_add, is quarantined,
and during the binds every member is still to come or bound), `CallOK` (that set
is the device and its group, the request is of the kind that makes such calls,
and no promise stands against the device of an attach), `FixedOK` (fixed devices
are there, so no group is read too small), `LoopOK` and `MarksOK`. `OneRouted` is
needed: the code gives back a device that another rule takes along (see the
observation above).

`NewsIsNew` (`PciNews`), without hypotheses, rests on `NewsInv`: a running VM has
what no other VM has (`HeldApart`, `DownOK`, by VFIO); what was announced is in its
VM with all that goes along, and on record (`ToldOK`); and an attach, from its
preflight to its records, saw what was announced in the list of live devices, and
handles nothing that is announced with another VM (`NewsOK`, `Free`), so its own
records spoil no other announcement. The group of an announced device does not
change while it is announced: a member that comes or goes ends that.
`QuietPass` (`PciQuietPassSettles`) rests on `PassInv`: `PassOK` and `AimOK` (the
request of a pass resumes routed devices, each call for the VM of its rule and with
all fixed devices that go along) and `QuietOK` (until something fails or is deferred,
all but the device in hand and those to come are settled). It needs `OneRouted`,
since of two devices that take each other along to different VMs the later one takes
over the records, and `WholeGroups`, that a device which comes and goes takes no
fixed device along: unplugged when its group is read and back when it is bound, it
is attached and recorded alone. TLC finds the property violated without either.

**`UsbGateProofs`**: `TypeCorrect` (`TypeOK`), for every interleaving, and

| Theorem | Property | Under |
|---|---|---|
| `TakenStaysFree` | `NoBindCycle` | no hypothesis; the property speaks of the devices that no twin can overrule |
| `AttachesConfigured` | `AttachedConfigured` | `AttachKeepsAuthorization`: no `usbAuthorization`, or no `deauthorizeUnmatched` and no rule that matches a hub |
| `AuthorizationAccounted` | `NoStrayAuthorization` | `Calm` |
| `StockRestored` | `StockAfterStop` | `Calm` |
| `HeldApart` | `Apart` | `Undisturbed`: `Calm`, unique identities, no rule that depends on a `driverPath`, no failing save and no lost answer |

Faults of every kind are among these interleavings, failing listings and writes
included, unless a hypothesis names them. `NoBindCycle` needs to know why a device
was taken: a rule matches it or its identity is in the cache of verdicts
(`TakenOK`), and neither goes away; where another device of that identity is
scanned later and matches no rule the verdict does (`Overruled`), and the code
breaks its promise (`gate_twins`). What an attach gives to Crosvm was configured
several steps earlier, so `ConfigOK` carries it along, with the devices that were
unplugged since (`op.gone`) as the exception; that nothing takes the authorization
back in between is what `AttachKeepsAuthorization` says, since the deauthorization
of a pass takes no lock. `CalmOK` is what `Calm` buys: a request has its daemon to
itself, but for the pass it belongs to. `StrayOK` follows the authorization of the
device at hand (`InHand`) through the guard to Crosvm's answer, or into `excused`
where the write that takes it back fails, `StockOK` the loop that hands the bus
back with the devices it failed on, and `HeldOK` says that what a VM holds has a
binding, is routed and, once its attach is through, not marked; then every pass
routes it, and routed devices are never probed. `gate_calm` and `gate_passes`
check the properties under faults and overlaps beyond some of these hypotheses, in
one instance each.

**`RulesProofs`**: `UsbRuleAnswered` (a search that has nothing left to ask finds
what it would find with any other answers that agree with those it got: what it
never asked for cannot change the rule of a USB device) and `PciOrder` (which of
two PCI devices has the lower order). A sum over earlier rules is recursive:
`Recursion` shows that such a function exists and satisfies its equation, and
`NumbersUpTo` is induction, both over sets of numbers instead of predicates.

**`DiscoveryProofs`**: `TypeCorrect` (`TypeOK`), `UsedSpared` (`StorageSpared`),
`RuleChosen` (`UsbRuleChosen`) and `ListInOrder` (`PciListed`), without further
hypotheses. For storage, `Top(b)` is what can rest on a disk `b` through any
number of layers, the least set closed under "is made of", and `Resting`, which
the code computes in rounds, is shown to reach it (`RestingLeast`: a set grows at
most once per block before it stops). `StackOK` says that what is in use exists,
`SinceOK` that the mounts, which are read first, tell of every disk that is
mounted itself under its own number, and `ReadOK` that a disk under a use that
lasts was read with a holder or is still to be read; so a lasting use is always
seen, although no two reads belong to one state of the host. For rules, `SearchOK`
says that what a task has been told of the device in hand is what the cache holds
*now*, unless two tasks were answered differently, and `VerdictOK` that a verdict
is what a finished search finds by such answers (`Decided`); by `UsbRuleAnswered`
it is then the rule by what the cache says at any later time, whatever is learnt
meanwhile. `WaitOK` keeps the scan and the search of the reconcile task apart.

**`ReconcileLoopProofs`**: `TypeCorrect` (`TypeOK`), `NoLostWakeup`
(`NothingWaits`) and `GateLast` (`GateComesLast`). The invariant says of every
event where its word is: unread with the socket ready, found by the monitor, in
the channel, or answered by a pass that has yet to scan (`Covered`); and which
delay each stage of the loop can have (`Settled`).

**`StateFileProofs`**: `TypeCorrect` (`TypeOK`), `FileReadable` (`NeverDiscarded`)
and `SaveIsAtomic` (`AtomicSave`, the refinement of `DurableStore`). The invariant
adds that a temporary file is complete once it is written and on the disk once it
is synced, and that a dead daemon is in no step of a save.

**`ApiServerProofs`**: `TypeCorrect` (`TypeOK`), `NoPermitLost`
(`PermitsAccounted`), `AnswersComeFirst` (`AnswerFirst`) and `FeedsComplete`
(`FeedComplete`), for any number of transports, clients, permits, attempts and
notifications and any size of the channel and the sockets. The permits need the
line of waiting tasks: a task stands in it once and only while it is queued
(`QueueOK`), so that a permit handed to its head is counted once (`Balanced`); and
that a connection in a backlog has not begun and is there once (`LinkOK`), or it
could take a second permit. What a client reads needs what its connection is
about to send: `FeedOK` says for each state of a connection what has been handed
over (nothing before the answer, and then exactly the notifications up to the
cursor, less the one that is being sent), and `LinkOK` that a new attempt begins
with a connection nothing has been said on.

Only model-checked. The liveness properties (`Converges`, `PciConverges`,
`GateSettles`, `AuthorizationSettles`, `EventsAnswered`, `StopsWhenAsked`,
`StopsWhenDeaf`, `RequestsSettle`), which the prover does not handle. Every other
property of the passing runs is stated by a theorem. That `Resting` and the sums
of `Rules` are what a `RECURSIVE` definition would give is not a question here:
they are recursive functions.

## What is left out

The configuration is constant and names known VMs only; loading and validating it
is not modelled. Device nodes are not reused (the kernel counts to 127 first).
Polls and parsing inside a Crosvm command are one step, but for the late effect of
a removal. The writes of `drivers_autoprobe` and of a root hub's
`authorized_default` at the start and in a pass do not fail in the model (the code
logs such a failure, or ends the gate with it); that of the reopening may. Where a
scan of the bus fails is modelled in `UsbGate`; in `UsbAttachment` the commands of
observe fail but no scan does, and in `PciAttachment` observe fails as a whole, but
`resume_pci` always reads the bus. In `UsbGate` an attach asks for the ports once,
where it uses them; `UsbAttachment` has the order of the preflight. The
sysfs writes of `vmm_args` do not interleave with those of an attach. The
identifiers of PCI selectors are in `Rules`, but no property says which devices
they should match, and two rules in one IOMMU group are not checked. Of the API,
the JSON of a line and the ownership of the socket are left out, and malformed
lines are answered like others. In `Discovery` a device has one modalias, the scans
of tasks other than the reconcile task are taken as the list they give, the
descriptors of a device are given, a use of a disk is a mount or a map, a class
has two of its three parts and a pattern is the set of texts it matches. The ACPI
and evdev arguments of `vmm_args` are text made from text, and `unix_ids.rs` looks
up numbers and calls `chown`: there is no state to model.

## Plan

1. Prove: `OneHolder`, `SuspendStands` and the gate's `HeldApart` under weaker
   hypotheses than `Undisturbed`, with the faults that do not break them.
2. Extend: two routed devices in one IOMMU group; a composition of
   `UsbAttachment` with `StateFile`.
