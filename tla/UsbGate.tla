------------------------------ MODULE UsbGate ------------------------------
(***************************************************************************)
(* Which USB devices host drivers may bind to, and which the kernel        *)
(* authorizes (src/src/usb_gate.rs and its callers in src/src/manager.rs). *)
(* The daemon turns drivers_autoprobe off, binds drivers to what no rule   *)
(* routes, takes them off what a rule routes, and hands binding back when  *)
(* it stops.  With usbAuthorization it also authorizes a device around its *)
(* attach to a VM.                                                         *)
(*                                                                         *)
(* Three tasks share sysfs: `main' (start, stop, reopening the gate),      *)
(* `rec' (the reconcile pass: gate, observe, resume, deauthorization) and  *)
(* `op', whoever holds the operation lock.  The gate and the               *)
(* deauthorization take no operation lock.  A step is one iteration of a   *)
(* loop over devices, or the code of an attach up to its next await or     *)
(* sysfs write; where the gate reads a driver and then acts on what it     *)
(* read, these are two steps.                                              *)
(*                                                                         *)
(* Every listing and every write of an authorization or a driver can fail. *)
(* What the code does then differs from place to place: it ends a loop, a  *)
(* half of the pass or an attach, or is logged and passed over.            *)
(*                                                                         *)
(* Abstractions.  A device always uses the same slot and has one           *)
(* interface.  There is one VM; choosing it and finding its ports is the   *)
(* subject of UsbAttachment.  Some rule routes USB, so the gate is used.   *)
(* Devices that back host storage, which scan_usb leaves out, are not      *)
(* modelled.                                                               *)
(***************************************************************************)
EXTENDS Integers, FiniteSets

CONSTANTS
    Devices,
    Ids, Id,           \* Id[d]: the persistent id of device d
    Rank,              \* the order of the devices in a scan, by sysfs name
    RoutedDevices,     \* devices a rule matches
    Fallback,          \* devices a driverPath rule matches, through their
                       \* descriptors when readable, else a bound driver
    Hubs,              \* devices of the hub class
    HostAllow,         \* devices matched by usbAuthorization.hostAllow
    Authorization,     \* usbAuthorization is enabled
    DeauthorizeUnmatched,
    Faults,            \* the faults that may strike: see FaultKinds
    Calm,              \* requests, gate passes, stops, crashes and unplugging do
                       \* not overlap, and a stop finds what the VM holds on record
    None,
    MaxPlugs, MaxFaults, MaxRequests, MaxStarts  \* bounds of the environment

\* Crosvm refuses, or its answer is lost; a state save, a sysfs write or a
\* listing of sysfs fails; the daemon dies.
FaultKinds == {"refuse", "lost", "save", "sysfs", "scan", "crash"}

ASSUME ConstantsAssumption ==
    /\ None \notin Devices /\ IsFiniteSet(Devices)
    /\ Id \in [Devices -> Ids] /\ Rank \in [Devices -> Nat]
    /\ RoutedDevices \subseteq Devices /\ Fallback \subseteq Devices
    /\ Hubs \subseteq Devices /\ HostAllow \subseteq Devices
    /\ Authorization \in BOOLEAN /\ DeauthorizeUnmatched \in BOOLEAN
    /\ Faults \subseteq FaultKinds /\ Calm \in BOOLEAN
    /\ MaxPlugs \in Nat /\ MaxFaults \in Nat
    /\ MaxRequests \in Nat /\ MaxStarts \in Nat

VARIABLES
    autoprobe,   \* the bus's drivers_autoprobe
    closed,      \* authorized_default is 0
    present,     \* devices plugged in
    authorized,  \* devices whose authorized attribute is 1
    configured,  \* devices with the generic driver, and so with interfaces
    driver,      \* driver[d]: what is bound to the interface of d
    vmUp,        \* the VM runs
    held,        \* devices the VM has been given
    known,       \* devices whose device node is in State::usb_vms
    ports,       \* devices whose slot has a binding that Crosvm still lists
    marked,      \* ids marked permanently disconnected
    cache,       \* DeviceManager::usb_routing: ids remembered as routed
    main, rec, op,
    taken,       \* devices a gate pass took off their host driver, while none of
                 \* their identity has been marked as the host's
    excused,     \* devices that stay authorized though nothing asks for it: a start of
                 \* the daemon found them so, or the write that takes it back failed
    plugs, faults, requests, starts

kernelVars == <<autoprobe, closed, present, authorized, configured, driver>>
vmVars     == <<vmUp, held>>
stateVars  == <<known, ports, marked>>
counts     == <<plugs, faults, requests, starts>>
vars == <<kernelVars, vmVars, stateVars, cache, main, rec, op, taken, excused, counts>>

Drivers == {"none", "host", "hub", "usbfs"}
MainPcs == {"off", "run", "open", "probe"}
RecPcs  == {"idle", "configure", "route", "names", "settle", "release", "probe", "observe",
            "resume", "deauthorize"}
OpPcs   == {"idle", "next", "authorize", "configure", "release", "crosvm", "rollback",
            "commit", "detach", "forget"}
OpKinds == {"attach", "resume", "detach", "disconnect"}

\* blind: the devices to spare could not be listed.  lost: devices that could
\* not be handed back.
NoMain == [pc |-> "off", spare |-> {}, todo |-> {}, lost |-> {}, blind |-> FALSE]
NoRec  == [pc |-> "idle", todo |-> {}, routed |-> {}, dev |-> None]
NoOp   == [pc |-> "idle", kind |-> "attach", by |-> "api", dev |-> None,
           todo |-> {}, armed |-> FALSE, gone |-> {}]

Fault(f) == f \in Faults /\ faults < MaxFaults /\ faults' = faults + 1
NoFault  == faults' = faults

---------------------------------------------------------------------------
(* The kernel.                                                             *)

Native(d) == IF d \in Hubs THEN "hub" ELSE "host"

\* The authorized attributes become 1 for `on' and 0 for `off'.  A device
\* that becomes authorized is bound in both stages if autoprobe is on.
SetAuthorized(on, off) ==
    /\ authorized' = (authorized \cup on) \ off
    /\ configured' = (configured \cup (IF autoprobe THEN on ELSE {})) \ off
    /\ driver' = [d \in Devices |->
                     IF d \in off THEN "none"
                     ELSE IF d \in on /\ autoprobe THEN Native(d) ELSE driver[d]]

\* Probing a device binds the generic driver, and its interface if autoprobe
\* is on; an unauthorized device is not configured.
ProbeDevice(d) ==
    /\ configured' = configured \cup ({d} \cap authorized)
    /\ driver' = IF autoprobe /\ d \in authorized \ configured
                 THEN [driver EXCEPT ![d] = Native(d)] ELSE driver

\* The interface of the device exists and has no driver.
F_Driverless(d) == driver[d] = "none"    \* whether or not it exists
Driverless(d) == d \in configured /\ driver[d] = "none"

ProbeInterface(d) == driver' = [driver EXCEPT ![d] = Native(d)]

Plug(d) ==
    /\ d \notin present /\ plugs < MaxPlugs
    /\ plugs' = plugs + 1
    /\ present' = present \cup {d}
    /\ SetAuthorized(IF closed THEN {} ELSE {d}, {})
    /\ UNCHANGED <<autoprobe, closed, vmVars, stateVars, cache, main, rec, op, taken,
                   excused, faults, requests, starts>>

\* Its device node goes for good, so a record of it matches nothing any more.
Unplug(d) ==
    /\ d \in present /\ (Calm => op.pc = "idle")
    /\ present' = present \ {d} /\ authorized' = authorized \ {d}
    /\ configured' = configured \ {d} /\ driver' = [driver EXCEPT ![d] = "none"]
    /\ held' = held \ {d} /\ known' = known \ {d}
    /\ taken' = taken \ {d} /\ excused' = excused \ {d}
    /\ op' = IF op.pc = "idle" THEN op ELSE [op EXCEPT !.gone = @ \cup {d}]
    /\ UNCHANGED <<autoprobe, closed, vmUp, ports, marked, cache, main, rec, counts>>

\* The guest claims an interface of a device it has been given; a bound host
\* driver would be torn off.
GuestClaim(d) ==
    /\ d \in held \cap configured /\ driver[d] # "usbfs"
    /\ driver' = [driver EXCEPT ![d] = "usbfs"]
    /\ UNCHANGED <<autoprobe, closed, present, authorized, configured, vmVars, stateVars,
                   cache, main, rec, op, taken, excused, counts>>

\* Crosvm frees the port of a device that has gone.
VmDrop(d) ==
    /\ d \in ports \ held
    /\ ports' = ports \ {d}
    /\ UNCHANGED <<kernelVars, vmVars, known, marked, cache, main, rec, op, taken, excused,
                   counts>>

VmStart ==
    /\ ~vmUp /\ vmUp' = TRUE
    /\ UNCHANGED <<kernelVars, held, stateVars, cache, main, rec, op, taken, excused, counts>>

\* The claims of the VM end with it, and nothing is bound in their place.
Released(S) == [d \in Devices |->
                   IF d \in S /\ driver[d] = "usbfs" THEN "none" ELSE driver[d]]

VmStop ==
    /\ vmUp /\ vmUp' = FALSE
    /\ held' = {} /\ ports' = {} /\ driver' = Released(held)
    /\ UNCHANGED <<autoprobe, closed, present, authorized, configured, known, marked,
                   cache, main, rec, op, taken, excused, counts>>

---------------------------------------------------------------------------
(* What the daemon sees.                                                   *)

\* The rules, in a scan that can read the descriptors of the devices in r.
RuleMatches(d, r) == \/ d \in RoutedDevices
                     \/ d \in Fallback /\ (d \in r \/ driver[d] = "host")

\* authorize_usb_for_host: hubs and host-allowed devices.
HostDevices == IF Authorization THEN Hubs \cup HostAllow ELSE {}

\* The devices for which `authorized' reads 0.
Unauthorized == present \ authorized

Blocked(d) == Authorization /\ d \notin authorized

---------------------------------------------------------------------------
(* The gate in a reconcile pass.                                           *)

Running == main.pc = "run"

Pass(pc) == /\ rec.pc = pc
            /\ UNCHANGED <<present, vmVars, marked, main, plugs, requests, starts>>

\* A scan that fails ends the gate; the pass goes on to observe.
GateFails == Fault("scan") /\ rec' = [NoRec EXCEPT !.pc = "observe"]

\* close, authorize_usb_for_host, and the names for the configuring loop.  A
\* device whose authorization cannot be written is passed over (`failed').
RecGate ==
    /\ Pass("idle") /\ Running
    /\ Calm => op.pc = "idle"
    /\ autoprobe' = FALSE
    /\ \E failed \in SUBSET (HostDevices \cap Unauthorized) :
          /\ authorized' = authorized \cup ((HostDevices \cap present) \ failed)
          /\ \/ /\ IF failed = {} THEN NoFault ELSE Fault("sysfs")
                /\ rec' = [NoRec EXCEPT !.pc = "configure", !.todo = present]
             \/ GateFails
    /\ UNCHANGED <<closed, configured, driver, known, ports, cache, op, taken, excused>>

\* A probe that fails is passed over.
RecConfigure(d) ==
    /\ Pass("configure") /\ d \in rec.todo
    /\ \/ /\ d \in present \ configured /\ ~Blocked(d)
          /\ \/ NoFault /\ ProbeDevice(d)
             \/ Fault("sysfs") /\ UNCHANGED <<configured, driver>>
       \/ /\ d \notin present \ configured \/ Blocked(d)
          /\ NoFault /\ UNCHANGED <<configured, driver>>
    /\ rec' = [rec EXCEPT !.todo = @ \ {d}]
    /\ UNCHANGED <<autoprobe, closed, authorized, known, ports, cache, op, taken, excused>>

\* usb_routing on a fresh scan.  Of two devices of one identity the verdict of
\* the one scanned last is remembered.
F_Matched(d, r) == RuleMatches(d, r)
Matched(d, r) == RuleMatches(d, r) \/ Id[d] \in cache

\* Devices marked as the host's are not routed.
F_Routed(matched) == matched
Marked == {d \in Devices : Id[d] \in marked}
Routed(matched) == matched \ Marked

RecRoute ==
    /\ Pass("route")
    /\ \/ \E r \in SUBSET (Fallback \cap present) :
          LET matched == {d \in present : Matched(d, r)} IN
          /\ cache' = {Id[d] : d \in {e \in matched :
                         \A x \in present : Id[x] = Id[e] => Rank[x] <= Rank[e]}}
          /\ rec' = [rec EXCEPT !.pc = "names", !.routed = Routed(matched)]
          /\ NoFault
       \/ GateFails /\ UNCHANGED cache
    /\ UNCHANGED <<autoprobe, closed, authorized, configured, driver, known, ports, op, taken,
                   excused>>

\* The names are listed again: a device may have come since the scan.
RecNames ==
    /\ Pass("names")
    /\ \/ NoFault /\ rec' = [rec EXCEPT !.pc = "settle", !.todo = present]
       \/ GateFails
    /\ UNCHANGED <<autoprobe, closed, authorized, configured, driver, known, ports, cache,
                   op, taken, excused>>

\* Routed and bound: release, except a hub or a VM's claim.  Not routed and
\* driverless: probe.  The driver is read here and acted on in RecSettle.
Releasable(d) == driver[d] \notin {"none", "hub", "usbfs"}

Outcome(d) == IF d \in rec.routed THEN IF Releasable(d) THEN "release" ELSE "settle"
              ELSE IF Driverless(d) THEN "probe" ELSE "settle"

RecRead(d) ==
    /\ Pass("settle") /\ d \in rec.todo
    /\ \/ NoFault /\ rec' = [rec EXCEPT !.todo = @ \ {d}, !.pc = Outcome(d),
                       !.dev = IF Outcome(d) = "settle" THEN None ELSE d]
       \/ Fault("scan") /\ rec' = [rec EXCEPT !.todo = @ \ {d}]
    /\ UNCHANGED <<autoprobe, closed, authorized, configured, driver, known, ports, cache,
                   op, taken, excused>>

\* The unbinding goes to whatever driver is bound by now, which may be the
\* VM's claim; the probing is for nothing if there is one.
Settle(d) ==
    \/ /\ rec.pc = "release" /\ NoFault
       /\ driver' = [driver EXCEPT ![d] = "none"]
       /\ taken' = IF driver[d] = "host" THEN taken \cup ({d} \ Marked) ELSE taken
    \/ /\ rec.pc = "probe" /\ NoFault
       /\ IF Driverless(d) THEN ProbeInterface(d) ELSE UNCHANGED driver
       /\ UNCHANGED taken
    \/ Fault("sysfs") /\ UNCHANGED <<driver, taken>>

RecSettle ==
    /\ Pass("release") \/ Pass("probe")
    /\ Settle(rec.dev)
    /\ rec' = [rec EXCEPT !.pc = "settle", !.dev = None]
    /\ UNCHANGED <<autoprobe, closed, authorized, configured, known, ports, cache, op,
                   excused>>

\* The end of a loop over the devices.
RecLoopEnd ==
    /\ rec.todo = {}
    /\ \/ Pass("configure") /\ rec' = [rec EXCEPT !.pc = "route"]
       \/ Pass("settle") /\ rec' = [rec EXCEPT !.pc = "observe"]
    /\ UNCHANGED <<autoprobe, closed, authorized, configured, driver, known, ports, cache,
                   op, taken, excused, faults>>

\* observe: the bindings of devices that have gone are detached and dropped.
\* If it cannot scan, the pass ends.
RecObserve ==
    /\ Pass("observe")
    /\ \/ /\ NoFault /\ ports' = ports \cap present
          /\ rec' = [NoRec EXCEPT !.pc = "resume"]
       \/ Fault("scan") /\ rec' = NoRec /\ UNCHANGED ports
    /\ UNCHANGED <<autoprobe, closed, authorized, configured, driver, known, cache, op, taken,
                   excused>>

\* What follows resume_usb, whether or not it failed.
AfterResume == rec' = IF Authorization /\ DeauthorizeUnmatched
                      THEN [rec EXCEPT !.pc = "deauthorize", !.todo = present] ELSE NoRec

\* resume_usb takes the operation lock.
RecResume ==
    /\ Pass("resume") /\ op.pc = "idle"
    /\ \/ \E r \in SUBSET (Fallback \cap present) :
             /\ op' = [NoOp EXCEPT !.pc = "next", !.kind = "resume", !.by = "reconcile",
                         !.todo = {d \in present : RuleMatches(d, r)}]
             /\ NoFault /\ UNCHANGED rec
       \/ Fault("scan") /\ AfterResume /\ UNCHANGED op
    /\ UNCHANGED <<autoprobe, closed, authorized, configured, driver, known, ports, cache,
                   taken, excused>>

\* deauthorize_unmatched_usb: the pass ends with its last device.
F_Unmatched(d) == d \notin HostAllow \cup known
Unmatched(d) == d \notin Hubs \cup known \cup HostAllow

\* The first scan or write that fails ends the pass.
RecDeauthorize ==
    /\ Pass("deauthorize")
    /\ \/ \E d \in rec.todo :
          /\ IF d \in present /\ Unmatched(d)
             THEN SetAuthorized({}, {d} \cap authorized) /\ excused' = excused \ {d}
             ELSE UNCHANGED <<authorized, configured, driver, excused>>
          /\ NoFault /\ rec' = [rec EXCEPT !.todo = @ \ {d}]
       \/ /\ \/ rec.todo = {} /\ NoFault
             \/ Fault("scan")
             \/ (\E d \in rec.todo \cap authorized : Unmatched(d)) /\ Fault("sysfs")
          /\ rec' = NoRec
          /\ UNCHANGED <<authorized, configured, driver, excused>>
    /\ UNCHANGED <<autoprobe, closed, known, ports, cache, op, taken>>

---------------------------------------------------------------------------
(* Requests.  A request that fails on a device rolls its authorization     *)
(* back if it made it (UsbAuthorizationGuard), and goes on to the next.    *)

Op(pc) == /\ op.pc = pc
          /\ UNCHANGED <<autoprobe, closed, present, vmUp, cache, rec, main, plugs, starts>>

Start(kind, d) ==
    /\ main.pc # "off" /\ op.pc = "idle" /\ kind # "resume"
    /\ Calm => Running /\ rec.pc = "idle"
    /\ d \in present /\ (d \in RoutedDevices \/ d \in Fallback)
    /\ requests < MaxRequests /\ requests' = requests + 1
    /\ op' = [NoOp EXCEPT !.pc = "next", !.kind = kind, !.todo = {d}]
    /\ UNCHANGED <<kernelVars, vmVars, stateVars, cache, main, rec, taken, excused, plugs,
                   faults, starts>>

\* The guard of a device that was not authorized when its attach began.
F_Rollback == {}                      \* no guard
Rollback == IF op.armed THEN {op.dev} \cap present ELSE {}

NextDevice == op' = [op EXCEPT !.pc = "next", !.dev = None, !.armed = FALSE]

\* An armed guard is dropped first.
DeviceFailed ==
    /\ IF op.armed THEN op' = [op EXCEPT !.pc = "rollback"] ELSE NextDevice
    /\ UNCHANGED <<authorized, configured, driver>>

\* A write that fails is passed over, and the device stays authorized.
OpRollback ==
    /\ Op("rollback")
    /\ \/ /\ NoFault /\ SetAuthorized({}, Rollback)
          /\ excused' = excused \ {op.dev}
       \/ /\ Fault("sysfs") /\ UNCHANGED <<authorized, configured, driver>>
          /\ excused' = excused \cup ({op.dev} \cap authorized)
    /\ NextDevice
    /\ UNCHANGED <<held, stateVars, taken, requests>>

\* The device of the request's scan is the one still plugged in.
NodeExists == op.dev \in present \ op.gone

\* resume_usb skips a marked device; an attach with authorization asks the VM
\* for its devices before it touches the device.
OpDevice(d) ==
    /\ Op("next") /\ d \in op.todo
    /\ LET now == [op EXCEPT !.todo = @ \ {d}]
           begin == [now EXCEPT !.dev = d,
                       !.pc = IF op.kind \in {"attach", "resume"} THEN "authorize"
                              ELSE "detach"]
       IN  IF op.kind = "resume" /\ Id[d] \in marked THEN op' = now /\ NoFault
           ELSE IF Authorization /\ begin.pc = "authorize"
           THEN \/ vmUp /\ op' = begin /\ NoFault
                \/ (IF vmUp THEN Fault("refuse") ELSE NoFault) /\ op' = now
           ELSE op' = begin /\ NoFault
    /\ UNCHANGED <<authorized, configured, driver, held, stateVars, taken, requests, excused>>

OpEnd ==
    /\ Op("next") /\ op.todo = {} /\ op.by = "api"
    /\ op' = NoOp
    /\ UNCHANGED <<authorized, configured, driver, held, stateVars, taken, faults,
                   requests, excused>>

\* resume_usb is over: the pass goes on to deauthorize_unmatched_usb.
OpEndOfResume ==
    /\ op.pc = "next" /\ op.todo = {} /\ op.by = "reconcile"
    /\ op' = NoOp /\ AfterResume
    /\ UNCHANGED <<kernelVars, vmVars, stateVars, cache, main, taken, excused, counts>>

\* usb_authorization_guard.
Armed == Authorization /\ op.dev \notin Hubs \cup authorized

Authorize ==
    /\ Op("authorize")
    /\ \/ /\ (Armed => op.dev \in present) /\ NoFault
          /\ SetAuthorized(IF Armed THEN {op.dev} ELSE {}, {})
          /\ op' = [op EXCEPT !.pc = "configure", !.armed = Armed]
       \/ /\ Armed
          /\ IF op.dev \in present THEN Fault("sysfs") ELSE NoFault
          /\ op' = [op EXCEPT !.pc = "rollback", !.armed = TRUE]
          /\ UNCHANGED <<authorized, configured, driver>>
    /\ UNCHANGED <<held, stateVars, taken, requests, excused>>

\* A device that enumerated since the gate's scan gets its configuration.
F_Configure == UNCHANGED <<configured, driver>>    \* attached as it is
Configure == ProbeDevice(op.dev)

OpConfigure ==
    /\ Op("configure")
    /\ \/ /\ op.dev \in present /\ NoFault
          /\ Configure
          /\ op' = [op EXCEPT !.pc = "release"]
          /\ UNCHANGED authorized
       \/ /\ IF op.dev \in present THEN op.dev \notin configured /\ Fault("sysfs") ELSE NoFault
          /\ DeviceFailed
    /\ UNCHANGED <<held, stateVars, taken, requests, excused>>

\* A hub is skipped, if its hub driver is bound; a host driver is released.
OpRelease ==
    /\ Op("release")
    /\ \/ /\ driver[op.dev] = "hub" /\ NoFault /\ DeviceFailed
       \/ /\ driver[op.dev] # "hub" /\ NoFault
          /\ driver' = IF driver[op.dev] = "host"
                       THEN [driver EXCEPT ![op.dev] = "none"] ELSE driver
          /\ op' = [op EXCEPT !.pc = "crosvm"]
          /\ UNCHANGED <<authorized, configured>>
       \/ driver[op.dev] = "host" /\ Fault("sysfs") /\ DeviceFailed
    /\ UNCHANGED <<held, stateVars, taken, requests, excused>>

\* `usb list', and `usb attach' unless the recorded port can be reused.  Once
\* Crosvm has the device its authorization is kept.
OpCrosvm ==
    LET reuse == op.dev \in ports IN
    /\ Op("crosvm")
    /\ \/ /\ vmUp /\ NoFault /\ (reuse \/ NodeExists)
          /\ held' = IF reuse THEN held ELSE held \cup {op.dev}
          /\ op' = [op EXCEPT !.armed = FALSE, !.pc = "commit"]
          /\ UNCHANGED <<authorized, configured, driver>>
       \/ /\ IF vmUp /\ (reuse \/ NodeExists) THEN Fault("refuse") ELSE NoFault
          /\ DeviceFailed /\ UNCHANGED held
       \/ /\ vmUp /\ ~reuse /\ NodeExists /\ Fault("lost")
          /\ DeviceFailed /\ held' = held \cup {op.dev}
    /\ UNCHANGED <<stateVars, taken, requests, excused>>

\* usb_vms is set first; if a save fails the mark may stay.
OpCommit ==
    /\ Op("commit")
    /\ known' = IF NodeExists THEN known \cup {op.dev} ELSE known
    /\ \/ /\ NoFault
          /\ marked' = marked \ {Id[op.dev]}
          /\ ports' = IF vmUp THEN ports \cup {op.dev} ELSE ports
       \/ /\ Fault("save")
          /\ marked' \in {marked, marked \ {Id[op.dev]}}
          /\ UNCHANGED ports
    /\ NextDevice
    /\ UNCHANGED <<authorized, configured, driver, held, taken, requests, excused>>

\* detach_one_usb up to the event; nothing to do when no VM is on record.
OpDetach ==
    LET asked == vmUp /\ (op.dev \in known \/ op.dev \in ports) IN
    /\ Op("detach")
    /\ \/ /\ NoFault
          /\ IF asked THEN held' = held \ {op.dev} /\ driver' = Released({op.dev})
             ELSE UNCHANGED <<held, driver>>
          /\ op' = [op EXCEPT !.pc = "forget"]
       \/ asked /\ Fault("refuse") /\ NextDevice /\ UNCHANGED <<held, driver>>
    /\ UNCHANGED <<authorized, configured, stateVars, taken, requests, excused>>

\* Whatever the state saves do, the device is deauthorized, unless that write
\* fails, which is passed over.
Revoked == IF Authorization THEN {op.dev} \cap (present \ Hubs) ELSE {}

OpForget ==
    /\ Op("forget")
    /\ known' = IF NodeExists THEN known \ {op.dev} ELSE known
    /\ ports' = ports \ {op.dev}
    /\ marked' = IF op.kind = "disconnect" THEN marked \cup {Id[op.dev]}
                 ELSE marked \ {Id[op.dev]}
    /\ taken' = taken \ Marked'
    /\ \/ /\ NoFault /\ SetAuthorized({}, Revoked)
          /\ excused' = excused \ Revoked
       \/ /\ Revoked # {} /\ Fault("sysfs")
          /\ UNCHANGED <<authorized, configured, driver>>
          /\ excused' = excused \cup (Revoked \cap authorized)
    /\ NextDevice
    /\ UNCHANGED <<held, requests>>

---------------------------------------------------------------------------
(* The daemon starts and stops.                                            *)

\* enable_usb_authorization and close_usb_gate, before any event is handled.
\* Hubs and host-allowed devices that cannot be scanned or written are passed
\* over (`failed').
MainStart ==
    /\ main.pc = "off" /\ starts < MaxStarts
    /\ starts' = starts + 1
    /\ closed' = (closed \/ Authorization)
    /\ \E failed \in SUBSET (HostDevices \cap Unauthorized) :
          /\ IF failed = {} THEN NoFault ELSE Fault("sysfs") \/ Fault("scan")
          /\ SetAuthorized((HostDevices \cap Unauthorized) \ failed, {})
    /\ autoprobe' = FALSE
    /\ main' = [NoMain EXCEPT !.pc = "run"]
    /\ excused' = excused \cup authorized
    /\ UNCHANGED <<present, vmVars, stateVars, cache, rec, op, taken, plugs, requests>>

\* The reconcile task is aborted at its next await and awaited; a request of a
\* client goes on by itself.
Cancellable == /\ rec.pc \in {"idle", "route", "observe", "resume"}
               /\ op.by = "reconcile" => op.pc \in {"next", "crosvm", "commit"}

MayStop == /\ Cancellable
           /\ Calm => op.pc = "idle" /\ rec.pc = "idle" /\ held \subseteq known

Aborted == IF op.by = "reconcile" THEN Rollback ELSE {}

\* The guard of an aborted attach is dropped with it.
MainStop ==
    /\ Running /\ MayStop
    /\ main' = [NoMain EXCEPT !.pc = "open"]
    /\ \/ NoFault /\ SetAuthorized({}, Aborted)
       \/ Aborted # {} /\ Fault("sysfs") /\ UNCHANGED <<authorized, configured, driver>>
    /\ op' = IF op.by = "reconcile" THEN NoOp ELSE op
    /\ rec' = NoRec
    /\ UNCHANGED <<autoprobe, closed, present, vmVars, stateVars, cache, taken, excused, plugs,
                   requests, starts>>

\* usb_held_by_vms: the devices to spare come from usb_vms.
F_Spared == {}
Spared == known

\* open_usb_gate.  If the scan for the devices to spare fails, none is spared.
MainOpen ==
    /\ main.pc = "open"
    /\ autoprobe' = TRUE
    /\ LET probe == [main EXCEPT !.pc = "probe", !.todo = present] IN
       \/ NoFault /\ main' = [probe EXCEPT !.spare = Spared]
       \/ Fault("scan") /\ main' = [probe EXCEPT !.blind = TRUE]
    /\ UNCHANGED <<closed, present, authorized, configured, driver, vmVars, stateVars, cache,
                   rec, op, taken, excused, plugs, requests, starts>>

HandsBack(d) == d \in main.todo \ main.spare /\ ~Blocked(d)

F_HandBack(d) ==                      \* only the interfaces it finds
    IF Driverless(d) THEN ProbeInterface(d) /\ UNCHANGED configured
    ELSE UNCHANGED <<configured, driver>>
HandBack(d) ==
    /\ configured' = configured \cup ({d} \cap authorized)
    /\ driver' = IF d \in authorized /\ driver[d] = "none"
                 THEN [driver EXCEPT ![d] = Native(d)] ELSE driver

\* A probe or a listing of interfaces that fails is passed over.
MainProbe(d) ==
    /\ main.pc = "probe" /\ d \in main.todo
    /\ \/ /\ IF HandsBack(d) THEN HandBack(d) ELSE UNCHANGED <<configured, driver>>
          /\ NoFault /\ main' = [main EXCEPT !.todo = @ \ {d}]
       \/ /\ HandsBack(d) /\ (Fault("sysfs") \/ Fault("scan"))
          /\ main' = [main EXCEPT !.todo = @ \ {d}, !.lost = @ \cup {d}]
          /\ UNCHANGED <<configured, driver>>
    /\ UNCHANGED <<autoprobe, closed, present, authorized, vmVars, stateVars, cache,
                   rec, op, taken, excused, plugs, requests, starts>>

\* The process ends, and with it any request still under way; the mark of a
\* device and its port binding are in the state file.
Exits == /\ main' = NoMain /\ rec' = NoRec /\ op' = NoOp
         /\ known' = {} /\ cache' = {} /\ taken' = {}

MainExit ==
    /\ main.pc = "probe" /\ main.todo = {}
    /\ Exits
    /\ UNCHANGED <<kernelVars, vmVars, ports, marked, excused, counts>>

\* The reopening ends with an error: drivers_autoprobe cannot be written, or
\* the devices cannot be listed afterwards.
MainGivesUp ==
    /\ main.pc = "open"
    /\ \/ Fault("sysfs") /\ UNCHANGED autoprobe
       \/ Fault("scan") /\ autoprobe' = TRUE
    /\ Exits
    /\ UNCHANGED <<closed, present, authorized, configured, driver, vmVars, ports, marked,
                   excused, plugs, requests, starts>>

Crash ==
    /\ main.pc # "off" /\ Fault("crash")
    /\ Calm => op.pc = "idle"
    /\ Exits
    /\ UNCHANGED <<kernelVars, vmVars, ports, marked, excused, plugs, requests, starts>>

---------------------------------------------------------------------------

Init ==
    /\ autoprobe = TRUE /\ closed = FALSE
    /\ present \in SUBSET Devices /\ authorized = present /\ configured = present
    /\ driver = [d \in Devices |-> IF d \in present THEN Native(d) ELSE "none"]
    /\ vmUp \in BOOLEAN /\ held = {}
    /\ known = {} /\ ports = {} /\ marked = {} /\ cache = {}
    /\ main = NoMain /\ rec = NoRec /\ op = NoOp
    /\ taken = {} /\ excused = {}
    /\ plugs = 0 /\ faults = 0 /\ requests = 0 /\ starts = 0

HostNext ==
    \/ \E d \in Devices : Plug(d) \/ Unplug(d) \/ GuestClaim(d) \/ VmDrop(d)
    \/ VmStart \/ VmStop

RecNext ==
    \/ RecGate \/ RecRoute \/ RecNames \/ RecLoopEnd \/ RecObserve \/ RecResume
    \/ RecDeauthorize
    \/ RecSettle
    \/ \E d \in Devices : RecConfigure(d) \/ RecRead(d)

OpNext ==
    \/ \E d \in Devices : OpDevice(d)
    \/ OpEnd \/ OpEndOfResume \/ Authorize \/ OpConfigure \/ OpRelease \/ OpCrosvm
    \/ OpRollback \/ OpCommit \/ OpDetach \/ OpForget

MainNext ==
    \/ MainOpen \/ MainGivesUp \/ MainExit
    \/ \E d \in Devices : MainProbe(d)

Next == \/ HostNext \/ RecNext \/ OpNext \/ MainNext
        \/ \E k \in OpKinds, d \in Devices : Start(k, d)
        \/ MainStart \/ MainStop \/ Crash

Spec == Init /\ [][Next]_vars

\* The tasks of a running daemon make progress; nothing is assumed of plug
\* events, the VM, clients, or starts and stops of the daemon.
FairSpec == Spec /\ WF_vars(RecNext) /\ WF_vars(OpNext) /\ WF_vars(MainNext)

---------------------------------------------------------------------------
(* Properties.                                                             *)

\* The types of the state.
TypeOK ==
    /\ autoprobe \in BOOLEAN /\ closed \in BOOLEAN
    /\ present \subseteq Devices /\ authorized \subseteq present
    /\ configured \subseteq authorized
    /\ driver \in [Devices -> Drivers]
    /\ \A d \in Devices \ configured : driver[d] = "none"
    /\ vmUp \in BOOLEAN /\ held \subseteq present
    /\ known \subseteq present /\ ports \subseteq Devices
    /\ marked \subseteq Ids /\ cache \subseteq Ids
    /\ main \in [pc: MainPcs, spare: SUBSET Devices, todo: SUBSET Devices,
                 lost: SUBSET Devices, blind: BOOLEAN]
    /\ rec \in [pc: RecPcs, todo: SUBSET Devices, routed: SUBSET Devices,
                dev: Devices \cup {None}]
    /\ op \in [pc: OpPcs, kind: OpKinds, by: {"api", "reconcile"},
               dev: Devices \cup {None}, todo: SUBSET Devices, armed: BOOLEAN,
               gone: SUBSET Devices]
    /\ taken \subseteq present /\ excused \subseteq present
    /\ plugs \in Nat /\ faults \in Nat /\ requests \in Nat /\ starts \in Nat

\* A host driver never gets onto a device a VM has been given: neither bound
\* when Crosvm gets the device (its claim would detach the driver in
\* mid-command) nor bound later by a gate pass or by the reopening of the gate,
\* which see an interface the guest has not claimed as driverless.  The
\* exception is a reopening that could not list the devices to spare: it
\* spares none, although README.md:62 says "Devices a VM still holds are left
\* out of that".
Apart == [][\A d \in held' : driver'[d] = "host" =>
               \/ d \in held /\ driver[d] = "host"
               \/ main.blind /\ MainProbe(d)]_vars

\* Devices known by their driverPath alone that have a twin, scanned after
\* them, which may match no rule.
Overruled == {d \in Fallback \ RoutedDevices : \E e \in Devices \ ({d} \cup RoutedDevices) :
                  Id[e] = Id[d] /\ Rank[d] <= Rank[e]}

\* The gate does not give a device back to the driver it took it from, which
\* would go on for ever, unless the device was marked as the host's meanwhile:
\* not while its descriptors cannot be read, and not when a request changes the
\* marks in the middle of a pass.  For the devices left out here see
\* VerdictsRemembered.
NoBindCycle ==
    [][\A d \in taken \ Overruled : RecSettle => driver'[d] \in {driver[d], "none"}]_vars

\* README.md:78, "Routing verdicts are therefore remembered for as long as the
\* device stays plugged in, so that fallback cannot cause a bind/unbind cycle
\* after the gate releases the driver".
VerdictsRemembered ==
    [][\A d \in taken : RecSettle => driver'[d] \in {driver[d], "none"}]_vars

\* Crosvm never gets an unconfigured device, which would show its guest the
\* wrong interfaces for good, even if it enumerated after the gate's scan.
\* (With authorization, a concurrent deauthorization can undo it.)
AttachedConfigured ==
    [][OpCrosvm /\ held' # held => op.dev \in configured]_vars

\* Whatever happened before, a running daemon ends up with the routed devices
\* free of host drivers, and with the devices no rule routes, as well as those
\* marked as the host's, bound: no device stays dead on both sides.
GateSettles ==
    <>[](Running =>
           \A d \in present :
              /\ d \in RoutedDevices \ Hubs /\ Id[d] \notin marked => driver[d] # "host"
              /\ d \notin RoutedDevices \cup Fallback \/ Id[d] \in marked
                 => Blocked(d) \/ d \in held \/ driver[d] # "none")

\* In a running daemon no device keeps an authorization that was given to it
\* for an attach that failed, was cancelled or was undone by a detach: all but
\* hubs, host-allowed devices and those authorized before the daemon started
\* are on record as a VM's.  The exception is a device whose authorization the
\* daemon tried to take back and could not: such a failure is only logged.
NoStrayAuthorization ==
    Authorization /\ op.pc \in {"idle", "next"} /\ Running =>
        authorized \subseteq Hubs \cup HostAllow \cup known \cup excused

\* With deauthorizeUnmatched a running daemon ends up with exactly the hubs,
\* the host-allowed devices and the devices on record as a VM's authorized,
\* those plugged in before the daemon started included.
AuthorizationSettles ==
    <>[](Running /\ op.pc = "idle" =>
           /\ present \cap HostDevices \subseteq authorized
           /\ authorized \subseteq HostDevices \cup known)

\* When the gate has been reopened, hotplug is the kernel's again and every
\* device the daemon did not have on record as a VM's is bound to its host
\* driver, except those whose own handing back failed: one failure does not
\* keep the others back.
StockAfterStop ==
    [][MainExit => /\ autoprobe
                   /\ \A d \in present \ (known \cup main.lost) :
                         Blocked(d) \/ driver[d] # "none"]_vars

\* README.md:82, "A rule matching a hub is reported and skipped rather than
\* obeyed: claiming a hub would collapse everything behind it".
HubsSpared == held \cap Hubs = {}
=============================================================================
