--------------------------- MODULE PciAttachment ---------------------------
(***************************************************************************)
(* How DeviceManager hands PCI devices to the Crosvm VMs                   *)
(* (src/src/manager.rs): attach_pci, detach_pci, suspend_pci, resume_pci,  *)
(* the PCI half of observe and reconcile, and vmm_args, by which a VM gets *)
(* its devices when it boots.                                              *)
(*                                                                         *)
(* As in UsbAttachment, `op' holds the `operation' lock and `rec' is the   *)
(* reconcile task.  vmm_args takes no lock and writes the same sysfs       *)
(* files; it has no await, so it is one step.  A step is otherwise the     *)
(* code for one member of an IOMMU group between two awaits.               *)
(*                                                                         *)
(* Abstractions.  An address is a number, smaller ones sort first.  The    *)
(* order of a PCI event and of the change it reports is left out.  The USB *)
(* half of a reconcile is an error that may end the pass.  That no rule    *)
(* names an unknown VM is assumed.                                         *)
(***************************************************************************)
EXTENDS Integers, FiniteSets

CONSTANTS
    Addresses,   \* PCI addresses
    VMs,         \* the VMs of the configuration
    None,        \* the absent value
    Group,       \* Group[a]: the addresses of a's IOMMU group, {} without one
    Rule,        \* Rule[a]: the rule that matches the device at a, or None
    Order,       \* Order[a]: the place of a in the order of the rules
    HotPlug,     \* the addresses that come and go
    Persistency, \* general.persistency.enable
    Faults,      \* the faults that may strike: see FaultKinds
    MaxPlugs, MaxStarts, MaxFaults, MaxRequests  \* bounds of the environment

FaultKinds == {"refuse", "lost", "late", "bind", "save", "crash", "observe"}
Rules == [target: VMs, addAll: BOOLEAN, skipShared: BOOLEAN, skip: BOOLEAN]

ASSUME ConstantsAssumption ==
    /\ Addresses \subseteq Nat /\ IsFiniteSet(Addresses)
    /\ None \notin VMs \cup Addresses
    /\ Group \in [Addresses -> SUBSET Addresses]
    /\ \A a \in Addresses : Group[a] # {} => a \in Group[a]
    /\ \A a \in Addresses : \A b \in Group[a] : Group[b] = Group[a]
    /\ Rule \in [Addresses -> Rules \cup {None}]
    /\ Order \in [Addresses -> Nat]
    /\ HotPlug \subseteq Addresses
    /\ Persistency \in BOOLEAN /\ Faults \subseteq FaultKinds
    /\ MaxPlugs \in Nat /\ MaxStarts \in [VMs -> Nat]
    /\ MaxFaults \in Nat /\ MaxRequests \in Nat

VARIABLES
    present,   \* the addresses with a device
    driver,    \* driver[a]: the kind of driver bound to the device at a
    plugs,     \* plug events so far
    up,        \* up[v]: the control socket of VM v exists
    starts,    \* starts[v]: starts of VM v so far
    args,      \* args[v]: the devices of the command line VM v will boot with
    held,      \* held[v]: the devices VM v has, its `vfio list'
    leaving,   \* leaving[v]: those it was asked to give up, and has not yet
    pciVms,    \* State::pci_vms
    mem,       \* persistent.disconnected, in memory
    disk,      \* and in the state file
    observed,  \* DeviceManager::observed_pci
    deferred,  \* DeviceManager::deferred
    op,        \* the request that holds the operation lock
    at,        \* its attach_one_pci or detach_one_pci
    rec,       \* the reconcile task
    told,      \* told[a]: the VM last announced to have a, whole and unchanged since
    promised,  \* devices whose permanent detach was acknowledged
    faults,    \* faults so far
    requests   \* API requests so far

hostVars == <<present, driver, plugs, up, starts, args, leaving>>
daemonVars == <<pciVms, mem, disk, observed, deferred, op, at, rec, promised,
                faults, requests>>
vars == <<present, driver, plugs, up, starts, args, held, leaving, pciVms, mem, disk,
          observed, deferred, op, at, rec, told, promised, faults, requests>>

OpKinds == {"idle", "attach", "detach", "disconnect", "suspend", "resume"}
Ops    == [kind: OpKinds, by: {"api", "reconcile"}, vm: VMs \cup {None},
           scan: SUBSET Addresses, todo: SUBSET Addresses, failed: BOOLEAN]
Pcs    == {"preflight", "bind", "add", "remove", "forget"}
NoOp    == [kind |-> "idle", by |-> "api", vm |-> None, scan |-> {},
            todo |-> {}, failed |-> FALSE]
NoFrame == [pc |-> "next"]
Calls  == [pc: Pcs, dev: Addresses, vm: VMs, todo: SUBSET Addresses,
           set: SUBSET Addresses, live: SUBSET Addresses, changed: BOOLEAN]
Frames == {NoFrame} \cup Calls
NoRec   == [pc |-> "idle", scan |-> {}, gone |-> {}]
Recs   == [pc: {"idle", "observe", "wait", "resume"}, scan: SUBSET Addresses,
           gone: SUBSET Addresses]

---------------------------------------------------------------------------
(* Helpers.                                                                *)

IsLeast(b, S) == b \in S /\ \A c \in S : b <= c
IsFirst(a, S) == a \in S /\ \A b \in S : Order[a] <= Order[b]

IommuGroup(a) == IF a \in present THEN Group[a] \cap present ELSE {}
Shared(a) == \E b \in IommuGroup(a) : b # a

\* pci_devices: the devices of a scan that a rule routes.
Scan == {a \in present : Rule[a] # None /\ ~(Rule[a].skipShared /\ Shared(a))}

\* What an attach binds to vfio-pci, and what it then gives to the VM.
F_Quarantine(a) == {a}          \* the others keep their drivers
Quarantine(a) == IF IommuGroup(a) = {} THEN {a} ELSE IommuGroup(a)
Passed(a) == IF Rule[a].addAll THEN Quarantine(a) ELSE {a}

\* Without a requested VM the rule's target.
F_VmName(want, a) == want       \* no default
VmName(want, a) == IF want = None THEN Rule[a].target ELSE want

Fault(f) == f \in Faults /\ faults < MaxFaults /\ faults' = faults + 1
NoFault  == faults' = faults
Unanswered(v) == IF up[v] THEN Fault("refuse") ELSE NoFault

\* The listeners know of no attachment of which a device in S is a part.
Untold(S) == [a \in Addresses |->
                IF S \cap ({a} \cup Group[a]) # {} THEN None ELSE told[a]]

---------------------------------------------------------------------------
(* The host and the VMs.                                                   *)

\* A host driver takes the new device.
Plug(a) ==
    /\ a \in HotPlug \ present /\ plugs < MaxPlugs
    /\ present' = present \cup {a} /\ plugs' = plugs + 1
    /\ driver' = [driver EXCEPT ![a] = "host"]
    /\ told' = Untold({a})
    /\ UNCHANGED <<up, starts, args, held, leaving, daemonVars>>

Unplug(a) ==
    /\ a \in HotPlug \cap present
    /\ present' = present \ {a}
    /\ driver' = [driver EXCEPT ![a] = "none"]
    /\ held' = [v \in VMs |-> held[v] \ {a}]
    /\ leaving' = [v \in VMs |-> leaving[v] \ {a}]
    /\ told' = Untold({a})
    /\ UNCHANGED <<plugs, up, starts, args, daemonVars>>

\* bind_vfio on every member of S: it unbinds, sets driver_override and asks
\* for a probe, and does not look whether vfio-pci took the device.
Bound(S) == [a \in Addresses |-> IF a \in S THEN "vfio" ELSE driver[a]]
Unbound(S) == [a \in Addresses |->
                 IF a \in S /\ driver[a] # "vfio" THEN "none" ELSE driver[a]]

\* S is bound, and the bind of b failed before or after the unbind.
HalfBound(S, b) == [a \in Addresses |-> IF a \in S THEN "vfio" ELSE Unbound({b})[a]]

\* What vmm_args binds before b: group by group, in the order of the rules.
BoundBefore(b, devices) ==
    {c \in Addresses : \E a \in devices :
        /\ c \in Quarantine(a)
        /\ b \in Quarantine(a) => c < b
        /\ \A e \in devices : b \in Quarantine(e) => Order[a] <= Order[e]}

\* vmm_args, which the start script of VM v runs: it binds the groups of the
\* devices routed to v, those marked disconnected included.  A bind that errs
\* ends it with the members before it bound; one that vfio-pci does not heed
\* goes unnoticed.
VmmArgs(v, requirePci) ==
    LET devices == {a \in Scan : Rule[a].target = v}
        group == UNION {Quarantine(a) : a \in devices}
        Emit == args' = [args EXCEPT ![v] = UNION {Passed(a) : a \in devices}]
    IN  /\ ~up[v] /\ args[v] = None /\ starts[v] < MaxStarts[v]
        /\ requirePci => devices # {}
        /\ \/ driver' = Bound(group) /\ NoFault /\ Emit
           \/ \E b \in group :
                 /\ driver[b] # "vfio" /\ Fault("bind")
                 /\ \/ driver' = HalfBound(group \ {b}, b) /\ Emit
                    \/ /\ driver' \in {Bound(BoundBefore(b, devices)),
                                       HalfBound(BoundBefore(b, devices), b)}
                       /\ UNCHANGED args
        /\ UNCHANGED <<present, plugs, up, starts, held, leaving, told, pciVms, mem, disk,
                       observed, deferred, op, at, rec, promised, requests>>

\* VFIO gives v the device at a.
Available(v, a) == /\ a \in present /\ driver[a] = "vfio"
                   /\ \A w \in VMs \ {v} : a \notin held[w]

VmStart(v) ==
    /\ ~up[v] /\ args[v] # None /\ starts[v] < MaxStarts[v]
    /\ starts' = [starts EXCEPT ![v] = @ + 1] /\ args' = [args EXCEPT ![v] = None]
    /\ IF \A a \in args[v] : Available(v, a)
       THEN up' = [up EXCEPT ![v] = TRUE] /\ held' = [held EXCEPT ![v] = args[v]]
       ELSE UNCHANGED <<up, held>>
    /\ UNCHANGED <<present, driver, plugs, leaving, told, daemonVars>>

VmStop(v) ==
    /\ up[v]
    /\ up' = [up EXCEPT ![v] = FALSE] /\ held' = [held EXCEPT ![v] = {}]
    /\ leaving' = [leaving EXCEPT ![v] = {}]
    /\ told' = Untold(held[v])
    /\ UNCHANGED <<present, driver, plugs, starts, args, daemonVars>>

\* The guest lets go of a device at last, after vfio_remove has given up.
LetGo(v, a) ==
    /\ a \in leaving[v]
    /\ held' = [held EXCEPT ![v] = @ \ {a}]
    /\ leaving' = [leaving EXCEPT ![v] = @ \ {a}]
    /\ told' = Untold({a})
    /\ UNCHANGED <<present, driver, plugs, up, starts, args, daemonVars>>

---------------------------------------------------------------------------
(* Taking the operation lock.                                              *)

Begin(kind, by, v, todo) ==
    /\ op.kind = "idle"
    /\ op' = [kind |-> kind, by |-> by, vm |-> v, scan |-> todo, todo |-> todo,
              failed |-> FALSE]
    /\ UNCHANGED <<hostVars, held, pciVms, mem, disk, observed, deferred, at, told,
                   promised, faults>>

\* attach_pci and detach_pci on the devices a selector picks.
ApiSelect(kind, v, todo) ==
    /\ kind \in {"attach", "detach", "disconnect"}
    /\ kind # "attach" => v = None
    /\ todo # {} /\ todo \subseteq Scan
    /\ requests < MaxRequests /\ requests' = requests + 1
    /\ Begin(kind, "api", v, todo) /\ UNCHANGED rec

ApiPower(kind, v) ==
    /\ kind \in {"suspend", "resume"}
    /\ requests < MaxRequests /\ requests' = requests + 1
    /\ Begin(kind, "api", v, Scan) /\ UNCHANGED rec

ReconcileResume ==
    /\ rec.pc = "wait"
    /\ Begin("resume", "reconcile", None, Scan)
    /\ rec' = [NoRec EXCEPT !.pc = "resume"]
    /\ UNCHANGED requests

OpDone ==
    /\ op.kind # "idle" /\ op.todo = {} /\ at.pc = "next"
    /\ op' = NoOp
    /\ rec' = IF op.by = "reconcile" THEN NoRec ELSE rec
    /\ UNCHANGED <<hostVars, held, pciVms, mem, disk, observed, deferred, at, told,
                   promised, faults, requests>>

---------------------------------------------------------------------------
(* The loop over the devices, in the order of the rules.                   *)

DeviceDone == at' = NoFrame /\ UNCHANGED <<op, deferred>>

\* resume_pci defers a device whose VM is not running.
F_DeviceFailed(o, a) == at' = NoFrame /\ op' = o /\ UNCHANGED deferred  \* swallowed
DeviceFailed(o, a) ==
    IF o.kind = "resume" /\ ~up[Rule[a].target]
    THEN at' = NoFrame /\ op' = o /\ deferred' = TRUE
    ELSE at' = NoFrame /\ op' = [o EXCEPT !.failed = TRUE] /\ UNCHANGED deferred

F_Resumes(a) == op.vm \in {None, Rule[a].target}    \* marks ignored
Resumes(a) == a \notin mem /\ op.vm \in {None, Rule[a].target}
Suspends(a) == /\ ~Rule[a].skip /\ pciVms[a] # None
               /\ op.vm \in {None, pciVms[a]}
InScope(a) == /\ op.kind = "resume" => Resumes(a)
              /\ op.kind = "suspend" => Suspends(a)

Turn(a) == /\ at.pc = "next" /\ IsFirst(a, op.todo)
           /\ UNCHANGED <<hostVars, held, pciVms, mem, disk, observed, rec, told,
                          faults, requests>>

Popped(a) == [op EXCEPT !.todo = @ \ {a}]

Frame(pc, a, v, S) == [pc |-> pc, dev |-> a, vm |-> v, todo |-> S, set |-> S,
                       live |-> {}, changed |-> FALSE]

Skip(a) ==
    /\ Turn(a) /\ ~InScope(a)
    /\ op' = Popped(a)
    /\ UNCHANGED <<at, deferred, promised>>

BeginAttach(a) ==
    LET v == VmName(op.vm, a) IN
    /\ Turn(a) /\ op.kind \in {"attach", "resume"} /\ InScope(a)
    /\ promised' = IF op.kind = "attach" THEN promised \ {a} ELSE promised
    /\ IF op.kind = "attach" /\ op.vm \notin {None, Rule[a].target}
       THEN DeviceFailed(Popped(a), a)
       ELSE /\ op' = Popped(a)
            /\ at' = Frame("preflight", a, v, {})
            /\ UNCHANGED deferred

\* The VM on record, else the one of the rule.
BeginDetach(a) ==
    LET v == IF pciVms[a] # None THEN pciVms[a] ELSE Rule[a].target
        S == Passed(a)
    IN  /\ Turn(a) /\ op.kind \in {"detach", "disconnect", "suspend"} /\ InScope(a)
        /\ op' = Popped(a)
        /\ at' = IF up[v] THEN Frame("remove", a, v, S)
                          ELSE [Frame("forget", a, v, S) EXCEPT !.todo = {}]
        /\ UNCHANGED <<deferred, promised>>

---------------------------------------------------------------------------
(* attach_one_pci.                                                         *)

Working(pc) == /\ at.pc = pc
               /\ UNCHANGED <<present, plugs, up, starts, args, leaving, observed, rec, requests>>

\* `vfio list', then the group as sysfs shows it.
Preflight ==
    /\ Working("preflight")
    /\ \/ /\ up[at.vm] /\ NoFault
          /\ IF Rule[at.dev].skipShared /\ Shared(at.dev)
             THEN DeviceFailed(op, at.dev)
             ELSE /\ at' = [at EXCEPT !.pc = "bind", !.live = held[at.vm],
                              !.todo = Quarantine(at.dev), !.set = Passed(at.dev)]
                  /\ UNCHANGED <<op, deferred>>
       \/ Unanswered(at.vm) /\ DeviceFailed(op, at.dev)
    /\ UNCHANGED <<driver, held, pciVms, mem, disk, told, promised>>

BindVfio(b) ==
    /\ Working("bind") /\ IsLeast(b, at.todo)
    /\ \/ /\ b \in present
          /\ \/ driver' = Bound({b}) /\ NoFault
             \/ driver[b] # "vfio" /\ driver' = Unbound({b}) /\ Fault("bind")
          /\ at' = [at EXCEPT !.todo = @ \ {b}]
          /\ UNCHANGED <<op, deferred>>
       \/ /\ b \notin present /\ NoFault /\ UNCHANGED driver
          /\ DeviceFailed(op, at.dev)
       \/ /\ b \in present /\ driver[b] # "vfio" /\ Fault("bind")
          /\ driver' \in {driver, Unbound({b})}
          /\ DeviceFailed(op, at.dev)
    /\ UNCHANGED <<held, pciVms, mem, disk, told, promised>>

\* Whether the records say something else than what they will.
F_IsNews == TRUE
IsNews == \E b \in at.set : pciVms[b] # at.vm

Compare ==
    /\ Working("bind") /\ at.todo = {}
    /\ at' = [at EXCEPT !.pc = "add", !.todo = at.set, !.changed = IsNews]
    /\ UNCHANGED <<op, deferred, driver, held, pciVms, mem, disk, told, promised, faults>>

\* The preflight saw b in the VM.
F_Live(b) == pciVms[b] = at.vm      \* the record is believed
Live(b) == b \in at.live

Added(b) == [held EXCEPT ![at.vm] = @ \cup {b}]

\* vfio_add of the next member: it lists, adds, and lists until it sees it.
VfioAdd(b) ==
    LET added == [at EXCEPT !.todo = @ \ {b}, !.changed = TRUE]
    IN  /\ Working("add") /\ IsLeast(b, at.todo)
        /\ \/ /\ Live(b) /\ NoFault
              /\ at' = [at EXCEPT !.todo = @ \ {b}]
              /\ UNCHANGED <<op, deferred, held>>
           \/ /\ ~Live(b) /\ up[at.vm] /\ NoFault
              /\ IF b \in held[at.vm] \/ Available(at.vm, b)
                 THEN held' = Added(b) /\ at' = added /\ UNCHANGED <<op, deferred>>
                 ELSE DeviceFailed(op, at.dev) /\ UNCHANGED held
           \/ /\ ~Live(b) /\ Unanswered(at.vm)
              /\ DeviceFailed(op, at.dev) /\ UNCHANGED held
           \/ /\ ~Live(b) /\ up[at.vm] /\ Available(at.vm, b) /\ Fault("lost")
              /\ held' = Added(b) /\ DeviceFailed(op, at.dev)
        /\ UNCHANGED <<driver, pciVms, mem, disk, told, promised>>

\* The records, the mark, its save, and pci_attached.
Record ==
    /\ Working("add") /\ at.todo = {}
    /\ pciVms' = [b \in Addresses |-> IF b \in at.set THEN at.vm ELSE pciVms[b]]
    /\ mem' = mem \ {at.dev}
    /\ \/ /\ NoFault /\ DeviceDone
          /\ disk' = IF Persistency THEN mem' ELSE disk
          /\ told' = IF /\ at.changed
                        /\ Passed(at.dev) \subseteq at.set /\ at.set \subseteq held[at.vm]
                     THEN [told EXCEPT ![at.dev] = at.vm] ELSE told
       \/ /\ Persistency /\ Fault("save") /\ DeviceFailed(op, at.dev)
          /\ UNCHANGED <<disk, told>>
    /\ UNCHANGED <<driver, held, promised>>

---------------------------------------------------------------------------
(* detach_one_pci.                                                         *)

\* vfio_remove of the next member: it asks the VM, and lists until the device
\* is gone or its patience is; an error leaves the others in the VM.
VfioRemove(b) ==
    LET Removed == /\ held' = [held EXCEPT ![at.vm] = @ \ {b}]
                   /\ leaving' = [leaving EXCEPT ![at.vm] = @ \ {b}]
                   /\ told' = Untold({b})
    IN  /\ at.pc = "remove" /\ IsLeast(b, at.todo)
        /\ \/ /\ up[at.vm] /\ NoFault /\ Removed
              /\ at' = [at EXCEPT !.todo = @ \ {b}]
              /\ UNCHANGED <<op, deferred>>
           \/ /\ Unanswered(at.vm) /\ DeviceFailed(op, at.dev)
              /\ UNCHANGED <<held, leaving, told>>
           \/ /\ b \in held[at.vm] /\ Fault("lost") /\ DeviceFailed(op, at.dev)
              /\ Removed
           \/ /\ b \in held[at.vm] /\ Fault("late") /\ DeviceFailed(op, at.dev)
              /\ leaving' = [leaving EXCEPT ![at.vm] = @ \cup {b}]
              /\ UNCHANGED <<held, told>>
        /\ UNCHANGED <<present, driver, plugs, up, starts, args, pciVms, mem, disk,
                       observed, rec, promised, requests>>

Marked == IF op.kind = "disconnect" THEN mem \cup {at.dev} ELSE mem \ {at.dev}

\* The records go, pci_detached goes out, the mark is set or lifted and saved.
Forget ==
    /\ at.pc \in {"remove", "forget"} /\ at.todo = {}
    /\ Working(at.pc)
    /\ pciVms' = [b \in Addresses |-> IF b \in at.set THEN None ELSE pciVms[b]]
    /\ told' = Untold(at.set)
    /\ mem' = Marked
    /\ \/ /\ NoFault /\ DeviceDone
          /\ disk' = IF Persistency THEN mem' ELSE disk
          /\ promised' = IF op.kind = "disconnect"
                         THEN (IF Persistency THEN promised \cup {at.dev} ELSE promised)
                         ELSE promised \ {at.dev}
       \/ /\ Persistency /\ Fault("save") /\ DeviceFailed(op, at.dev)
          /\ promised' = IF op.kind = "disconnect" THEN promised ELSE promised \ {at.dev}
          /\ UNCHANGED disk
    /\ UNCHANGED <<driver, held>>

---------------------------------------------------------------------------
(* The reconcile task.                                                     *)

Observing(pc) == /\ rec.pc = pc
                 /\ UNCHANGED <<hostVars, held, mem, disk, op, at, promised, requests>>

ReconcileStart ==
    /\ Observing("idle")
    /\ deferred' = FALSE
    /\ rec' = [pc |-> "observe", scan |-> Scan, gone |-> observed \ Scan]
    /\ UNCHANGED <<pciVms, observed, told, faults>>

\* The USB half of observe fails: the pass ends, PCI untouched.
ObserveFails ==
    /\ Observing("observe") /\ Fault("observe")
    /\ rec' = NoRec
    /\ UNCHANGED <<pciVms, observed, deferred, told>>

\* pci_disconnected, and the record is dropped; nothing is detached.
ObserveGone(a) ==
    /\ Observing("observe") /\ a \in rec.gone
    /\ pciVms' = [pciVms EXCEPT ![a] = None] /\ told' = Untold({a})
    /\ rec' = [rec EXCEPT !.gone = @ \ {a}]
    /\ UNCHANGED <<observed, deferred, faults>>

ObserveDone ==
    /\ Observing("observe") /\ rec.gone = {}
    /\ observed' = rec.scan
    /\ rec' = [NoRec EXCEPT !.pc = "wait"]
    /\ UNCHANGED <<pciVms, deferred, told, faults>>

Crash ==
    /\ Fault("crash")
    /\ mem' = disk
    /\ pciVms' = [a \in Addresses |-> None] /\ told' = [a \in Addresses |-> None]
    /\ observed' = {} /\ deferred' = FALSE
    /\ op' = NoOp /\ at' = NoFrame /\ rec' = NoRec
    /\ UNCHANGED <<hostVars, held, disk, promised, requests>>

---------------------------------------------------------------------------

Init ==
    /\ present = Addresses \ HotPlug /\ plugs = 0
    /\ driver = [a \in Addresses |-> IF a \in HotPlug THEN "none" ELSE "host"]
    /\ up = [v \in VMs |-> FALSE] /\ starts = [v \in VMs |-> 0]
    /\ args = [v \in VMs |-> None] /\ held = [v \in VMs |-> {}] /\ leaving = [v \in VMs |-> {}]
    /\ pciVms = [a \in Addresses |-> None] /\ told = [a \in Addresses |-> None]
    /\ mem = {} /\ disk = {} /\ observed = {} /\ deferred = FALSE
    /\ op = NoOp /\ at = NoFrame /\ rec = NoRec
    /\ promised = {} /\ faults = 0 /\ requests = 0

HostNext ==
    \/ \E a \in Addresses : Plug(a) \/ Unplug(a) \/ \E v \in VMs : LetGo(v, a)
    \/ \E v \in VMs : VmStart(v) \/ VmStop(v) \/ \E r \in BOOLEAN : VmmArgs(v, r)

ApiNext ==
    \/ \E k \in OpKinds, v \in VMs \cup {None}, todo \in SUBSET Addresses : ApiSelect(k, v, todo)
    \/ \E k \in OpKinds, v \in VMs \cup {None} : ApiPower(k, v)

OpNext ==
    \/ OpDone
    \/ \E a \in Addresses : Skip(a) \/ BeginAttach(a) \/ BeginDetach(a)
    \/ \E b \in Addresses : BindVfio(b) \/ VfioAdd(b) \/ VfioRemove(b)
    \/ Preflight \/ Compare \/ Record \/ Forget

RecNext ==
    \/ ReconcileStart \/ ObserveFails
    \/ \E a \in Addresses : ObserveGone(a)
    \/ ObserveDone \/ ReconcileResume

Next == HostNext \/ ApiNext \/ OpNext \/ RecNext \/ Crash

Spec == Init /\ [][Next]_vars

\* As in UsbAttachment: the daemon's tasks run on, and nothing is assumed of
\* plug events, VMs or API clients.
FairSpec == Spec /\ WF_vars(OpNext) /\ WF_vars(RecNext)

---------------------------------------------------------------------------
(* Properties.                                                             *)

\* The types of the state.
TypeOK ==
    /\ present \subseteq Addresses /\ driver \in [Addresses -> {"host", "vfio", "none"}]
    /\ up \in [VMs -> BOOLEAN] /\ args \in [VMs -> (SUBSET Addresses) \cup {None}]
    /\ held \in [VMs -> SUBSET Addresses] /\ leaving \in [VMs -> SUBSET Addresses]
    /\ pciVms \in [Addresses -> VMs \cup {None}] /\ told \in [Addresses -> VMs \cup {None}]
    /\ mem \subseteq Addresses /\ disk \subseteq Addresses /\ promised \subseteq Addresses
    /\ observed \subseteq Addresses /\ deferred \in BOOLEAN
    /\ op \in Ops /\ at \in Frames /\ rec \in Recs
    /\ plugs \in Nat /\ starts \in [VMs -> Nat] /\ faults \in Nat /\ requests \in Nat

\* While a VM has a device, no other member of its IOMMU group has a driver of
\* the host, whatever bind, command or start failed half-way and whoever else
\* binds ("its IOMMU group remains quarantined").  Members that come and go are
\* left to the kernel.
GroupQuarantined ==
    \A v \in VMs : \A a \in held[v] \ HotPlug : \A b \in Group[a] \ HotPlug :
        driver[b] # "host"

\* Step: the daemon gives the device at a to the running VM v.
Adds(v, a) == up[v] /\ a \in held'[v] \ held[v]

\* Once pci_detach with permanent = true has succeeded, the daemon does not
\* give the device to a running VM again until a client asks to attach it, or
\* detaches or suspends it without the mark: no reconcile, resume or restart
\* of the daemon does.  (A VM that boots gets it: vmm_args reads no marks.)
PciStaysDetached ==
    [][\A v \in VMs, a \in Addresses : Adds(v, a) => a \notin promised]_vars

\* A reconcile that reports neither a failure nor a deferral has recorded
\* every routed device that is still there, and the fixed devices that go with
\* it, with the VM of its rule.
PciQuietPassSettles ==
    [][(OpDone /\ op.by = "reconcile" /\ ~op.failed /\ ~deferred) =>
          \A a \in op.scan \cap Scan :
             \/ a \in mem
             \/ \A b \in {a} \cup (Passed(a) \ HotPlug) : pciVms[b] = Rule[a].target]_vars

\* A pci_attached event says something new: not of a device that was announced
\* with this VM before and has been there, whole, ever since.
PciNews == [][Record /\ NoFault /\ at.changed => told[at.dev] # at.vm]_vars

\* The device at a, with all that goes with it, is where its rule wants it.
Served(a) ==
    LET v == Rule[a].target
    IN  \/ a \in mem \/ ~up[v]
        \/ Passed(a) \subseteq held[v] /\ \A b \in Passed(a) : pciVms[b] = v

\* Once plug events, VM starts and stops, faults and requests cease, the
\* running VM of every rule has its devices, and the records say so.
PciConverges == <>[](\A a \in Scan : Served(a))
=============================================================================
