--------------------------- MODULE UsbAttachment ---------------------------
(***************************************************************************)
(* How DeviceManager moves USB devices between the host bus and the        *)
(* Crosvm VMs (src/src/manager.rs): attach_usb, detach_usb, suspend_usb,   *)
(* resume_usb, and the observe + resume_usb part of reconcile, against     *)
(* hot-plug, VM stops and starts, failing commands, failing state saves    *)
(* and daemon crashes.                                                     *)
(*                                                                         *)
(* Two tasks run concurrently.  `op' is whoever holds the `operation'      *)
(* mutex: an API request, or the resume_usb call of the reconcile task.    *)
(* `rec' is the reconcile task, whose observe() takes no `operation' lock  *)
(* and so interleaves with an API request at every await.  A step of the   *)
(* model is the code between two awaits on a Crosvm command, or between    *)
(* two acquisitions of the state lock.                                     *)
(*                                                                         *)
(* Abstractions.  A sysfs name is a Slot, a device node is the number of   *)
(* the plug event that created it, a persistent id stands for              *)
(* vid:pid:serial and Kind[id] for the vid:pid that a Crosvm port list     *)
(* shows.  The configuration is constant and names only known VMs, and     *)
(* every device has a device node.  A device is a hub by its class when     *)
(* the hub driver is bound to it.  Of USB authorization only what it        *)
(* changes in the order of an attach is here; the marks themselves and the  *)
(* host-driver gate are UsbGate's.                                          *)
(***************************************************************************)
EXTENDS Integers, FiniteSets

CONSTANTS
    Slots,       \* sysfs names of USB devices (bus and port path)
    Devices,     \* physical devices
    Ids,         \* persistent ids, vid:pid:serial
    Kinds,       \* vid:pid pairs
    VMs,         \* the VMs of the configuration
    Ports,       \* the USB ports of one Crosvm instance
    None,        \* the absent value
    Id,          \* Id[d]: what device d reports as its identity
    Kind,        \* Kind[i]: the vid:pid part of an identity
    Rule,        \* Rule[s][d]: the rule matching device d at slot s, or None
    Hubs,        \* the devices to whose interface the hub driver is bound
    Persistency, \* general.persistency.enable
    Authorization, \* usbAuthorization: the target VM is asked before anything changes
    Faults,      \* the faults that may strike: see FaultKinds
    Calm,        \* requests, passes and what happens to the host do not overlap
    MaxPlugs, MaxGens, MaxFaults, MaxRequests  \* bounds of the environment

FaultKinds == {"refuse", "lost", "save", "crash"}

Nodes       == 1..MaxPlugs
Generations == VMs \X Nat
Rules       == [target: VMs \cup {None}, allowed: SUBSET VMs, skip: BOOLEAN]

ASSUME ConstantsAssumption ==
    /\ None \notin VMs \cup Slots \cup Ports \cup Devices
    /\ Id \in [Devices -> Ids]
    /\ Kind \in [Ids -> Kinds]
    /\ Rule \in [Slots -> [Devices -> Rules \cup {None}]]
    /\ Hubs \subseteq Devices
    /\ Persistency \in BOOLEAN /\ Authorization \in BOOLEAN /\ Calm \in BOOLEAN
    /\ Faults \subseteq FaultKinds
    /\ MaxPlugs \in Nat /\ MaxGens \in Nat /\ MaxFaults \in Nat /\ MaxRequests \in Nat

VARIABLES
    bus,       \* bus[s]: the device at slot s and its device node
    plugs,     \* plug events so far; the last device node handed out
    up,        \* up[v]: the control socket of VM v exists
    gen,       \* gen[v]: starts of VM v; the identity of its socket
    held,      \* held[v][p]: what VM v holds at its port p
    usbVms,    \* State::usb_vms, from device node to VM
    mem,       \* State::persistent, in memory
    disk,      \* the state file
    observed,  \* DeviceManager::observed_usb
    pending,   \* DeviceManager::pending_usb_selection
    deferred,  \* DeviceManager::deferred
    op,        \* the request that holds the operation lock
    at,        \* its call on one device: attach_one_usb or detach_one_usb
    rec,       \* the reconcile task
    view,      \* what a listener that follows the events believes of usb_vms
    promised,  \* ids whose permanent detach was acknowledged and not revoked
    faults,    \* faults so far
    requests   \* API requests so far

hostVars == <<bus, plugs, up, gen>>
daemonVars == <<usbVms, mem, disk, observed, pending, deferred, op, at, rec,
                view, promised, faults, requests>>
vars == <<bus, plugs, up, gen, held, usbVms, mem, disk, observed, pending,
          deferred, op, at, rec, view, promised, faults, requests>>

---------------------------------------------------------------------------
(* Types.                                                                  *)

Plugged  == [dev: Devices, node: Nodes]
Bus      == [Slots -> Plugged \cup {None}]
Guest    == [slot: Slots, dev: Devices, node: Nodes, alive: BOOLEAN]
Binding  == [vm: VMs, port: Ports, gen: Generations \cup {None}, id: Ids]
Persistent == [selected: [Ids -> VMs \cup {None}],
               disconnected: SUBSET Ids,
               ports: [Slots -> Binding \cup {None}]]

OpKinds == {"idle", "attach", "detach", "disconnect", "suspend", "resume"}
Ops     == [kind: OpKinds, by: {"api", "reconcile"}, vm: VMs \cup {None},
            todo: SUBSET Slots, scan: Bus, failed: BOOLEAN]

Lists   == SUBSET (Ports \X Kinds)      \* what `usb list' answers

AttachPcs == {"preflight", "claim", "list", "attach", "stale", "commit", "announce"}
DetachPcs == {"dread", "dlist", "dcmd", "forget"}
Frames  == [pc: AttachPcs \cup DetachPcs \cup {"next"},
            slot: Slots \cup {None}, want: VMs \cup {None}, vm: VMs \cup {None},
            changed: BOOLEAN, known: Binding \cup {None},
            gen: Generations \cup {None}, live: Lists, port: Ports \cup {None},
            stale: Ports \cup {None}, dvm: VMs \cup {None}]

\* No binding is the absent value.
ASSUME BindingAssumption == None \notin Binding

RecPcs  == {"idle", "observe", "list", "detach", "forget", "wait", "resume"}
Recs    == [pc: RecPcs, scan: Bus, gone: SUBSET Slots,
            slot: Slots \cup {None}, binding: Binding \cup {None}]

EmptyBus   == [s \in Slots |-> None]
EmptyPersistent == [selected |-> [i \in Ids |-> None], disconnected |-> {},
                    ports |-> [s \in Slots |-> None]]
NoOp    == [kind |-> "idle", by |-> "api", vm |-> None, todo |-> {},
            scan |-> EmptyBus, failed |-> FALSE]
NoFrame == [pc |-> "next", slot |-> None, want |-> None, vm |-> None,
            changed |-> FALSE, known |-> None, gen |-> None, live |-> {}, port |-> None,
            stale |-> None, dvm |-> None]
NoRec   == [pc |-> "idle", scan |-> EmptyBus, gone |-> {}, slot |-> None,
            binding |-> None]

---------------------------------------------------------------------------
(* Helpers.                                                                *)

\* The devices of a scan that some rule routes.
Routed(b) == [s \in Slots |->
                 IF b[s] # None /\ Rule[s][b[s].dev] # None THEN b[s] ELSE None]

Present(b) == {s \in Slots : b[s] # None}

\* (Faulty variants, named F_..., show which property notices the fault.)
F_AllowedVms(r) == VMs    \* no check of the rule
AllowedVms(r) == r.allowed \cup ({r.target} \ {None})

\* What resume_usb passes on as the wanted VM.
Target(r, i) == IF r.target # None THEN r.target ELSE mem.selected[i]

\* The VM attach_one_usb settles on, None when the user has to be asked.
ChooseVm(want, r, i) ==
    IF want # None THEN want
    ELSE IF Target(r, i) # None THEN Target(r, i)
    ELSE IF \E v \in VMs : r.allowed = {v}
         THEN CHOOSE v \in VMs : r.allowed = {v}
         ELSE None

\* socket_generation(..).unwrap_or_default(): None is the empty string.
SocketGeneration(v) == IF up[v] THEN <<v, gen[v]>> ELSE None

\* Port p of VM v is in a `usb list' answer with the vid:pid k.
Listed(v, p, k) == /\ p \in Ports
                   /\ held[v][p] # None
                   /\ Kind[Id[held[v][p].dev]] = k

UsbList(v) == {e \in Ports \X Kinds : Listed(v, e[1], e[2])}

\* With authorization the target VM of a device is asked first, unless the
\* device is a hub.
Preflighted(d) == Authorization /\ d \notin Hubs

Dev  == op.scan[at.slot].dev
Node == op.scan[at.slot].node
DevId == Id[Dev]

\* A fault of kind f strikes; TLC bounds how often.
Fault(f) == f \in Faults /\ faults < MaxFaults /\ faults' = faults + 1
NoFault  == faults' = faults

\* A Crosvm command to VM v fails and changes nothing: nobody listens on the
\* socket, or the command errs or times out before the VM acts on it.
Unanswered(v) == IF up[v] THEN Fault("refuse") ELSE NoFault

\* What the state file holds after save() of m.
F_Store(m) == disk        \* never written
Store(m) == IF Persistency THEN m ELSE disk

---------------------------------------------------------------------------
(* The host and the VMs.                                                   *)

Quiescent == op.kind = "idle" /\ rec.pc = "idle"

InTurn == Calm => Quiescent

\* The kernel numbers device nodes upwards: no node is reused here.
Plug(s, d) ==
    /\ InTurn /\ bus[s] = None /\ plugs < MaxPlugs
    /\ \A t \in Present(bus) : bus[t].dev # d
    /\ plugs' = plugs + 1
    /\ bus' = [bus EXCEPT ![s] = [dev |-> d, node |-> plugs + 1]]
    /\ UNCHANGED <<up, gen, held, daemonVars>>

\* The guest loses the device, but Crosvm still lists its port.
Unplug(s) ==
    /\ InTurn /\ bus[s] # None
    /\ bus' = [bus EXCEPT ![s] = None]
    /\ held' = [v \in VMs |-> [p \in Ports |->
                   IF held[v][p] # None /\ held[v][p].node = bus[s].node
                   THEN [held[v][p] EXCEPT !.alive = FALSE] ELSE held[v][p]]]
    /\ UNCHANGED <<plugs, up, gen, daemonVars>>

\* Crosvm frees the port of a device that has gone.
VmDrop(v, p) ==
    /\ InTurn /\ held[v][p] # None /\ ~held[v][p].alive
    /\ held' = [held EXCEPT ![v][p] = None]
    /\ UNCHANGED <<hostVars, daemonVars>>

VmStart(v) ==
    /\ InTurn /\ ~up[v] /\ gen[v] < MaxGens
    /\ up' = [up EXCEPT ![v] = TRUE]
    /\ gen' = [gen EXCEPT ![v] = @ + 1]
    /\ UNCHANGED <<bus, plugs, held, daemonVars>>

VmStop(v) ==
    /\ InTurn /\ up[v] /\ gen[v] < MaxGens
    /\ up' = [up EXCEPT ![v] = FALSE]
    /\ held' = [held EXCEPT ![v] = [p \in Ports |-> None]]
    /\ UNCHANGED <<bus, plugs, gen, daemonVars>>

---------------------------------------------------------------------------
(* Taking the operation lock.                                              *)

Begin(kind, by, v, scan, todo) ==
    /\ op.kind = "idle"
    /\ op' = [kind |-> kind, by |-> by, vm |-> v, todo |-> todo, scan |-> scan,
              failed |-> FALSE]
    /\ UNCHANGED <<hostVars, held, usbVms, mem, disk, observed, pending, deferred,
                   at, view, promised, faults>>

\* attach_usb and detach_usb on the devices a selector picks: any of the
\* routed ones, by node, port, vid:pid or tag.
ApiSelect(kind, v, todo) ==
    /\ InTurn /\ kind \in {"attach", "detach", "disconnect"}
    /\ kind # "attach" => v = None
    /\ todo # {} /\ todo \subseteq Present(Routed(bus))
    /\ requests < MaxRequests /\ requests' = requests + 1
    /\ Begin(kind, "api", v, Routed(bus), todo)
    /\ UNCHANGED rec

\* suspend_usb and resume_usb run over every routed device.
ApiPower(kind, v) ==
    /\ InTurn /\ kind \in {"suspend", "resume"}
    /\ requests < MaxRequests /\ requests' = requests + 1
    /\ Begin(kind, "api", v, Routed(bus), Present(Routed(bus)))
    /\ UNCHANGED rec

\* reconcile reaches resume_usb(None), and has the lock.
ReconcileResume ==
    /\ rec.pc = "wait"
    /\ Begin("resume", "reconcile", None, Routed(bus), Present(Routed(bus)))
    /\ rec' = [rec EXCEPT !.pc = "resume"]
    /\ UNCHANGED requests

OpDone ==
    /\ op.kind # "idle" /\ op.todo = {} /\ at.pc = "next"
    /\ op' = NoOp
    /\ rec' = IF op.by = "reconcile" THEN NoRec ELSE rec
    /\ UNCHANGED <<hostVars, held, usbVms, mem, disk, observed, pending, deferred,
                   at, view, promised, faults, requests>>

---------------------------------------------------------------------------
(* The loop over the devices.  Every step that ends a device's turn says   *)
(* whether it failed.                                                      *)

DeviceDone == at' = NoFrame /\ UNCHANGED <<op, deferred>>

\* vm_stopped.
Stopped(v) == v # None /\ ~up[v]

\* resume_usb defers a device whose wanted VM is not running.
F_DeviceFailed(o, want) == at' = NoFrame /\ op' = o /\ UNCHANGED deferred  \* swallowed
DeviceFailed(o, want) ==
    IF o.kind = "resume" /\ Stopped(want)
    THEN at' = NoFrame /\ op' = o /\ deferred' = TRUE
    ELSE at' = NoFrame /\ op' = [o EXCEPT !.failed = TRUE] /\ UNCHANGED deferred

Wanted(s) == IF op.kind = "resume"
             THEN Target(Rule[s][op.scan[s].dev], Id[op.scan[s].dev])
             ELSE op.vm

\* Whether suspend_usb or resume_usb acts on the device at s.
F_Suspends(s) == /\ usbVms[op.scan[s].node] # None
                 /\ op.vm = usbVms[op.scan[s].node]     \* "every VM" matches none
Suspends(s) == /\ ~Rule[s][op.scan[s].dev].skip
               /\ usbVms[op.scan[s].node] # None
               /\ op.vm \in {None, usbVms[op.scan[s].node]}

Resumes(s) == /\ Id[op.scan[s].dev] \notin mem.disconnected
              /\ op.vm \in {None, Wanted(s)}

InScope(s) == /\ op.kind = "suspend" => Suspends(s)
              /\ op.kind = "resume" => Resumes(s)

\* The device has to leave the VM it is with before it goes to v.
F_MustLeave(cur, v) == FALSE      \* moved without a detach
MustLeave(cur, v) == cur \notin {None, v}

\* The attachment is news to the listeners.
F_IsNews(cur, v) == cur \notin {None, v}    \* only moves are
IsNews(cur, v) == cur # v

Turn(s) == /\ at.pc = "next" /\ s \in op.todo
           /\ UNCHANGED <<hostVars, held, usbVms, mem, disk, observed, rec, view,
                          faults, requests>>

Popped(s) == [op EXCEPT !.todo = @ \ {s}]

Skip(s) ==
    /\ Turn(s) /\ ~InScope(s)
    /\ op' = Popped(s)
    /\ UNCHANGED <<at, pending, deferred, promised>>

BeginDetach(s) ==
    /\ Turn(s) /\ op.kind \in {"detach", "disconnect", "suspend"} /\ InScope(s)
    /\ op' = Popped(s)
    /\ at' = [NoFrame EXCEPT !.pc = "dread", !.slot = s]
    /\ UNCHANGED <<pending, deferred, promised>>

\* The read of the VM that has the device, in the call f: a device with
\* another VM is detached first.
Entered(f) ==
    LET cur == usbVms[op.scan[f.slot].node]
    IN  [f EXCEPT !.pc = IF MustLeave(cur, f.vm) THEN "dread" ELSE "claim",
                  !.changed = IsNews(cur, f.vm)]

\* attach_one_usb up to the preflight, or up to the read of the device's
\* current VM where there is none.  With authorization a VM without its
\* socket ends the call before anything has changed.
BeginAttach(s) ==
    LET p == op.scan[s]
        r == Rule[s][p.dev]
        i == Id[p.dev]
        v == ChooseVm(Wanted(s), r, i)
        call == [NoFrame EXCEPT !.slot = s, !.want = Wanted(s), !.vm = v]
    IN  /\ Turn(s) /\ op.kind \in {"attach", "resume"} /\ InScope(s)
        /\ promised' = IF op.kind = "attach" THEN promised \ {i} ELSE promised
        /\ \/ /\ v = None                      \* usb_select_vm asks the user
              /\ pending' = pending \cup {i}
              /\ op' = Popped(s)
              /\ UNCHANGED <<at, deferred>>
           \/ /\ v # None /\ (v \notin AllowedVms(r) \/ (Authorization /\ ~up[v]))
              /\ DeviceFailed(Popped(s), Wanted(s))
              /\ UNCHANGED pending
           \/ /\ v \in AllowedVms(r) /\ (Authorization => up[v])
              /\ op' = Popped(s)
              /\ at' = IF Preflighted(p.dev)
                       THEN [call EXCEPT !.pc = "preflight", !.gen = SocketGeneration(v)]
                       ELSE Entered(call)
              /\ UNCHANGED <<pending, deferred>>

---------------------------------------------------------------------------
(* attach_one_usb.                                                         *)

Attaching(pc) == /\ at.pc = pc
                 /\ UNCHANGED <<hostVars, observed, rec, promised, requests>>

\* `usb list' before anything changes: a VM that does not answer costs the
\* device nothing.
Preflight ==
    /\ Attaching("preflight")
    /\ \/ /\ up[at.vm] /\ NoFault
          /\ at' = Entered([at EXCEPT !.live = UsbList(at.vm)])
          /\ UNCHANGED <<op, deferred>>
       \/ Unanswered(at.vm) /\ DeviceFailed(op, at.want)
    /\ UNCHANGED <<held, usbVms, mem, disk, pending, view>>

\* Take the host drivers off, then read the known binding, and the socket
\* generation unless the preflight did.  A hub is skipped.  If the device has left, configuring it
\* errs, unless it left too late for that and simply has no interfaces.
Claim ==
    /\ Attaching("claim")
    /\ \/ /\ IF bus[at.slot] = None THEN NoFault ELSE Fault("refuse")
          /\ DeviceFailed(op, at.want)
       \/ /\ bus[at.slot] # None /\ bus[at.slot].dev \in Hubs /\ NoFault
          /\ DeviceDone
       \/ /\ bus[at.slot] # None => bus[at.slot].dev \notin Hubs
          /\ NoFault
          /\ at' = [at EXCEPT !.pc = "list", !.known = mem.ports[at.slot],
                              !.gen = IF Preflighted(Dev) THEN @
                                      ELSE SocketGeneration(at.vm)]
          /\ UNCHANGED <<op, deferred>>
    /\ UNCHANGED <<held, usbVms, mem, disk, pending, view>>

\* The binding on record is for this VM in this generation.
OwnBinding == /\ at.known # None
              /\ at.known.vm = at.vm /\ at.known.gen = at.gen

F_Reusable(live) == OwnBinding /\ at.known.id = DevId    \* without asking Crosvm
Reusable(live) == /\ OwnBinding /\ at.known.id = DevId
                  /\ <<at.known.port, Kind[DevId]>> \in live

F_StalePort(live) == IF OwnBinding THEN at.known.port ELSE 0    \* unwrap_or_default
StalePort(live) ==
    IF OwnBinding /\ <<at.known.port, Kind[at.known.id]>> \in live
    THEN at.known.port ELSE None

\* Reuse the port on record, or attach anew, by the list `live'.
Choose(live) ==
    /\ at' = IF Reusable(live)
             THEN [at EXCEPT !.pc = "commit", !.port = at.known.port]
             ELSE [at EXCEPT !.pc = "attach", !.changed = TRUE,
                             !.stale = StalePort(live)]
    /\ NoFault /\ UNCHANGED <<op, deferred>>

\* `usb list' and the choice; by the list of the preflight, which may be as
\* old as the detach of a move, if there was one.
List ==
    /\ Attaching("list")
    /\ \/ Preflighted(Dev) /\ Choose(at.live)
       \/ ~Preflighted(Dev) /\ up[at.vm] /\ Choose(UsbList(at.vm))
       \/ ~Preflighted(Dev) /\ Unanswered(at.vm) /\ DeviceFailed(op, at.want)
    /\ UNCHANGED <<held, usbVms, mem, disk, pending, view>>

NodeExists == bus[at.slot] # None /\ bus[at.slot].node = Node

FreePorts(v) == {p \in Ports : held[v][p] = None}

\* Crosvm::usb_attach.  A lost answer leaves the device with the VM.
AttachCmd ==
    /\ Attaching("attach")
    /\ \/ \E p \in FreePorts(at.vm) :
            /\ up[at.vm] /\ NodeExists
            /\ held' = [held EXCEPT ![at.vm][p] =
                           [slot |-> at.slot, dev |-> Dev, node |-> Node, alive |-> TRUE]]
            /\ \/ /\ NoFault
                  /\ at' = LET stale == IF at.stale = p THEN None ELSE at.stale
                           IN [at EXCEPT !.port = p, !.stale = stale,
                                 !.pc = IF stale = None THEN "commit" ELSE "stale"]
                  /\ UNCHANGED <<op, deferred>>
               \/ Fault("lost") /\ DeviceFailed(op, at.want)
       \/ /\ IF NodeExists /\ FreePorts(at.vm) # {} THEN Unanswered(at.vm) ELSE NoFault
          /\ DeviceFailed(op, at.want)
          /\ UNCHANGED held
    /\ UNCHANGED <<usbVms, mem, disk, pending, view>>

\* Crosvm::usb_detach of port p of VM v: Answered when the port is freed and
\* the daemon learns it, otherwise it errs, and the port may be free or not.
DetachAnswered(v, p) ==
    /\ up[v] /\ held[v][p] # None /\ NoFault
    /\ held' = [held EXCEPT ![v][p] = None]

DetachErred(v, p) ==
    \/ /\ IF held[v][p] # None THEN Unanswered(v) ELSE NoFault
       /\ UNCHANGED held
    \/ /\ up[v] /\ held[v][p] # None /\ Fault("lost")
       /\ held' = [held EXCEPT ![v][p] = None]

\* The port this slot used before, when Crosvm still lists it.
StaleDetach ==
    /\ Attaching("stale")
    /\ \/ /\ DetachAnswered(at.vm, at.stale)
          /\ at' = [at EXCEPT !.pc = "commit"]
          /\ UNCHANGED <<op, deferred>>
       \/ DetachErred(at.vm, at.stale) /\ DeviceFailed(op, at.want)
    /\ UNCHANGED <<usbVms, mem, disk, pending, view>>

\* The three states the attach passes through under the state lock, each of
\* which is saved: select_vm, set_disconnected(false), the port binding.
Selected(m)  == [m EXCEPT !.selected[DevId] = at.vm]
Connected(m) == [Selected(m) EXCEPT !.disconnected = @ \ {DevId}]
Bound(m)     == [Connected(m) EXCEPT !.ports[at.slot] =
                   [vm |-> at.vm, port |-> at.port, gen |-> at.gen, id |-> DevId]]

Commit ==
    /\ Attaching("commit")
    /\ usbVms' = [usbVms EXCEPT ![Node] = at.vm]
    /\ \/ /\ mem' = Bound(mem) /\ disk' = Store(Bound(mem)) /\ NoFault
          /\ at' = [at EXCEPT !.pc = "announce"]
          /\ UNCHANGED <<op, deferred>>
       \/ /\ Persistency /\ Fault("save") /\ DeviceFailed(op, at.want)
          /\ \/ mem' = Selected(mem)  /\ disk' = disk
             \/ mem' = Connected(mem) /\ disk' = Selected(mem)
             \/ mem' = Bound(mem)     /\ disk' = Connected(mem)
    /\ UNCHANGED <<held, pending, view>>

\* The state lock is released before the event goes out.
Announce ==
    /\ Attaching("announce")
    /\ pending' = pending \ {DevId}
    /\ view' = IF at.changed THEN [view EXCEPT ![Node] = at.vm] ELSE view
    /\ DeviceDone
    /\ UNCHANGED <<held, usbVms, mem, disk, faults>>

---------------------------------------------------------------------------
(* detach_one_usb, on its own or to move a device to another VM.           *)

\* The binding b was made with the running instance of VM v.
Current(b, v) == b # None /\ up[v] /\ b.gen = SocketGeneration(v)

\* The VM that has the device: the one in memory, else the one on record.
\* The binding counts only if it is of the running generation of that VM.
DetachRead ==
    LET b == mem.ports[at.slot]
        v == IF usbVms[Node] # None THEN usbVms[Node]
             ELSE IF b # None THEN b.vm ELSE None
    IN  /\ Attaching("dread")
        /\ at' = [at EXCEPT
                    !.dvm = v,
                    !.pc = IF v = None \/ Stopped(v) THEN "forget" ELSE "dlist",
                    !.known = IF v # None /\ Current(b, v) THEN b ELSE None]
        /\ UNCHANGED <<op, deferred, held, usbVms, mem, disk, pending, view, faults>>

\* By port when the binding counts, else by vid:pid if that is unambiguous.
DetachList ==
    LET k == Kind[DevId]
        matching == {p \in Ports : Listed(at.dvm, p, k)}
        taken == /\ at.known # None /\ held[at.dvm][at.known.port] # None
        ports == IF at.known # None
                 THEN matching \cap {at.known.port} ELSE matching
    IN  /\ Attaching("dlist")
        /\ \/ /\ up[at.dvm] /\ NoFault
              /\ \/ /\ ports = {} /\ ~taken
                    /\ at' = [at EXCEPT !.pc = "forget", !.known = None]
                    /\ UNCHANGED <<op, deferred>>
                 \/ \E p \in ports :
                    /\ ports = {p}
                    /\ at' = [at EXCEPT !.pc = "dcmd", !.port = p, !.known = None]
                    /\ UNCHANGED <<op, deferred>>
                 \/ /\ (ports = {} /\ taken) \/ \E p, q \in ports : p # q
                    /\ DeviceFailed(op, at.want)
           \/ Unanswered(at.dvm) /\ DeviceFailed(op, at.want)
        /\ UNCHANGED <<held, usbVms, mem, disk, pending, view>>

DetachCmd ==
    /\ Attaching("dcmd")
    /\ \/ /\ DetachAnswered(at.dvm, at.port)
          /\ at' = [at EXCEPT !.pc = "forget", !.port = None]
          /\ UNCHANGED <<op, deferred>>
       \/ DetachErred(at.dvm, at.port) /\ DeviceFailed(op, at.want)
    /\ UNCHANGED <<usbVms, mem, disk, pending, view>>

Forgotten(m) ==
    [m EXCEPT !.ports[at.slot] = None,
              !.disconnected = (@ \ {DevId})
                   \cup (IF op.kind = "disconnect" THEN {DevId} ELSE {})]

\* usb_detached goes out, the memory forgets the device, and the state is
\* saved twice.  A move goes on to claim the device for the new VM.
Forget ==
    /\ at.pc = "forget"
    /\ view' = IF at.dvm # None THEN [view EXCEPT ![Node] = None] ELSE view
    /\ usbVms' = [usbVms EXCEPT ![Node] = None]
    /\ mem' = Forgotten(mem)
    /\ pending' = pending \ {DevId}
    /\ \/ /\ disk' = Store(Forgotten(mem)) /\ NoFault
          /\ promised' = CASE op.kind = "disconnect" /\ Persistency -> promised \cup {DevId}
                           [] op.kind \in {"detach", "suspend"} -> promised \ {DevId}
                           [] OTHER -> promised
          /\ at' = IF at.vm = None THEN NoFrame
                   ELSE [at EXCEPT !.pc = "claim", !.dvm = None]
          /\ UNCHANGED <<op, deferred>>
       \/ /\ Persistency /\ Fault("save") /\ DeviceFailed(op, at.want)
          /\ disk' \in {disk, Forgotten(mem)}
          /\ promised' = IF op.kind \in {"detach", "suspend"}
                         THEN promised \ {DevId} ELSE promised
    /\ UNCHANGED <<hostVars, held, observed, rec, requests>>

---------------------------------------------------------------------------
(* The reconcile task: observe(), which takes no operation lock, and then  *)
(* resume_usb.  An error in observe ends the pass.                         *)

Observing(pc) == /\ rec.pc = pc
                 /\ UNCHANGED <<hostVars, op, at, promised, requests>>

ReconcileStart ==
    /\ Observing("idle") /\ InTurn
    /\ deferred' = FALSE
    /\ rec' = [NoRec EXCEPT !.pc = "observe", !.scan = Routed(bus),
                            !.gone = Present(observed) \ Present(Routed(bus))]
    /\ UNCHANGED <<held, usbVms, mem, disk, observed, pending, view, faults>>

\* Read the binding of a device that has gone.
ObserveRead(s) ==
    LET b == mem.ports[s] IN
    /\ Observing("observe") /\ s \in rec.gone
    /\ rec' = [rec EXCEPT !.slot = s, !.binding = b, !.gone = @ \ {s},
                 !.pc = IF b # None /\ Current(b, b.vm) THEN "list" ELSE "forget"]
    /\ UNCHANGED <<held, usbVms, mem, disk, observed, pending, deferred, view, faults>>

ObserveList ==
    LET b == rec.binding IN
    /\ Observing("list")
    /\ \/ /\ up[b.vm] /\ NoFault
          /\ rec' = [rec EXCEPT !.pc = IF Listed(b.vm, b.port, Kind[b.id])
                                       THEN "detach" ELSE "forget"]
       \/ Unanswered(b.vm) /\ rec' = NoRec
    /\ UNCHANGED <<held, usbVms, mem, disk, observed, pending, deferred, view>>

ObserveDetach ==
    LET b == rec.binding IN
    /\ Observing("detach")
    /\ \/ DetachAnswered(b.vm, b.port) /\ rec' = [rec EXCEPT !.pc = "forget"]
       \/ DetachErred(b.vm, b.port) /\ rec' = NoRec
    /\ UNCHANGED <<usbVms, mem, disk, observed, pending, deferred, view>>

\* usb_disconnected goes out and the state is saved.
ObserveForget ==
    LET p == observed[rec.slot]
        m == [mem EXCEPT !.ports[rec.slot] = None]
    IN  /\ Observing("forget")
        /\ view' = [view EXCEPT ![p.node] = None]
        /\ usbVms' = [usbVms EXCEPT ![p.node] = None]
        /\ mem' = m
        /\ \/ /\ disk' = Store(m) /\ NoFault
              /\ pending' = pending \ {Id[p.dev]}
              /\ rec' = [rec EXCEPT !.pc = "observe", !.slot = None, !.binding = None]
           \/ /\ Persistency /\ Fault("save") /\ rec' = NoRec
              /\ UNCHANGED <<disk, pending>>
        /\ UNCHANGED <<held, observed, deferred>>

ObserveDone ==
    /\ Observing("observe") /\ rec.gone = {}
    /\ observed' = rec.scan
    /\ rec' = [NoRec EXCEPT !.pc = "wait"]
    /\ UNCHANGED <<held, usbVms, mem, disk, pending, deferred, view, faults>>

---------------------------------------------------------------------------
(* The daemon dies and starts again: State::load, everything else is new.  *)
(* A crash inside Commit leaves one of the intermediate saves behind.      *)

Crash ==
    /\ Fault("crash")
    /\ disk' \in {disk} \cup (IF Persistency /\ at.pc = "commit"
                              THEN {Selected(mem), Connected(mem)} ELSE {})
    /\ mem' = disk'
    /\ usbVms' = [n \in Nodes |-> None]
    /\ view' = [n \in Nodes |-> None]
    /\ observed' = EmptyBus /\ pending' = {} /\ deferred' = FALSE
    /\ op' = NoOp /\ at' = NoFrame /\ rec' = NoRec
    /\ UNCHANGED <<hostVars, held, promised, requests>>

---------------------------------------------------------------------------

Init ==
    /\ bus = EmptyBus /\ plugs = 0
    /\ up \in [VMs -> BOOLEAN] /\ gen = [v \in VMs |-> 0]
    /\ held = [v \in VMs |-> [p \in Ports |-> None]]
    /\ usbVms = [n \in Nodes |-> None] /\ view = [n \in Nodes |-> None]
    /\ mem = EmptyPersistent /\ disk = EmptyPersistent
    /\ observed = EmptyBus /\ pending = {} /\ deferred = FALSE
    /\ op = NoOp /\ at = NoFrame /\ rec = NoRec
    /\ promised = {} /\ faults = 0 /\ requests = 0

HostNext ==
    \/ \E s \in Slots : Unplug(s) \/ \E d \in Devices : Plug(s, d)
    \/ \E v \in VMs : VmStart(v) \/ VmStop(v)

ApiNext ==
    \/ \E k \in OpKinds, v \in VMs \cup {None}, todo \in SUBSET Slots : ApiSelect(k, v, todo)
    \/ \E k \in OpKinds, v \in VMs \cup {None} : ApiPower(k, v)

OpNext ==
    \/ OpDone
    \/ \E s \in Slots : Skip(s) \/ BeginDetach(s) \/ BeginAttach(s)
    \/ Preflight \/ Claim \/ List \/ AttachCmd \/ StaleDetach \/ Commit \/ Announce
    \/ DetachRead \/ DetachList \/ DetachCmd \/ Forget

RecNext ==
    \/ ReconcileStart
    \/ \E s \in Slots : ObserveRead(s)
    \/ ObserveList \/ ObserveDetach \/ ObserveForget \/ ObserveDone
    \/ ReconcileResume

Next == HostNext \/ (\E v \in VMs, p \in Ports : VmDrop(v, p))
        \/ ApiNext \/ OpNext \/ RecNext \/ Crash

Spec == Init /\ [][Next]_vars

\* The daemon's own steps are never postponed for ever: both tasks run on the
\* tokio runtime, every Crosvm command has a timeout, and the reconcile loop
\* wakes at least every 30 seconds.  Crosvm frees the ports of devices that
\* have gone.  Nothing is assumed of plug events, VM starts or API clients.
Fairness == /\ WF_vars(OpNext) /\ WF_vars(RecNext)
            /\ \A v \in VMs, p \in Ports : WF_vars(VmDrop(v, p))

FairSpec == Spec /\ Fairness

---------------------------------------------------------------------------
(* Properties.                                                             *)

\* The types of the state.
TypeOK ==
    /\ bus \in Bus /\ plugs \in 0..MaxPlugs
    /\ up \in [VMs -> BOOLEAN] /\ gen \in [VMs -> Nat]
    /\ held \in [VMs -> [Ports -> Guest \cup {None}]]
    /\ usbVms \in [Nodes -> VMs \cup {None}]
    /\ mem \in Persistent /\ disk \in Persistent
    /\ observed \in Bus /\ pending \subseteq Ids /\ deferred \in BOOLEAN
    /\ op \in Ops /\ at \in Frames /\ rec \in Recs
    /\ view \in [Nodes -> VMs \cup {None}] /\ promised \subseteq Ids
    /\ faults \in Nat /\ requests \in Nat

\* No VM ever holds a device that the rule of the slot it was plugged into
\* does not give to that VM, nor a hub with its hub driver (UsbGate has those
\* without): not after moves between slots with a remembered selection, devices
\* changing places during a pass, lost answers or crashes.  (attach_one_usb
\* checks allowed_vms long before the attach.)
HeldAllowed ==
    \A v \in VMs, p \in Ports :
        held[v][p] # None =>
            LET g == held[v][p]
                r == Rule[g.slot][g.dev]
            IN  /\ r # None /\ (v = r.target \/ v \in r.allowed)
                /\ g.dev \notin Hubs

\* Step: VM v receives a device at port p.
Receives(v, p) == held'[v][p] # None /\ held[v][p] = None

\* Once usb_detach with permanent = true has succeeded, no VM receives a
\* device of that identity, by a reconcile, a resume, a restart of the daemon
\* or otherwise, until a client asks to attach it, or detaches or suspends it
\* without the mark.
StaysDetached ==
    [][\A v \in VMs, p \in Ports :
          Receives(v, p) => Id[held'[v][p].dev] \notin promised]_vars

\* The device at s of a resume's scan is recorded with the VM it should be
\* with, or need not be.
Settled(s) ==
    LET p == op.scan[s]
        v == ChooseVm(None, Rule[s][p.dev], Id[p.dev])
    IN  \/ bus[s] # p \/ p.dev \in Hubs
        \/ Id[p.dev] \in mem.disconnected
        \/ \E t \in Present(op.scan) \ {s} : Id[op.scan[t].dev] = Id[p.dev]
        \/ v = None
        \/ usbVms[p.node] = v

\* A reconcile that reports neither a failure nor a deferral, after which the
\* daemon sleeps for 30 seconds instead of 2, has left every routed device
\* that is still there with its VM.  Devices that share an identity are
\* exempt: attaching one changes the selection of the other.
QuietPassSettles ==
    [][(OpDone /\ op.by = "reconcile" /\ ~op.failed /\ ~deferred) =>
          \A s \in Present(op.scan) : Settled(s)]_vars

\* No device is held by two VMs (in the calm system, with no command failing).
Exclusive ==
    \A v, w \in VMs : \A p, q \in Ports :
        /\ held[v][p] # None /\ held[v][p].alive
        /\ held[w][q] # None /\ held[w][q].alive
        /\ held[v][p].node = held[w][q].node
        => v = w

\* What a listener that follows usb_attached, usb_detached and
\* usb_disconnected believes of a device that is plugged in is never wrong, and
\* between operations it is what usb_list would answer; a listener may miss an
\* attachment only when the state could not be saved after it.
Saved == "save" \notin Faults \/ faults = 0

ListenerView ==
    \A s \in Present(bus) :
        LET n == bus[s].node
        IN  /\ view[n] \in {None, usbVms[n]}
            /\ Quiescent /\ Saved => view[n] = usbVms[n]

\* suspend_usb that succeeds has taken every device in its scope away from
\* the VMs in its scope, and not only from the daemon's records (calm system).
SuspendReleases ==
    [][(OpDone /\ op.kind = "suspend" /\ ~op.failed) =>
          \A s \in Present(op.scan), v \in VMs, p \in Ports :
             (/\ ~Rule[s][op.scan[s].dev].skip /\ op.vm \in {None, v}
              /\ held[v][p] # None)
             => held[v][p].node # op.scan[s].node \/ ~held[v][p].alive]_vars

\* The device at s is where its rule and the user's choice want it.
Served(s) ==
    LET p == bus[s]
        r == Rule[s][p.dev]
        v == ChooseVm(None, r, Id[p.dev])
    IN  \/ r = None
        \/ p.dev \in Hubs
        \/ Id[p.dev] \in mem.disconnected
        \/ v = None
        \/ v \notin AllowedVms(r)
        \/ ~up[v]
        \/ /\ usbVms[p.node] = v
           /\ \E q \in Ports : held[v][q] # None /\ held[v][q].node = p.node

\* Once plug events, VM restarts, faults and requests cease, every routed
\* device ends up recorded with, and really held by, the running VM its rule
\* or the user's selection names, and stays there.  VMs must have a port more
\* than the attachments that races and lost answers can leak.
Converges == <>[](\A s \in Present(bus) : Served(s))
=============================================================================
