------------------------ MODULE UsbAttachmentProofs ------------------------
(***************************************************************************)
(* Proofs about UsbAttachment, for every value of its constants.           *)
(***************************************************************************)
EXTENDS UsbAttachment, TLAPS

\* The scan of the running operation: a copy of the routed part of the bus.
ScanOK ==
    /\ op.todo \subseteq Present(op.scan)
    /\ \A s \in Present(op.scan) : Rule[s][op.scan[s].dev] # None
    /\ op.kind = "idle" => at.pc = "next"

\* The call on one device.  at.vm is set exactly during an attach, and then
\* the rule allows it and no promise stands against it.
FrameOK ==
    at.pc # "next" =>
        /\ at.slot \in Present(op.scan)
        /\ at.pc \in AttachPcs => at.vm # None
        /\ op.kind \in {"attach", "resume"} <=> at.vm # None
        /\ at.vm # None => /\ at.vm \in AllowedVms(Rule[at.slot][Dev])
                           /\ DevId \notin promised
        /\ at.pc = "stale" => at.stale # None
        /\ at.pc \in {"stale", "commit", "announce"} => at.port # None
        /\ at.pc \in {"dlist", "dcmd"} => at.dvm # None
        /\ at.pc = "dcmd" => at.port # None

\* The reconcile task looks only at devices it has observed.
RecOK ==
    /\ rec.gone \subseteq Present(observed)
    /\ rec.pc \in {"list", "detach"} => rec.binding # None
    /\ rec.pc \in {"list", "detach", "forget"} => rec.slot \in Present(observed)

\* A device node names one plug event.
NodesOK ==
    /\ \A s \in Present(bus) : bus[s].node <= plugs
    /\ \A s \in Present(op.scan) : op.scan[s].node <= plugs
    /\ \A s \in Present(bus) \cap Present(op.scan) :
          bus[s].node = op.scan[s].node => bus[s] = op.scan[s]

\* Past the claim, the device is no hub as long as it is there.
HubOK == (at.pc \in {"list", "attach"} /\ NodeExists) => Dev \notin Hubs

\* An acknowledged mark is in memory and in the state file.
MarksOK == /\ promised \subseteq mem.disconnected
           /\ promised \subseteq disk.disconnected
           /\ promised # {} => Persistency

IInv == /\ TypeOK /\ ScanOK /\ FrameOK /\ RecOK /\ NodesOK /\ HubOK
        /\ MarksOK /\ HeldAllowed

---------------------------------------------------------------------------

THEOREM InitIInv == Init => IInv
  <1> SUFFICES ASSUME Init PROVE IInv OBVIOUS
  <1> USE ConstantsAssumption DEF ConstantsAssumption
  <1>1. EmptyBus \in Bus /\ Present(EmptyBus) = {}
    BY DEF EmptyBus, Bus, Present
  <1>2. EmptyPersistent \in Persistent
    BY DEF EmptyPersistent, Persistent
  <1>3. NoOp \in Ops /\ NoFrame \in Frames /\ NoRec \in Recs
    BY <1>1 DEF NoOp, Ops, OpKinds, NoFrame, Frames, Lists, AttachPcs, DetachPcs, NoRec, Recs,
           RecPcs
  <1>4. TypeOK
    <2>1. plugs \in 0..MaxPlugs /\ gen \in [VMs -> Nat] /\ faults \in Nat /\ requests \in Nat
      BY DEF Init
    <2>2. held \in [VMs -> [Ports -> Guest \cup {None}]]
      BY DEF Init
    <2>3. /\ usbVms \in [Nodes -> VMs \cup {None}]
          /\ view \in [Nodes -> VMs \cup {None}]
      BY DEF Init
    <2> QED BY <1>1, <1>2, <1>3, <2>1, <2>2, <2>3 DEF Init, TypeOK
  <1>5. ScanOK /\ FrameOK /\ RecOK /\ NodesOK /\ HubOK
    BY <1>1 DEF Init, ScanOK, FrameOK, RecOK, NodesOK, HubOK, NoOp, NoFrame, NoRec
  <1>6. MarksOK /\ HeldAllowed
    BY DEF Init, MarksOK, HeldAllowed
  <1> QED BY <1>4, <1>5, <1>6 DEF IInv

---------------------------------------------------------------------------
(* Types.                                                                  *)

LEMMA EmptyTypes ==
    /\ EmptyBus \in Bus /\ Present(EmptyBus) = {}
    /\ NoOp \in Ops /\ NoFrame \in Frames /\ NoRec \in Recs
  <1>1. EmptyBus \in Bus /\ Present(EmptyBus) = {}
    BY DEF EmptyBus, Bus, Present
  <1> QED
    BY <1>1 DEF NoOp, Ops, OpKinds, NoFrame, Frames, Lists, AttachPcs, DetachPcs, NoRec, Recs,
           RecPcs

LEMMA RoutedBus ==
    ASSUME NEW b \in Bus
    PROVE  /\ Routed(b) \in Bus /\ Present(Routed(b)) \subseteq Present(b)
           /\ \A s \in Present(Routed(b)) : Routed(b)[s] = b[s] /\ Rule[s][b[s].dev] # None
  BY DEF Bus, Routed, Present

\* The device a call works on.
LEMMA CurrentDevice ==
    ASSUME TypeOK, ScanOK, NEW s \in Present(op.scan)
    PROVE  /\ s \in Slots /\ op.scan[s] \in Plugged
           /\ op.scan[s].dev \in Devices /\ op.scan[s].node \in Nodes
           /\ Id[op.scan[s].dev] \in Ids /\ Rule[s][op.scan[s].dev] \in Rules
  <1> USE ConstantsAssumption DEF ConstantsAssumption
  <1>1. op.scan \in Bus
    BY DEF TypeOK, Ops
  <1>2. s \in Slots /\ op.scan[s] \in Plugged
    BY <1>1 DEF Bus, Present
  <1> QED BY <1>2 DEF Plugged, ScanOK

LEMMA FailedTyped ==
    ASSUME NEW o \in Ops, NEW want, deferred \in BOOLEAN, DeviceFailed(o, want)
    PROVE  op' \in Ops /\ at' = NoFrame /\ at' \in Frames /\ deferred' \in BOOLEAN
  BY EmptyTypes DEF DeviceFailed, Ops

LEMMA PoppedTyped ==
    ASSUME op \in Ops, NEW s
    PROVE  /\ Popped(s) \in Ops /\ Popped(s).kind = op.kind /\ Popped(s).scan = op.scan
           /\ Popped(s).todo = op.todo \ {s}
  BY DEF Ops, Popped

LEMMA NewFrameTyped ==
    \A s \in Slots, w, u \in VMs \cup {None} :
       [NoFrame EXCEPT !.slot = s, !.want = w, !.vm = u] \in Frames
  <1> SUFFICES ASSUME NEW f \in Frames
               PROVE  \A s \in Slots, w, u \in VMs \cup {None} :
                         [f EXCEPT !.slot = s, !.want = w, !.vm = u] \in Frames
    BY EmptyTypes
  <1> QED BY DEF Frames

\* What the read of the device's current VM makes of a call.
LEMMA EnteredFrame ==
    ASSUME NEW f \in Frames
    PROVE  /\ Entered(f) \in Frames
           /\ Entered(f).slot = f.slot /\ Entered(f).vm = f.vm /\ Entered(f).want = f.want
           /\ Entered(f).gen = f.gen /\ Entered(f).live = f.live
           /\ Entered(f).changed = IsNews(usbVms[op.scan[f.slot].node], f.vm)
           /\ Entered(f).pc = IF MustLeave(usbVms[op.scan[f.slot].node], f.vm)
                              THEN "dread" ELSE "claim"
  <1> DEFINE cur == usbVms[op.scan[f.slot].node]
             pc == IF MustLeave(cur, f.vm) THEN "dread" ELSE "claim"
             news == IsNews(cur, f.vm)
  <1>1. Entered(f) = [f EXCEPT !.pc = pc, !.changed = news]
    BY DEF Entered
  <1>2. pc \in AttachPcs \cup DetachPcs /\ news \in BOOLEAN
    BY DEF AttachPcs, DetachPcs, IsNews
  <1> HIDE DEF pc, news
  <1>3. /\ Entered(f) \in Frames /\ Entered(f).pc = pc /\ Entered(f).changed = news
        /\ Entered(f).slot = f.slot /\ Entered(f).vm = f.vm /\ Entered(f).want = f.want
        /\ Entered(f).gen = f.gen /\ Entered(f).live = f.live
    BY <1>1, <1>2 DEF Frames
  <1> QED BY <1>3 DEF pc, news

LEMMA ChooseTyped ==
    ASSUME TypeOK, NEW r \in Rules, NEW i \in Ids, NEW w \in VMs \cup {None}
    PROVE  ChooseVm(w, r, i) \in VMs \cup {None} /\ Target(r, i) \in VMs \cup {None}
  <1>1. Target(r, i) \in VMs \cup {None}
    BY DEF Target, Rules, TypeOK, Persistent
  <1>2. CASE \E v \in VMs : r.allowed = {v}
    BY <1>1, <1>2 DEF ChooseVm
  <1>3. CASE ~\E v \in VMs : r.allowed = {v}
    BY <1>1, <1>3 DEF ChooseVm
  <1> QED BY <1>2, <1>3

\* What BeginAttach does with the device at s.
LEMMA Begun ==
    ASSUME TypeOK, ScanOK, NEW s \in Slots, BeginAttach(s), NEW v,
           v = ChooseVm(Wanted(s), Rule[s][op.scan[s].dev], Id[op.scan[s].dev])
    PROVE  \/ v = None /\ at' = at /\ op' = Popped(s) /\ deferred' = deferred
           \/ v # None /\ DeviceFailed(Popped(s), Wanted(s))
           \/ /\ v \in AllowedVms(Rule[s][op.scan[s].dev]) /\ v # None
              /\ op' = Popped(s) /\ deferred' = deferred
              /\ at' \in Frames /\ at'.slot = s /\ at'.vm = v
              /\ \/ at'.pc = "preflight" /\ at'.gen = SocketGeneration(v)
                 \/ /\ ~Preflighted(op.scan[s].dev)
                    /\ at'.changed = IsNews(usbVms[op.scan[s].node], v)
                    /\ at'.pc = IF MustLeave(usbVms[op.scan[s].node], v)
                                THEN "dread" ELSE "claim"
  <1> DEFINE d == op.scan[s].dev
             call == [NoFrame EXCEPT !.slot = s, !.want = Wanted(s), !.vm = v]
  <1>1. Id[d] \in Ids /\ Rule[s][d] \in Rules
    BY CurrentDevice DEF BeginAttach, Turn, ScanOK
  <1>2. Wanted(s) \in VMs \cup {None} /\ v \in VMs \cup {None}
    <2>1. Wanted(s) \in VMs \cup {None}
      BY <1>1, ChooseTyped DEF Wanted, TypeOK, Ops
    <2> QED BY <1>1, <2>1, ChooseTyped
  <1>3. None \notin AllowedVms(Rule[s][d])
    BY <1>1, ConstantsAssumption DEF AllowedVms, Rules, ConstantsAssumption
  <1>4. /\ call \in Frames /\ call.slot = s /\ call.vm = v
    <2>1. [NoFrame EXCEPT !.slot = s, !.want = Wanted(s), !.vm = v] \in Frames
      BY <1>2, NewFrameTyped, Zenon
    <2>2. /\ [NoFrame EXCEPT !.slot = s, !.want = Wanted(s), !.vm = v].slot = s
          /\ [NoFrame EXCEPT !.slot = s, !.want = Wanted(s), !.vm = v].vm = v
      BY DEF NoFrame
    <2> QED BY <2>1, <2>2
  <1>5. /\ SocketGeneration(v) \in Generations \cup {None} \/ v = None
    BY <1>2 DEF SocketGeneration, Generations, TypeOK
  <1>6. \/ v = None /\ op' = Popped(s) /\ UNCHANGED <<at, deferred>>
        \/ v # None /\ DeviceFailed(Popped(s), Wanted(s))
        \/ /\ v \in AllowedVms(Rule[s][d]) /\ op' = Popped(s) /\ UNCHANGED <<pending, deferred>>
           /\ at' = IF Preflighted(d)
                    THEN [call EXCEPT !.pc = "preflight", !.gen = SocketGeneration(v)]
                    ELSE Entered(call)
    BY Zenon DEF BeginAttach
  <1> HIDE DEF call
  <1>7. CASE /\ v \in AllowedVms(Rule[s][d]) /\ Preflighted(d)
             /\ at' = [call EXCEPT !.pc = "preflight", !.gen = SocketGeneration(v)]
    BY <1>3, <1>4, <1>5, <1>6, <1>7 DEF Frames, AttachPcs
  <1>8. CASE v \in AllowedVms(Rule[s][d]) /\ ~Preflighted(d) /\ at' = Entered(call)
    BY <1>3, <1>4, <1>6, <1>8, EnteredFrame
  <1> QED BY <1>6, <1>7, <1>8

\* What the preflight leads to.
LEMMA Preflown ==
    ASSUME Preflight, at \in Frames
    PROVE  \/ DeviceFailed(op, at.want)
           \/ /\ up[at.vm] /\ UNCHANGED <<op, deferred>> /\ at' \in Frames
              /\ at'.slot = at.slot /\ at'.vm = at.vm
              /\ at'.gen = at.gen /\ at'.live = UsbList(at.vm)
              /\ at'.changed = IsNews(usbVms[Node], at.vm)
              /\ at'.pc = IF MustLeave(usbVms[Node], at.vm) THEN "dread" ELSE "claim"
  <1> DEFINE f == [at EXCEPT !.live = UsbList(at.vm)]
  <1>1. /\ f \in Frames /\ f.slot = at.slot /\ f.vm = at.vm /\ f.gen = at.gen
        /\ f.live = UsbList(at.vm)
    <2>1. UsbList(at.vm) \in Lists
      BY DEF UsbList, Lists
    <2> QED BY <2>1 DEF Frames
  <1>2. \/ DeviceFailed(op, at.want)
        \/ up[at.vm] /\ UNCHANGED <<op, deferred>> /\ at' = Entered(f)
    BY DEF Preflight
  <1> HIDE DEF f
  <1> QED BY <1>1, <1>2, EnteredFrame DEF Node

\* The choice of the port, by whichever list.
LEMMA Listing ==
    ASSUME List
    PROVE  \/ DeviceFailed(op, at.want)
           \/ \E live : Choose(live) /\ (~Preflighted(Dev) => up[at.vm] /\ live = UsbList(at.vm))
                                    /\ (Preflighted(Dev) => live = at.live)
  BY DEF List

LEMMA StoredTyped ==
    ASSUME disk \in Persistent, NEW m \in Persistent
    PROVE  Store(m) \in Persistent
  BY DEF Store

LEMMA FaultTyped ==
    ASSUME faults \in Nat
    PROVE  /\ NoFault => faults' \in Nat
           /\ \A f : Fault(f) => faults' \in Nat
           /\ \A v : Unanswered(v) => faults' \in Nat
  BY DEF NoFault, Fault, Unanswered

LEMMA HostTyped ==
    ASSUME IInv,
           \/ \E s \in Slots : Unplug(s) \/ \E d \in Devices : Plug(s, d)
           \/ \E v \in VMs : VmStart(v) \/ VmStop(v)
           \/ \E v \in VMs, p \in Ports : VmDrop(v, p)
    PROVE  TypeOK'
  <1> USE DEF IInv, TypeOK, hostVars, daemonVars
  <1> USE ConstantsAssumption DEF ConstantsAssumption
  <1>1. ASSUME NEW s \in Slots, NEW d \in Devices, Plug(s, d) PROVE TypeOK'
    BY <1>1 DEF Plug, Bus, Plugged, Nodes
  <1>2. ASSUME NEW s \in Slots, Unplug(s) PROVE TypeOK'
    <2>1. bus' \in Bus
      BY <1>2 DEF Unplug, Bus
    <2>2. ASSUME NEW g \in Guest PROVE [g EXCEPT !.alive = FALSE] \in Guest
      BY DEF Guest
    <2>3. held' \in [VMs -> [Ports -> Guest \cup {None}]]
      BY <1>2, <2>2 DEF Unplug
    <2> QED BY <1>2, <2>1, <2>3 DEF Unplug
  <1>3. ASSUME NEW v \in VMs, VmStart(v) PROVE TypeOK'
    BY <1>3 DEF VmStart
  <1>4. ASSUME NEW v \in VMs, VmStop(v) PROVE TypeOK'
    BY <1>4 DEF VmStop
  <1>5. ASSUME NEW v \in VMs, NEW p \in Ports, VmDrop(v, p) PROVE TypeOK'
    BY <1>5 DEF VmDrop
  <1> QED BY <1>1, <1>2, <1>3, <1>4, <1>5

LEMMA LoopTyped ==
    ASSUME IInv, ApiNext \/ OpDone \/ ReconcileResume
                 \/ \E s \in Slots : Skip(s) \/ BeginDetach(s) \/ BeginAttach(s)
    PROVE  TypeOK'
  <1> USE DEF IInv, TypeOK, hostVars
  <1>1. Routed(bus) \in Bus
    BY RoutedBus
  <1>2. ASSUME NEW k \in OpKinds, NEW by \in {"api", "reconcile"}, NEW v \in VMs \cup {None},
               NEW todo \in SUBSET Slots, Begin(k, by, v, Routed(bus), todo)
        PROVE  op' \in Ops
    BY <1>1, <1>2 DEF Begin, Ops
  <1>3. ASSUME NEW k \in OpKinds, NEW v \in VMs \cup {None}, NEW todo \in SUBSET Slots,
               ApiSelect(k, v, todo)
        PROVE  TypeOK'
    <2>1. Begin(k, "api", v, Routed(bus), todo) /\ UNCHANGED rec
      BY <1>3 DEF ApiSelect
    <2>2. op' \in Ops
      BY <1>2, <2>1
    <2>3. requests' \in Nat
      BY <1>3 DEF ApiSelect
    <2> QED BY <2>1, <2>2, <2>3 DEF Begin
  <1>4. ASSUME NEW k \in OpKinds, NEW v \in VMs \cup {None}, ApiPower(k, v)
        PROVE  TypeOK'
    <2>1. Present(Routed(bus)) \in SUBSET Slots
      BY DEF Present
    <2>2. Begin(k, "api", v, Routed(bus), Present(Routed(bus))) /\ UNCHANGED rec
      BY <1>4 DEF ApiPower
    <2>3. op' \in Ops /\ requests' \in Nat
      BY <1>2, <1>4, <2>1, <2>2 DEF ApiPower
    <2> QED BY <2>2, <2>3 DEF Begin
  <1>5. ASSUME ReconcileResume PROVE TypeOK'
    <2>1. Present(Routed(bus)) \in SUBSET Slots
      BY DEF Present
    <2>2. rec' \in Recs
      BY <1>5 DEF ReconcileResume, Recs, RecPcs
    <2> QED BY <1>2, <1>5, <2>1, <2>2 DEF ReconcileResume, Begin, OpKinds
  <1>6. ASSUME OpDone PROVE TypeOK'
    BY <1>6, EmptyTypes DEF OpDone
  <1>7. ASSUME NEW s \in Slots, Skip(s) PROVE TypeOK'
    BY <1>7, PoppedTyped DEF Skip, Turn
  <1>8. ASSUME NEW s \in Slots, BeginDetach(s) PROVE TypeOK'
    <2>1. at' \in Frames
      BY <1>8, EmptyTypes DEF BeginDetach, Frames, DetachPcs
    <2> QED BY <1>8, <2>1, PoppedTyped DEF BeginDetach, Turn
  <1>9. ASSUME NEW s \in Slots, BeginAttach(s) PROVE TypeOK'
    <2> DEFINE v == ChooseVm(Wanted(s), Rule[s][op.scan[s].dev], Id[op.scan[s].dev])
    <2>1. Id[op.scan[s].dev] \in Ids
      BY <1>9, CurrentDevice DEF BeginAttach, Turn, ScanOK
    <2>2. Popped(s) \in Ops
      BY PoppedTyped
    <2>3. op' \in Ops /\ at' \in Frames /\ deferred' \in BOOLEAN
      BY <1>9, <2>2, Begun, FailedTyped
    <2>4. pending' \subseteq Ids
      BY <1>9, <2>1 DEF BeginAttach
    <2> QED BY <1>9, <2>3, <2>4 DEF BeginAttach, Turn
  <1> QED BY <1>3, <1>4, <1>5, <1>6, <1>7, <1>8, <1>9 DEF ApiNext

\* A step of the call on one device: what Attaching leaves alone.
LEMMA StepTyped ==
    ASSUME TypeOK, UNCHANGED <<hostVars, observed, rec, requests>>,
           held' \in [VMs -> [Ports -> Guest \cup {None}]],
           usbVms' \in [Nodes -> VMs \cup {None}], view' \in [Nodes -> VMs \cup {None}],
           mem' \in Persistent, disk' \in Persistent,
           pending' \subseteq Ids, promised' \subseteq Ids, deferred' \in BOOLEAN,
           op' \in Ops, at' \in Frames, faults' \in Nat
    PROVE  TypeOK'
  BY DEF TypeOK, hostVars

\* The saves of Commit and of Forget.
LEMMA SavedTyped ==
    ASSUME IInv, at.pc # "next"
    PROVE  /\ Forgotten(mem) \in Persistent
           /\ at.vm # None =>
                Selected(mem) \in Persistent /\ Connected(mem) \in Persistent
           /\ at.vm # None /\ at.port # None => Bound(mem) \in Persistent
  <1> USE DEF IInv
  <1>1. at.slot \in Slots /\ DevId \in Ids
    BY CurrentDevice DEF FrameOK, DevId, Dev
  <1>2. /\ at.vm \in VMs \cup {None} /\ at.port \in Ports \cup {None}
        /\ at.gen \in Generations \cup {None}
    BY DEF TypeOK, Frames
  <1>3. mem \in Persistent
    BY DEF TypeOK
  <1>4. Forgotten(mem) \in Persistent
    BY <1>1, <1>3 DEF Forgotten, Persistent
  <1>5. ASSUME at.vm # None
        PROVE  Selected(mem) \in Persistent /\ Connected(mem) \in Persistent
    <2>1. Selected(mem) \in Persistent
      BY <1>1, <1>2, <1>3, <1>5 DEF Selected, Persistent
    <2> QED BY <1>1, <2>1 DEF Connected, Persistent
  <1>6. ASSUME at.vm # None, at.port # None PROVE Bound(mem) \in Persistent
    <2>1. [vm |-> at.vm, port |-> at.port, gen |-> at.gen, id |-> DevId] \in Binding
      BY <1>1, <1>2, <1>6 DEF Binding
    <2> QED BY <1>1, <1>5, <1>6, <2>1 DEF Bound, Persistent
  <1> QED BY <1>4, <1>5, <1>6

LEMMA HeldTyped ==
    ASSUME TypeOK
    PROVE  \A v \in VMs, p \in Ports : DetachAnswered(v, p) \/ DetachErred(v, p) =>
              held' \in [VMs -> [Ports -> Guest \cup {None}]] /\ faults' \in Nat
  BY FaultTyped DEF TypeOK, DetachAnswered, DetachErred

AttachStep ==
    Preflight \/ Claim \/ List \/ AttachCmd \/ StaleDetach \/ Commit \/ Announce

LEMMA AttachTyped ==
    ASSUME IInv, AttachStep
    PROVE  TypeOK'
  <1> USE DEF IInv
  <1>a. deferred \in BOOLEAN /\ op \in Ops /\ at \in Frames /\ faults \in Nat /\ promised \subseteq Ids
    BY DEF TypeOK
  <1>b. at.pc # "next" => /\ at.slot \in Slots /\ Dev \in Devices /\ Node \in Nodes /\ DevId \in Ids
    BY CurrentDevice DEF FrameOK, Dev, Node, DevId
  <1>c. NoFrame \in Frames
    BY EmptyTypes
  <1>1. CASE Claim
    <2>1. mem.ports[at.slot] \in Binding \cup {None}
      BY <1>1, <1>b DEF Claim, Attaching, TypeOK, Persistent
    <2>2. SocketGeneration(at.vm) \in Generations \cup {None}
      BY <1>1, <1>a DEF Claim, Attaching, FrameOK, AttachPcs, Frames, SocketGeneration,
                        Generations, TypeOK
    <2>3. op' \in Ops /\ at' \in Frames /\ deferred' \in BOOLEAN
      <3>1. CASE DeviceFailed(op, at.want)
        BY <1>a, <3>1, FailedTyped
      <3>2. CASE DeviceDone
        BY <1>a, <1>c, <3>2 DEF DeviceDone
      <3>3. CASE /\ at' = [at EXCEPT !.pc = "list", !.known = mem.ports[at.slot],
                              !.gen = IF Preflighted(Dev) THEN @ ELSE SocketGeneration(at.vm)]
                 /\ UNCHANGED <<op, deferred>>
        <4> DEFINE g == IF Preflighted(Dev) THEN at.gen ELSE SocketGeneration(at.vm)
        <4>1. at' = [at EXCEPT !.pc = "list", !.known = mem.ports[at.slot], !.gen = g]
          BY <1>a, <3>3 DEF Frames
        <4>2. g \in Generations \cup {None}
          BY <1>a, <2>2 DEF Frames
        <4> HIDE DEF g
        <4>3. at' \in Frames
          BY <1>a, <2>1, <4>1, <4>2 DEF Frames, AttachPcs
        <4> QED BY <1>a, <3>3, <4>3
      <3> QED BY <1>1, <3>1, <3>2, <3>3 DEF Claim
    <2>4. faults' \in Nat
      BY <1>1, <1>a, FaultTyped DEF Claim
    <2> QED BY <1>1, <1>a, <2>3, <2>4, StepTyped DEF Claim, Attaching, TypeOK
  <1>2. CASE List
    <2>1. \A live : StalePort(live) \in Ports \cup {None}
      BY <1>a DEF StalePort, OwnBinding, Frames, Binding
    <2>2. \A live : Reusable(live) => at.known.port \in Ports
      BY <1>a DEF Reusable, OwnBinding, Frames, Binding
    <2>3. op' \in Ops /\ at' \in Frames /\ deferred' \in BOOLEAN
      <3>1. CASE DeviceFailed(op, at.want)
        BY <1>a, <3>1, FailedTyped
      <3>2. ASSUME NEW live, Choose(live) PROVE op' \in Ops /\ at' \in Frames /\ deferred' \in BOOLEAN
        <4>0. UNCHANGED <<op, deferred>>
          BY <3>2 DEF Choose
        <4>1. CASE Reusable(live)
          <5>1. at' = [at EXCEPT !.pc = "commit", !.port = at.known.port]
            BY <3>2, <4>1 DEF Choose
          <5>2. at' \in Frames
            BY <1>a, <2>2, <4>1, <5>1 DEF Frames, AttachPcs
          <5> QED BY <1>a, <4>0, <5>2
        <4>2. CASE ~Reusable(live)
          <5> DEFINE stale == StalePort(live)
          <5>1. at' = [at EXCEPT !.pc = "attach", !.changed = TRUE, !.stale = stale]
            BY <3>2, <4>2 DEF Choose
          <5>2. stale \in Ports \cup {None}
            BY <2>1
          <5> HIDE DEF stale
          <5>3. at' \in Frames
            BY <1>a, <5>1, <5>2 DEF Frames, AttachPcs
          <5> QED BY <1>a, <4>0, <5>3
        <4> QED BY <4>1, <4>2
      <3> QED BY <1>2, <3>1, <3>2, Listing
    <2>4. faults' \in Nat
      BY <1>2, <1>a, FaultTyped DEF List, Choose
    <2> QED BY <1>2, <1>a, <2>3, <2>4, StepTyped DEF List, Attaching, TypeOK
  <1>3. CASE AttachCmd
    <2>1. held' \in [VMs -> [Ports -> Guest \cup {None}]]
      <3>1. CASE UNCHANGED held
        BY <3>1 DEF TypeOK
      <3>2. ASSUME NEW p \in FreePorts(at.vm),
                   held' = [held EXCEPT ![at.vm][p] =
                      [slot |-> at.slot, dev |-> Dev, node |-> Node, alive |-> TRUE]]
            PROVE  held' \in [VMs -> [Ports -> Guest \cup {None}]]
        <4>1. [slot |-> at.slot, dev |-> Dev, node |-> Node, alive |-> TRUE] \in Guest
          BY <1>3, <1>b DEF AttachCmd, Attaching, Guest
        <4> QED BY <3>2, <4>1 DEF TypeOK
      <3> QED BY <1>3, <3>1, <3>2 DEF AttachCmd
    <2>2. op' \in Ops /\ at' \in Frames /\ deferred' \in BOOLEAN
      <3>1. CASE DeviceFailed(op, at.want)
        BY <1>a, <3>1, FailedTyped
      <3>2. ASSUME NEW p \in FreePorts(at.vm), UNCHANGED <<op, deferred>>,
                   at' = LET stale == IF at.stale = p THEN None ELSE at.stale
                         IN  [at EXCEPT !.port = p, !.stale = stale,
                                !.pc = IF stale = None THEN "commit" ELSE "stale"]
            PROVE  op' \in Ops /\ at' \in Frames /\ deferred' \in BOOLEAN
        <4>1. p \in Ports
          BY DEF FreePorts
        <4> DEFINE stale == IF at.stale = p THEN None ELSE at.stale
        <4>2. stale \in Ports \cup {None}
          BY <1>a DEF Frames
        <4> HIDE DEF stale
        <4>3. at' = [at EXCEPT !.port = p, !.stale = stale,
                               !.pc = IF stale = None THEN "commit" ELSE "stale"]
          BY <3>2 DEF stale
        <4> QED BY <1>a, <3>2, <4>1, <4>2, <4>3, ZenonT(30) DEF Frames, AttachPcs
      <3> QED BY <1>3, <3>1, <3>2 DEF AttachCmd
    <2>3. faults' \in Nat
      BY <1>3, <1>a, FaultTyped DEF AttachCmd
    <2> QED BY <1>3, <1>a, <2>1, <2>2, <2>3, StepTyped DEF AttachCmd, Attaching, TypeOK
  <1>4. CASE StaleDetach
    <2>1. at.vm \in VMs /\ at.stale \in Ports
      BY <1>4, <1>a DEF StaleDetach, Attaching, FrameOK, AttachPcs, Frames
    <2>2. held' \in [VMs -> [Ports -> Guest \cup {None}]] /\ faults' \in Nat
      BY <1>4, <2>1, HeldTyped DEF StaleDetach
    <2>3. op' \in Ops /\ at' \in Frames /\ deferred' \in BOOLEAN
      <3>1. CASE DeviceFailed(op, at.want)
        BY <1>a, <3>1, FailedTyped
      <3>2. CASE at' = [at EXCEPT !.pc = "commit"] /\ UNCHANGED <<op, deferred>>
        BY <1>a, <3>2 DEF Frames, AttachPcs
      <3> QED BY <1>4, <3>1, <3>2 DEF StaleDetach
    <2> QED BY <1>4, <1>a, <2>2, <2>3, StepTyped DEF StaleDetach, Attaching, TypeOK
  <1>5. CASE Commit
    <2>1. at.pc = "commit" /\ at.vm \in VMs
      BY <1>5, <1>a DEF Commit, Attaching, FrameOK, AttachPcs, Frames
    <2>2. /\ Selected(mem) \in Persistent /\ Connected(mem) \in Persistent
          /\ Bound(mem) \in Persistent
      BY <1>5, <2>1, SavedTyped DEF Commit, Attaching, FrameOK, AttachPcs
    <2>3. mem' \in Persistent /\ disk' \in Persistent
      BY <1>5, <2>2, StoredTyped DEF Commit, TypeOK
    <2>4. usbVms' \in [Nodes -> VMs \cup {None}]
      BY <1>5, <1>b, <2>1 DEF Commit, TypeOK
    <2>5. op' \in Ops /\ at' \in Frames /\ deferred' \in BOOLEAN
      <3>1. CASE DeviceFailed(op, at.want)
        BY <1>a, <3>1, FailedTyped
      <3>2. CASE at' = [at EXCEPT !.pc = "announce"] /\ UNCHANGED <<op, deferred>>
        BY <1>a, <3>2 DEF Frames, AttachPcs
      <3> QED BY <1>5, <3>1, <3>2 DEF Commit
    <2>6. faults' \in Nat
      BY <1>5, <1>a, FaultTyped DEF Commit
    <2> QED BY <1>5, <1>a, <2>3, <2>4, <2>5, <2>6, StepTyped DEF Commit, Attaching, TypeOK
  <1>6. CASE Announce
    <2>1. at.pc = "announce" /\ at.vm \in VMs
      BY <1>6, <1>a DEF Announce, Attaching, FrameOK, AttachPcs, Frames
    <2>2. view' \in [Nodes -> VMs \cup {None}]
      BY <1>6, <1>b, <2>1 DEF Announce, TypeOK
    <2> QED BY <1>6, <1>a, <1>c, <2>2, StepTyped DEF Announce, Attaching, DeviceDone, TypeOK
  <1>7. CASE Preflight
    <2>1. op' \in Ops /\ at' \in Frames /\ deferred' \in BOOLEAN
      BY <1>7, <1>a, Preflown, FailedTyped
    <2>2. faults' \in Nat
      BY <1>7, <1>a, FaultTyped DEF Preflight
    <2> QED BY <1>7, <1>a, <2>1, <2>2, StepTyped DEF Preflight, Attaching, TypeOK
  <1> QED BY <1>1, <1>2, <1>3, <1>4, <1>5, <1>6, <1>7 DEF AttachStep

LEMMA DetachTyped ==
    ASSUME IInv, DetachRead \/ DetachList \/ DetachCmd \/ Forget
    PROVE  TypeOK'
  <1> USE DEF IInv
  <1>a. deferred \in BOOLEAN /\ op \in Ops /\ at \in Frames /\ faults \in Nat /\ promised \subseteq Ids
    BY DEF TypeOK
  <1>b. at.pc # "next" => /\ at.slot \in Slots /\ Dev \in Devices /\ Node \in Nodes /\ DevId \in Ids
    BY CurrentDevice DEF FrameOK, Dev, Node, DevId
  <1>c. NoFrame \in Frames
    BY EmptyTypes
  <1>1. CASE DetachRead
    <2> DEFINE b == mem.ports[at.slot]
               v == IF usbVms[Node] # None THEN usbVms[Node]
                    ELSE IF b # None THEN b.vm ELSE None
    <2>1. b \in Binding \cup {None}
      BY <1>1, <1>b DEF DetachRead, Attaching, TypeOK, Persistent
    <2>2. v \in VMs \cup {None}
      BY <1>1, <1>b, <2>1 DEF DetachRead, Attaching, TypeOK, Binding
    <2> DEFINE pc == IF v = None \/ Stopped(v) THEN "forget" ELSE "dlist"
               known == IF v # None /\ Current(b, v) THEN b ELSE None
    <2>3. at' = [at EXCEPT !.dvm = v, !.pc = pc, !.known = known]
      BY <1>1 DEF DetachRead
    <2>4. pc \in DetachPcs /\ known \in Binding \cup {None}
      BY <2>1 DEF DetachPcs
    <2> HIDE DEF v, pc, known
    <2>5. at' \in Frames
      BY <1>a, <2>2, <2>3, <2>4 DEF Frames
    <2> QED BY <1>1, <1>a, <2>5, StepTyped, FaultTyped DEF DetachRead, Attaching, TypeOK
  <1>2. CASE DetachList
    <2>1. op' \in Ops /\ at' \in Frames /\ deferred' \in BOOLEAN
      <3>1. CASE DeviceFailed(op, at.want)
        BY <1>a, <3>1, FailedTyped
      <3>2. CASE /\ at' = [at EXCEPT !.pc = "forget", !.known = None]
                 /\ UNCHANGED <<op, deferred>>
        BY <1>a, <3>2 DEF Frames, DetachPcs
      <3>3. ASSUME NEW p \in Ports, UNCHANGED <<op, deferred>>,
                   at' = [at EXCEPT !.pc = "dcmd", !.port = p, !.known = None]
            PROVE  op' \in Ops /\ at' \in Frames /\ deferred' \in BOOLEAN
        BY <1>a, <3>3 DEF Frames, DetachPcs
      <3> QED BY <1>2, <3>1, <3>2, <3>3 DEF DetachList
    <2>2. faults' \in Nat
      BY <1>2, <1>a, FaultTyped DEF DetachList
    <2> QED BY <1>2, <1>a, <2>1, <2>2, StepTyped DEF DetachList, Attaching, TypeOK
  <1>3. CASE DetachCmd
    <2>1. at.dvm \in VMs /\ at.port \in Ports
      BY <1>3, <1>a DEF DetachCmd, Attaching, FrameOK, Frames
    <2>2. held' \in [VMs -> [Ports -> Guest \cup {None}]] /\ faults' \in Nat
      BY <1>3, <2>1, HeldTyped DEF DetachCmd
    <2>3. op' \in Ops /\ at' \in Frames /\ deferred' \in BOOLEAN
      <3>1. CASE DeviceFailed(op, at.want)
        BY <1>a, <3>1, FailedTyped
      <3>2. CASE at' = [at EXCEPT !.pc = "forget", !.port = None] /\ UNCHANGED <<op, deferred>>
        BY <1>a, <3>2 DEF Frames, DetachPcs
      <3> QED BY <1>3, <3>1, <3>2 DEF DetachCmd
    <2> QED BY <1>3, <1>a, <2>2, <2>3, StepTyped DEF DetachCmd, Attaching, TypeOK
  <1>4. CASE Forget
    <2>1. Forgotten(mem) \in Persistent
      BY <1>4, SavedTyped DEF Forget
    <2>2. mem' \in Persistent /\ disk' \in Persistent
      BY <1>4, <2>1, StoredTyped DEF Forget, TypeOK
    <2>3. usbVms' \in [Nodes -> VMs \cup {None}] /\ view' \in [Nodes -> VMs \cup {None}]
      BY <1>4, <1>b DEF Forget, TypeOK
    <2>4. promised' \subseteq Ids
      BY <1>4, <1>a, <1>b DEF Forget
    <2>5. op' \in Ops /\ at' \in Frames /\ deferred' \in BOOLEAN
      <3>1. CASE DeviceFailed(op, at.want)
        BY <1>a, <3>1, FailedTyped
      <3>2. CASE at' = NoFrame /\ UNCHANGED <<op, deferred>>
        BY <1>a, <1>c, <3>2
      <3>3. CASE at' = [at EXCEPT !.pc = "claim", !.dvm = None] /\ UNCHANGED <<op, deferred>>
        BY <1>a, <3>3 DEF Frames, AttachPcs
      <3> QED BY <1>4, <3>1, <3>2, <3>3 DEF Forget
    <2>6. faults' \in Nat
      BY <1>4, <1>a, FaultTyped DEF Forget
    <2>7. pending' \subseteq Ids
      BY <1>4 DEF Forget, TypeOK
    <2> QED BY <1>4, <2>2, <2>3, <2>4, <2>5, <2>6, <2>7, StepTyped DEF Forget, TypeOK
  <1> QED BY <1>1, <1>2, <1>3, <1>4

LEMMA ReconcileTyped ==
    ASSUME IInv,
           \/ ReconcileStart \/ (\E s \in Slots : ObserveRead(s))
           \/ ObserveList \/ ObserveDetach \/ ObserveForget \/ ObserveDone
    PROVE  TypeOK'
  <1> USE DEF IInv, TypeOK, hostVars
  <1>a. NoRec \in Recs
    BY EmptyTypes
  <1>1. CASE ReconcileStart
    <2>1. Routed(bus) \in Bus /\ Present(observed) \subseteq Slots
      BY RoutedBus DEF Present
    <2>2. rec' \in Recs
      BY <1>1, <1>a, <2>1 DEF ReconcileStart, Recs, RecPcs
    <2> QED BY <1>1, <2>2 DEF ReconcileStart, Observing
  <1>2. ASSUME NEW s \in Slots, ObserveRead(s) PROVE TypeOK'
    <2>1. mem.ports[s] \in Binding \cup {None}
      BY DEF Persistent
    <2> DEFINE pc == IF mem.ports[s] # None /\ Current(mem.ports[s], mem.ports[s].vm)
                     THEN "list" ELSE "forget"
    <2>2. pc \in RecPcs
      BY DEF RecPcs
    <2>3. rec' = [rec EXCEPT !.slot = s, !.binding = mem.ports[s], !.gone = @ \ {s}, !.pc = pc]
      BY <1>2 DEF ObserveRead
    <2> HIDE DEF pc
    <2>4. rec' \in Recs
      BY <2>1, <2>2, <2>3 DEF Recs
    <2> QED BY <1>2, <2>4 DEF ObserveRead, Observing
  <1>3. CASE ObserveList
    <2>1. rec' \in Recs
      BY <1>3, <1>a DEF ObserveList, Recs, RecPcs
    <2> QED BY <1>3, <2>1, FaultTyped DEF ObserveList, Observing
  <1>4. CASE ObserveDetach
    <2>1. rec' \in Recs
      BY <1>4, <1>a DEF ObserveDetach, Recs, RecPcs
    <2>2. rec.binding.vm \in VMs /\ rec.binding.port \in Ports
      BY <1>4 DEF ObserveDetach, Observing, RecOK, Recs, Binding
    <2>3. held' \in [VMs -> [Ports -> Guest \cup {None}]] /\ faults' \in Nat
      BY <1>4, <2>2, HeldTyped DEF ObserveDetach
    <2> QED BY <1>4, <2>1, <2>3 DEF ObserveDetach, Observing
  <1>5. CASE ObserveForget
    <2>1. rec.slot \in Slots /\ observed[rec.slot] \in Plugged
      BY <1>5 DEF ObserveForget, Observing, RecOK, Present, Bus
    <2>2. rec' \in Recs
      BY <1>5, <1>a DEF ObserveForget, Recs, RecPcs
    <2>3. [mem EXCEPT !.ports[rec.slot] = None] \in Persistent
      BY <2>1 DEF Persistent
    <2>4. mem' \in Persistent /\ disk' \in Persistent
      BY <1>5, <2>3, StoredTyped DEF ObserveForget
    <2>5. usbVms' \in [Nodes -> VMs \cup {None}] /\ view' \in [Nodes -> VMs \cup {None}]
      BY <1>5, <2>1 DEF ObserveForget, Plugged
    <2>6. faults' \in Nat /\ pending' \subseteq Ids
      BY <1>5, FaultTyped DEF ObserveForget
    <2> QED BY <1>5, <2>2, <2>4, <2>5, <2>6 DEF ObserveForget, Observing
  <1>6. CASE ObserveDone
    <2>1. rec' \in Recs /\ rec.scan \in Bus
      BY <1>6, <1>a DEF ObserveDone, Recs, RecPcs
    <2> QED BY <1>6, <2>1 DEF ObserveDone, Observing
  <1> QED BY <1>1, <1>2, <1>3, <1>4, <1>5, <1>6

LEMMA CrashTyped ==
    ASSUME IInv, Crash
    PROVE  TypeOK'
  <1> USE DEF IInv
  <1>1. disk' \in Persistent
    <2>1. CASE disk' = disk
      BY <2>1 DEF TypeOK
    <2>2. CASE at.pc = "commit" /\ disk' \in {Selected(mem), Connected(mem)}
      BY <2>2, SavedTyped DEF FrameOK, AttachPcs
    <2> QED BY <2>1, <2>2 DEF Crash
  <1>2. mem' \in Persistent /\ faults' \in Nat
    BY <1>1, FaultTyped DEF Crash, TypeOK
  <1>3. usbVms' \in [Nodes -> VMs \cup {None}] /\ view' \in [Nodes -> VMs \cup {None}]
    BY DEF Crash
  <1> QED BY <1>1, <1>2, <1>3, EmptyTypes DEF Crash, TypeOK, hostVars

THEOREM TypeStep == IInv /\ [Next]_vars => TypeOK'
  <1> SUFFICES ASSUME IInv, [Next]_vars PROVE TypeOK' OBVIOUS
  <1>1. CASE UNCHANGED vars
    BY <1>1 DEF IInv, TypeOK, vars
  <1>2. CASE Next
    BY <1>2, HostTyped, LoopTyped, AttachTyped, DetachTyped, ReconcileTyped, CrashTyped
    DEF Next, HostNext, OpNext, RecNext, AttachStep
  <1> QED BY <1>1, <1>2

---------------------------------------------------------------------------
(* What the steps do to the operation and to its call.                     *)

DetachStep == DetachRead \/ DetachList \/ DetachCmd \/ Forget

\* A step of a call ends it, and perhaps marks the operation failed, or goes
\* on with the same operation and the same device.
LEMMA CallStep ==
    ASSUME IInv, AttachStep \/ DetachStep
    PROVE  /\ at.pc # "next"
           /\ \/ at' = NoFrame /\ op' \in {op, [op EXCEPT !.failed = TRUE]}
              \/ op' = op /\ at'.slot = at.slot /\ at'.vm = at.vm
           /\ op'.scan = op.scan /\ op'.kind = op.kind /\ op'.todo = op.todo
           /\ UNCHANGED <<hostVars, observed, rec>>
  <1> DEFINE ends == at' = NoFrame /\ op' \in {op, [op EXCEPT !.failed = TRUE]}
             goes == op' = op /\ at'.slot = at.slot /\ at'.vm = at.vm
  <1>a. op \in Ops /\ at \in Frames
    BY DEF IInv, TypeOK
  <1>b. ASSUME NEW w, DeviceFailed(op, w) PROVE ends
    BY <1>b DEF DeviceFailed
  <1>c. DeviceDone => ends
    BY DEF DeviceDone
  <1>d. ends \/ goes => op'.scan = op.scan /\ op'.kind = op.kind /\ op'.todo = op.todo
    BY <1>a DEF Ops
  <1>0. CASE Preflight
    BY <1>0, <1>a, <1>b, <1>d, Preflown DEF Preflight, Attaching
  <1>1. CASE Claim
    BY <1>1, <1>a, <1>b, <1>c, <1>d DEF Claim, Attaching, Frames
  <1>7. CASE List
    <2>1. ASSUME NEW live, Choose(live) PROVE goes
      BY <1>a, <2>1 DEF Choose, Frames
    <2> QED BY <1>7, <1>b, <1>d, <2>1, Listing DEF List, Attaching
  <1>2. CASE AttachCmd
    BY <1>2, <1>a, <1>b, <1>d DEF AttachCmd, Attaching, Frames
  <1>3. CASE StaleDetach \/ Commit \/ Announce
    BY <1>3, <1>a, <1>b, <1>c, <1>d DEF StaleDetach, Commit, Announce, Attaching, Frames
  <1>4. CASE DetachRead \/ DetachCmd
    BY <1>4, <1>a, <1>b, <1>d DEF DetachRead, DetachCmd, Attaching, Frames
  <1>5. CASE DetachList
    BY <1>5, <1>a, <1>b, <1>d DEF DetachList, Attaching, Frames
  <1>6. CASE Forget
    BY <1>6, <1>a, <1>b, <1>d DEF Forget, Frames
  <1> QED BY <1>0, <1>1, <1>2, <1>3, <1>4, <1>5, <1>6, <1>7 DEF AttachStep, DetachStep

\* A step that begins an operation, or a device's turn in it.
BeginStep == ApiNext \/ ReconcileResume
TurnStep  == \E s \in Slots : Skip(s) \/ BeginDetach(s) \/ BeginAttach(s)

LEMMA BeginScan ==
    ASSUME IInv, BeginStep
    PROVE  /\ op'.scan = Routed(bus) /\ op'.todo \subseteq Present(op'.scan)
           /\ op.kind = "idle" /\ UNCHANGED <<at, promised, mem, disk, held, hostVars, observed>>
           /\ rec'.gone = rec.gone /\ rec'.slot = rec.slot
           /\ rec'.pc \in {"list", "detach", "forget"} => rec' = rec
  <1>a. rec \in Recs
    BY DEF IInv, TypeOK
  <1>1. CASE ApiNext
    BY <1>1 DEF ApiNext, ApiSelect, ApiPower, Begin
  <1>2. CASE ReconcileResume
    BY <1>2, <1>a DEF ReconcileResume, Begin, Recs
  <1> QED BY <1>1, <1>2 DEF BeginStep

LEMMA TurnScan ==
    ASSUME IInv, NEW s \in Slots, Skip(s) \/ BeginDetach(s) \/ BeginAttach(s)
    PROVE  /\ s \in Present(op.scan) /\ op'.todo = op.todo \ {s}
           /\ op'.scan = op.scan /\ op'.kind = op.kind
           /\ UNCHANGED <<hostVars, observed, rec, mem, disk, held>>
  <1>a. op \in Ops /\ s \in Present(op.scan)
    BY DEF IInv, TypeOK, ScanOK, Skip, BeginDetach, BeginAttach, Turn
  <1>b. ASSUME NEW w, DeviceFailed(Popped(s), w)
        PROVE  op'.todo = op.todo \ {s} /\ op'.scan = op.scan /\ op'.kind = op.kind
    BY <1>a, <1>b, PoppedTyped DEF DeviceFailed, Ops
  <1>1. CASE Skip(s) \/ BeginDetach(s)
    BY <1>1, <1>a, PoppedTyped DEF Skip, BeginDetach, Turn
  <1>2. CASE BeginAttach(s)
    <2>1. op' = Popped(s) \/ DeviceFailed(Popped(s), Wanted(s))
      BY <1>2, Begun DEF IInv
    <2>2. UNCHANGED <<hostVars, observed, rec, mem, disk, held>>
      BY <1>2 DEF BeginAttach, Turn
    <2> QED BY <1>a, <1>b, <2>1, <2>2, PoppedTyped
  <1> QED BY <1>1, <1>2

LEMMA Ended ==
    /\ \A o, w : DeviceFailed(o, w) => at' = NoFrame /\ at'.pc = "next"
    /\ DeviceDone => at' = NoFrame /\ at'.pc = "next"
    /\ NoFrame.pc = "next"
  BY DEF DeviceFailed, DeviceDone, NoFrame

\* The other steps leave the operation and its call alone.
OtherStep ==
    \/ HostNext \/ (\E v \in VMs, p \in Ports : VmDrop(v, p))
    \/ ReconcileStart \/ (\E s \in Slots : ObserveRead(s))
    \/ ObserveList \/ ObserveDetach \/ ObserveForget \/ ObserveDone

LEMMA StepCases ==
    Next => \/ BeginStep \/ OpDone \/ TurnStep \/ AttachStep \/ DetachStep
            \/ OtherStep \/ Crash
  BY DEF Next, OpNext, RecNext, BeginStep, TurnStep, AttachStep, DetachStep, OtherStep

LEMMA OtherFrame == OtherStep => UNCHANGED <<op, at, promised>>
  BY DEF OtherStep, HostNext, Plug, Unplug, VmStart, VmStop, VmDrop, daemonVars,
         ReconcileStart, ObserveRead, ObserveList, ObserveDetach, ObserveForget,
         ObserveDone, Observing

---------------------------------------------------------------------------
(* The other conjuncts.                                                    *)

LEMMA ScanStep == IInv /\ Next => ScanOK'
  <1> SUFFICES ASSUME IInv, Next PROVE ScanOK' OBVIOUS
  <1>a. op \in Ops /\ ScanOK
    BY DEF IInv, TypeOK
  <1>1. CASE BeginStep
    <2>1. \A s \in Present(op'.scan) : Rule[s][op'.scan[s].dev] # None
      BY <1>1, BeginScan, RoutedBus DEF IInv, TypeOK
    <2>2. at'.pc = "next"
      BY <1>1, <1>a, BeginScan DEF ScanOK
    <2> QED BY <1>1, <2>1, <2>2, BeginScan DEF ScanOK
  <1>2. CASE OpDone
    BY <1>2, EmptyTypes DEF OpDone, ScanOK, NoOp
  <1>3. ASSUME NEW s \in Slots, Skip(s) \/ BeginDetach(s) \/ BeginAttach(s) PROVE ScanOK'
    <2>1. op'.kind = "idle" => at'.pc = "next"
      BY <1>3, <1>a, TurnScan DEF Skip, BeginDetach, BeginAttach, Turn, ScanOK
    <2> QED BY <1>3, <1>a, <2>1, TurnScan DEF ScanOK, Present
  <1>4. CASE AttachStep \/ DetachStep
    BY <1>4, <1>a, CallStep DEF ScanOK, Present
  <1>5. CASE OtherStep
    BY <1>5, <1>a, OtherFrame DEF ScanOK, Present
  <1>6. CASE Crash
    <2>1. op' = NoOp /\ at' = NoFrame
      BY <1>6 DEF Crash
    <2> QED BY <2>1, EmptyTypes DEF ScanOK, NoOp, NoFrame
  <1> QED BY <1>1, <1>2, <1>3, <1>4, <1>5, <1>6, StepCases DEF TurnStep

LEMMA NodesStep == IInv /\ Next => NodesOK'
  <1> SUFFICES ASSUME IInv, Next PROVE NodesOK' OBVIOUS
  <1>a. /\ op \in Ops /\ bus \in Bus /\ plugs \in Nat /\ NodesOK
        /\ \A s \in Present(bus) : bus[s].node \in Nat
        /\ \A s \in Present(op.scan) : op.scan[s].node \in Nat
    BY ConstantsAssumption, CurrentDevice
    DEF IInv, TypeOK, Bus, Plugged, Nodes, Present, ConstantsAssumption
  <1>1. CASE BeginStep
    <2>1. op'.scan = Routed(bus) /\ UNCHANGED <<bus, plugs>>
      BY <1>1, BeginScan DEF hostVars
    <2>2. \A s \in Present(Routed(bus)) : s \in Present(bus) /\ Routed(bus)[s] = bus[s]
      BY <1>a, RoutedBus
    <2>3. \A s \in Present(op'.scan) : s \in Present(bus) /\ op'.scan[s] = bus[s]
      BY <2>1, <2>2
    <2>4. /\ \A s \in Present(bus') : bus'[s].node <= plugs'
          /\ \A s \in Present(op'.scan) : op'.scan[s].node <= plugs'
      BY <1>a, <2>1, <2>3 DEF NodesOK
    <2> QED BY <2>1, <2>3, <2>4 DEF NodesOK
  <1>2. CASE OpDone \/ Crash
    BY <1>2, <1>a, EmptyTypes DEF OpDone, Crash, NodesOK, NoOp, hostVars, Present
  <1>3. CASE TurnStep
    BY <1>3, <1>a, TurnScan DEF TurnStep, NodesOK, hostVars, Present
  <1>4. CASE AttachStep \/ DetachStep
    BY <1>4, <1>a, CallStep DEF NodesOK, hostVars, Present
  <1>5. ASSUME NEW s \in Slots, NEW d \in Devices, Plug(s, d) PROVE NodesOK'
    BY <1>5, <1>a DEF Plug, daemonVars, NodesOK, Bus, Present
  <1>6. ASSUME NEW s \in Slots, Unplug(s) PROVE NodesOK'
    BY <1>6, <1>a DEF Unplug, daemonVars, NodesOK, Bus, Present
  <1>7. CASE OtherStep /\ UNCHANGED <<bus, plugs>>
    BY <1>7, <1>a, OtherFrame DEF NodesOK, Present
  <1>8. CASE OtherStep
    BY <1>5, <1>6, <1>7, <1>8
    DEF OtherStep, HostNext, VmStart, VmStop, VmDrop, hostVars,
        ReconcileStart, ObserveRead, ObserveList, ObserveDetach, ObserveForget,
        ObserveDone, Observing
  <1> QED BY <1>1, <1>2, <1>3, <1>4, <1>8, StepCases

LEMMA RecStep == IInv /\ Next => RecOK'
  <1> SUFFICES ASSUME IInv, Next PROVE RecOK' OBVIOUS
  <1>a. RecOK /\ rec \in Recs /\ observed \in Bus
    BY DEF IInv, TypeOK
  <1>b. NoRec.gone = {} /\ NoRec.pc = "idle"
    BY DEF NoRec
  <1>1. CASE BeginStep
    BY <1>1, <1>a, BeginScan DEF RecOK, Present
  <1>2. CASE OpDone
    BY <1>2, <1>a, <1>b DEF OpDone, RecOK, Present
  <1>3. CASE TurnStep
    BY <1>3, <1>a, TurnScan DEF TurnStep, RecOK, Present
  <1>4. CASE AttachStep \/ DetachStep
    BY <1>4, <1>a, CallStep DEF RecOK, Present
  <1>5. CASE Crash
    BY <1>5, <1>b DEF Crash, RecOK
  <1>6. CASE UNCHANGED <<rec, observed>>
    BY <1>6, <1>a DEF RecOK, Present
  <1>7. CASE ReconcileStart
    BY <1>7, <1>a DEF ReconcileStart, RecOK, NoRec, Present
  <1>8. ASSUME NEW s \in Slots, ObserveRead(s) PROVE RecOK'
    <2>1. rec'.gone = rec.gone \ {s} /\ rec'.slot = s /\ rec'.binding = mem.ports[s]
      BY <1>8, <1>a DEF ObserveRead, Recs
    <2>2. rec'.pc = IF mem.ports[s] # None /\ Current(mem.ports[s], mem.ports[s].vm)
                    THEN "list" ELSE "forget"
      BY <1>8, <1>a DEF ObserveRead, Recs
    <2> QED BY <1>8, <1>a, <2>1, <2>2 DEF ObserveRead, RecOK, Present
  <1>9. CASE ObserveList
    BY <1>9, <1>a, <1>b DEF ObserveList, Observing, RecOK, Recs, Present
  <1>10. CASE ObserveDetach
    BY <1>10, <1>a, <1>b DEF ObserveDetach, Observing, RecOK, Recs, Present
  <1>11. CASE ObserveForget
    BY <1>11, <1>a, <1>b DEF ObserveForget, Observing, RecOK, Recs, Present
  <1>12. CASE ObserveDone
    BY <1>12, <1>a DEF ObserveDone, Observing, RecOK, NoRec, Present
  <1>13. CASE OtherStep
    BY <1>6, <1>7, <1>8, <1>9, <1>10, <1>11, <1>12, <1>13
    DEF OtherStep, HostNext, Plug, Unplug, VmStart, VmStop, VmDrop, daemonVars
  <1> QED BY <1>1, <1>2, <1>3, <1>4, <1>5, <1>13, StepCases

LEMMA HubStep == IInv /\ Next => HubOK'
  <1> SUFFICES ASSUME IInv, Next PROVE HubOK' OBVIOUS
  <1>a. /\ op \in Ops /\ at \in Frames /\ bus \in Bus /\ plugs \in Nat /\ NodesOK /\ HubOK
        /\ at.pc # "next" => /\ at.slot \in Slots /\ at.slot \in Present(op.scan)
                             /\ op.scan[at.slot].node \in Nat
    BY ConstantsAssumption, CurrentDevice
    DEF IInv, TypeOK, FrameOK, Nodes, ConstantsAssumption
  <1>1. CASE BeginStep \/ OpDone \/ Crash
    <2>1. at'.pc = "next"
      BY <1>1, BeginScan DEF OpDone, Crash, NoFrame, IInv, ScanOK
    <2> QED BY <2>1 DEF HubOK
  <1>2. CASE TurnStep
    <2>1. at'.pc \notin {"list", "attach"}
      <3>1. PICK s \in Slots : Skip(s) \/ BeginDetach(s) \/ BeginAttach(s)
        BY <1>2 DEF TurnStep
      <3>2. CASE Skip(s)
        BY <3>2 DEF Skip, Turn
      <3>3. CASE BeginDetach(s)
        BY <3>3, EmptyTypes DEF BeginDetach, Frames
      <3>4. CASE BeginAttach(s)
        BY <3>4, Begun, Ended DEF BeginAttach, Turn, IInv
      <3> QED BY <3>1, <3>2, <3>3, <3>4
    <2> QED BY <2>1 DEF HubOK
  <1>3. CASE Claim
    <2>1. CASE at'.pc = "next"
      BY <2>1 DEF HubOK
    <2>2. CASE /\ bus[at.slot] # None => bus[at.slot].dev \notin Hubs
               /\ at' = [at EXCEPT !.pc = "list", !.known = mem.ports[at.slot],
                            !.gen = IF Preflighted(Dev) THEN @ ELSE SocketGeneration(at.vm)]
               /\ UNCHANGED <<op, deferred>>
      <3>1. at.pc = "claim" /\ op' = op /\ bus' = bus /\ at'.slot = at.slot
        BY <1>3, <1>a, <2>2 DEF Claim, Attaching, hostVars, Frames
      <3>2. NodeExists => bus[at.slot] = op.scan[at.slot]
        BY <1>a, <3>1 DEF NodeExists, Node, NodesOK, Present
      <3>3. NodeExists => Dev \notin Hubs
        BY <2>2, <3>2 DEF NodeExists, Dev
      <3> QED BY <3>1, <3>3 DEF HubOK, NodeExists, Node, Dev
    <2> QED BY <1>3, <2>1, <2>2, Ended DEF Claim
  <1>4. CASE List
    <2>1. CASE at'.pc \notin {"list", "attach"}
      BY <2>1 DEF HubOK
    <2>2. ASSUME NEW live, Choose(live) PROVE HubOK'
      <3>1. at.pc = "list" /\ op' = op /\ bus' = bus /\ at'.slot = at.slot
        BY <1>4, <1>a, <2>2 DEF List, Choose, Attaching, hostVars, Frames
      <3> QED BY <1>a, <3>1 DEF HubOK, NodeExists, Node, Dev
    <2> QED BY <1>4, <2>1, <2>2, Ended, Listing
  <1>5. CASE Preflight \/ AttachCmd \/ StaleDetach \/ Commit \/ Announce \/ DetachStep
    <2>1. at'.pc \notin {"list", "attach"}
      <3>0. CASE Preflight
        BY <3>0, <1>a, Ended, Preflown
      <3>1. CASE AttachCmd
        BY <3>1, <1>a, Ended DEF AttachCmd, Frames
      <3>2. CASE StaleDetach \/ Commit \/ Announce
        BY <3>2, <1>a, Ended DEF StaleDetach, Commit, Announce, Frames
      <3>3. CASE DetachRead
        BY <3>3, <1>a DEF DetachRead, Frames
      <3>4. CASE DetachList
        BY <3>4, <1>a, Ended DEF DetachList, Frames
      <3>5. CASE DetachCmd \/ Forget
        BY <3>5, <1>a, Ended DEF DetachCmd, Forget, Frames
      <3> QED BY <1>5, <3>0, <3>1, <3>2, <3>3, <3>4, <3>5 DEF DetachStep
    <2> QED BY <2>1 DEF HubOK
  <1>6. ASSUME NEW s \in Slots, NEW d \in Devices, Plug(s, d) PROVE HubOK'
    BY <1>6, <1>a DEF Plug, daemonVars, HubOK, NodeExists, Node, Dev, NodesOK, Bus, Present
  <1>7. ASSUME NEW s \in Slots, Unplug(s) PROVE HubOK'
    BY <1>7, <1>a DEF Unplug, daemonVars, HubOK, NodeExists, Node, Dev, Bus
  <1>8. CASE OtherStep /\ UNCHANGED bus
    BY <1>8, <1>a, OtherFrame DEF HubOK, NodeExists, Node, Dev
  <1>9. CASE OtherStep
    BY <1>6, <1>7, <1>8, <1>9
    DEF OtherStep, HostNext, VmStart, VmStop, VmDrop, hostVars,
        ReconcileStart, ObserveRead, ObserveList, ObserveDetach, ObserveForget,
        ObserveDone, Observing
  <1> QED BY <1>1, <1>2, <1>3, <1>4, <1>5, <1>9, StepCases DEF AttachStep

\* A step that keeps the slot and the VM of the call need only answer for
\* the rest of the frame.
LEMMA FrameGoesOn ==
    ASSUME IInv, at.pc # "next", op' = op, promised' \subseteq promised,
           at'.slot = at.slot, at'.vm = at.vm,
           at'.pc \in AttachPcs => at.vm # None,
           at'.pc = "stale" => at'.stale # None,
           at'.pc \in {"stale", "commit", "announce"} => at'.port # None,
           at'.pc \in {"dlist", "dcmd"} => at'.dvm # None,
           at'.pc = "dcmd" => at'.port # None
    PROVE  FrameOK'
  BY DEF IInv, FrameOK, Dev, DevId

LEMMA FrameStep == IInv /\ Next => FrameOK'
  <1> SUFFICES ASSUME IInv, Next PROVE FrameOK' OBVIOUS
  <1>a. op \in Ops /\ at \in Frames /\ FrameOK /\ ScanOK
    BY DEF IInv, TypeOK
  <1>b. None \notin Ports /\ None \notin VMs
    BY ConstantsAssumption DEF ConstantsAssumption
  <1>c. at'.pc = "next" => FrameOK'
    BY DEF FrameOK
  <1>1. CASE BeginStep \/ OpDone \/ Crash
    BY <1>1, <1>a, <1>c, BeginScan, Ended DEF OpDone, Crash, ScanOK
  <1>2. ASSUME NEW s \in Slots, Skip(s) PROVE FrameOK'
    BY <1>2, <1>c DEF Skip, Turn
  <1>3. ASSUME NEW s \in Slots, BeginDetach(s) PROVE FrameOK'
    <2>1. /\ s \in Present(op'.scan) /\ op.kind \in {"detach", "disconnect", "suspend"}
          /\ op'.kind = op.kind
      BY <1>3, TurnScan DEF BeginDetach
    <2>2. at'.pc = "dread" /\ at'.slot = s /\ at'.vm = None
      BY <1>3, EmptyTypes DEF BeginDetach, NoFrame
    <2> QED BY <2>1, <2>2 DEF FrameOK, AttachPcs
  <1>4. ASSUME NEW s \in Slots, BeginAttach(s) PROVE FrameOK'
    <2> DEFINE d == op.scan[s].dev
               v == ChooseVm(Wanted(s), Rule[s][d], Id[d])
    <2>1. /\ s \in Present(op.scan) /\ op'.scan = op.scan /\ op'.kind = op.kind
          /\ op.kind \in {"attach", "resume"} /\ at.pc = "next" /\ InScope(s)
      BY <1>4, TurnScan DEF BeginAttach, Turn
    <2>2. Id[d] \in Ids /\ Rule[s][d] \in Rules
      BY <2>1, CurrentDevice DEF IInv
    <2>3. Id[d] \notin promised'
      <3>1. CASE op.kind = "attach"
        BY <1>4, <3>1 DEF BeginAttach
      <3>2. CASE op.kind = "resume"
        BY <1>4, <2>1, <3>2 DEF BeginAttach, InScope, Resumes, IInv, MarksOK
      <3> QED BY <2>1, <3>1, <3>2
    <2>4. CASE at'.pc = "next"
      BY <1>c, <2>4
    <2>5. CASE /\ v \in AllowedVms(Rule[s][d]) /\ v # None
               /\ at'.slot = s /\ at'.vm = v /\ at'.pc \in {"preflight", "dread", "claim"}
      <3> HIDE DEF v
      <3> QED BY <2>1, <2>3, <2>5 DEF FrameOK, Dev, DevId
    <2> HIDE DEF v
    <2>6. \/ at'.pc = "next"
          \/ /\ v \in AllowedVms(Rule[s][d]) /\ v # None
             /\ at'.slot = s /\ at'.vm = v /\ at'.pc \in {"preflight", "dread", "claim"}
      BY <1>4, <2>1, Begun, Ended DEF v, IInv
    <2> QED BY <2>4, <2>5, <2>6
  <1>5. CASE Claim
    <2>1. CASE /\ at' = [at EXCEPT !.pc = "list", !.known = mem.ports[at.slot],
                            !.gen = IF Preflighted(Dev) THEN @ ELSE SocketGeneration(at.vm)]
               /\ UNCHANGED <<op, deferred>>
      <3>1. at.pc = "claim" /\ at.vm # None /\ op' = op /\ promised' = promised
        BY <1>5, <1>a, <2>1 DEF Claim, Attaching, FrameOK, AttachPcs
      <3>2. at'.pc = "list" /\ at'.slot = at.slot /\ at'.vm = at.vm
        BY <1>a, <2>1 DEF Frames
      <3> QED BY <3>1, <3>2, FrameGoesOn DEF AttachPcs
    <2> QED BY <1>5, <1>c, <2>1, Ended DEF Claim
  <1>6. CASE List
    <2>1. at.pc = "list" /\ at.vm # None /\ promised' = promised
      BY <1>6, <1>a DEF List, Attaching, FrameOK, AttachPcs
    <2>2. ASSUME NEW live, Choose(live) PROVE FrameOK'
      <3>1. CASE Reusable(live)
        <4>1. at.known.port # None
          BY <1>a, <1>b, <3>1 DEF Reusable, OwnBinding, Frames, Binding
        <4>2. /\ at'.pc = "commit" /\ at'.slot = at.slot /\ at'.vm = at.vm
              /\ at'.port = at.known.port /\ op' = op
          BY <1>a, <2>2, <3>1 DEF Choose, Frames
        <4> QED BY <2>1, <4>1, <4>2, FrameGoesOn DEF AttachPcs
      <3>2. CASE ~Reusable(live)
        <4>1. at'.pc = "attach" /\ at'.slot = at.slot /\ at'.vm = at.vm /\ op' = op
          BY <1>a, <2>2, <3>2 DEF Choose, Frames
        <4> QED BY <2>1, <4>1, FrameGoesOn DEF AttachPcs
      <3> QED BY <3>1, <3>2
    <2> QED BY <1>6, <1>c, <2>2, Ended, Listing
  <1>7. CASE AttachCmd
    <2>1. at.pc = "attach" /\ at.vm # None /\ promised' = promised
      BY <1>7, <1>a DEF AttachCmd, Attaching, FrameOK, AttachPcs
    <2>2. ASSUME NEW p \in FreePorts(at.vm), UNCHANGED <<op, deferred>>,
                 at' = LET stale == IF at.stale = p THEN None ELSE at.stale
                       IN  [at EXCEPT !.port = p, !.stale = stale,
                              !.pc = IF stale = None THEN "commit" ELSE "stale"]
          PROVE  FrameOK'
      <3> DEFINE stale == IF at.stale = p THEN None ELSE at.stale
      <3>1. at' = [at EXCEPT !.port = p, !.stale = stale,
                             !.pc = IF stale = None THEN "commit" ELSE "stale"]
        BY <2>2
      <3>2. p # None
        BY <1>b DEF FreePorts
      <3> HIDE DEF stale
      <3>3. /\ at'.slot = at.slot /\ at'.vm = at.vm /\ at'.port = p /\ at'.stale = stale
            /\ at'.pc = IF stale = None THEN "commit" ELSE "stale"
        BY <1>a, <3>1 DEF Frames
      <3> QED BY <2>1, <2>2, <3>2, <3>3, FrameGoesOn DEF AttachPcs
    <2> QED BY <1>7, <1>c, <2>2, Ended DEF AttachCmd
  <1>8. CASE StaleDetach
    <2>1. at.pc = "stale" /\ at.vm # None /\ at.port # None /\ promised' = promised
      BY <1>8, <1>a DEF StaleDetach, Attaching, FrameOK, AttachPcs
    <2>2. CASE at' = [at EXCEPT !.pc = "commit"] /\ UNCHANGED <<op, deferred>>
      <3>1. at'.pc = "commit" /\ at'.slot = at.slot /\ at'.vm = at.vm /\ at'.port = at.port
        BY <1>a, <2>2 DEF Frames
      <3> QED BY <2>1, <2>2, <3>1, FrameGoesOn DEF AttachPcs
    <2> QED BY <1>8, <1>c, <2>2, Ended DEF StaleDetach
  <1>9. CASE Commit
    <2>1. at.pc = "commit" /\ at.vm # None /\ at.port # None /\ promised' = promised
      BY <1>9, <1>a DEF Commit, Attaching, FrameOK, AttachPcs
    <2>2. CASE at' = [at EXCEPT !.pc = "announce"] /\ UNCHANGED <<op, deferred>>
      <3>1. at'.pc = "announce" /\ at'.slot = at.slot /\ at'.vm = at.vm /\ at'.port = at.port
        BY <1>a, <2>2 DEF Frames
      <3> QED BY <2>1, <2>2, <3>1, FrameGoesOn DEF AttachPcs
    <2> QED BY <1>9, <1>c, <2>2, Ended DEF Commit
  <1>10. CASE Announce
    BY <1>10, <1>c, Ended DEF Announce
  <1>11. CASE DetachRead
    <2> DEFINE b == mem.ports[at.slot]
               v == IF usbVms[Node] # None THEN usbVms[Node]
                    ELSE IF b # None THEN b.vm ELSE None
    <2>1. at.pc = "dread" /\ op' = op /\ promised' = promised
      BY <1>11 DEF DetachRead, Attaching
    <2>2. /\ at'.slot = at.slot /\ at'.vm = at.vm /\ at'.dvm = v
          /\ at'.pc = IF v = None \/ Stopped(v) THEN "forget" ELSE "dlist"
      BY <1>11, <1>a DEF DetachRead, Frames
    <2> HIDE DEF v
    <2> QED BY <2>1, <2>2, FrameGoesOn DEF AttachPcs
  <1>12. CASE DetachList
    <2>1. at.pc = "dlist" /\ at.dvm # None /\ promised' = promised
      BY <1>12, <1>a DEF DetachList, Attaching, FrameOK
    <2>2. CASE /\ at' = [at EXCEPT !.pc = "forget", !.known = None]
               /\ UNCHANGED <<op, deferred>>
      <3>1. at'.pc = "forget" /\ at'.slot = at.slot /\ at'.vm = at.vm
        BY <1>a, <2>2 DEF Frames
      <3> QED BY <2>1, <2>2, <3>1, FrameGoesOn DEF AttachPcs
    <2>3. ASSUME NEW p \in Ports, UNCHANGED <<op, deferred>>,
                 at' = [at EXCEPT !.pc = "dcmd", !.port = p, !.known = None]
          PROVE  FrameOK'
      <3>1. /\ at'.pc = "dcmd" /\ at'.slot = at.slot /\ at'.vm = at.vm
            /\ at'.port = p /\ at'.dvm = at.dvm
        BY <1>a, <2>3 DEF Frames
      <3> QED BY <1>b, <2>1, <2>3, <3>1, FrameGoesOn DEF AttachPcs
    <2> QED BY <1>12, <1>c, <2>2, <2>3, Ended DEF DetachList
  <1>13. CASE DetachCmd
    <2>1. at.pc = "dcmd" /\ promised' = promised
      BY <1>13 DEF DetachCmd, Attaching
    <2>2. CASE at' = [at EXCEPT !.pc = "forget", !.port = None] /\ UNCHANGED <<op, deferred>>
      <3>1. at'.pc = "forget" /\ at'.slot = at.slot /\ at'.vm = at.vm
        BY <1>a, <2>2 DEF Frames
      <3> QED BY <2>1, <2>2, <3>1, FrameGoesOn DEF AttachPcs
    <2> QED BY <1>13, <1>c, <2>2, Ended DEF DetachCmd
  <1>14. CASE Forget
    <2>1. CASE /\ at.vm # None /\ at' = [at EXCEPT !.pc = "claim", !.dvm = None]
               /\ UNCHANGED <<op, deferred>>
      <3>1. at.pc = "forget" /\ op.kind \in {"attach", "resume"}
        BY <1>14, <1>a, <2>1 DEF Forget, FrameOK
      <3>2. promised' = promised
        BY <1>14, <3>1 DEF Forget
      <3>3. at'.pc = "claim" /\ at'.slot = at.slot /\ at'.vm = at.vm
        BY <1>a, <2>1 DEF Frames
      <3> QED BY <2>1, <3>1, <3>2, <3>3, FrameGoesOn DEF AttachPcs
    <2> QED BY <1>14, <1>c, <2>1, Ended DEF Forget
  <1>16. CASE Preflight
    <2>1. at.pc = "preflight" /\ at.vm # None /\ promised' = promised
      BY <1>16, <1>a DEF Preflight, Attaching, FrameOK, AttachPcs
    <2>2. CASE at'.pc \in {"dread", "claim"} /\ at'.slot = at.slot /\ at'.vm = at.vm /\ op' = op
      BY <2>1, <2>2, FrameGoesOn DEF AttachPcs
    <2> QED BY <1>16, <1>a, <1>c, <2>2, Ended, Preflown
  <1>15. CASE OtherStep
    BY <1>15, <1>a, OtherFrame DEF FrameOK, Dev, DevId
  <1> QED
    BY <1>1, <1>2, <1>3, <1>4, <1>5, <1>6, <1>7, <1>8, <1>9, <1>10, <1>11, <1>12, <1>13,
       <1>14, <1>15, <1>16, StepCases DEF TurnStep, AttachStep, DetachStep

\* The marks that each saved state carries.
LEMMA SavedMarks ==
    ASSUME IInv
    PROVE  /\ Selected(mem).disconnected = mem.disconnected
           /\ Connected(mem).disconnected = mem.disconnected \ {DevId}
           /\ Bound(mem).disconnected = mem.disconnected \ {DevId}
           /\ Forgotten(mem).disconnected =
                (mem.disconnected \ {DevId})
                   \cup (IF op.kind = "disconnect" THEN {DevId} ELSE {})
           /\ \A s : [mem EXCEPT !.ports[s] = None].disconnected = mem.disconnected
  <1>1. mem \in Persistent
    BY DEF IInv, TypeOK
  <1>2. Selected(mem).disconnected = mem.disconnected /\ DOMAIN Selected(mem) = DOMAIN mem
    BY <1>1 DEF Selected, Persistent
  <1>3. /\ Connected(mem).disconnected = mem.disconnected \ {DevId}
        /\ DOMAIN Connected(mem) = DOMAIN mem
    BY <1>1, <1>2 DEF Connected, Persistent
  <1> QED BY <1>1, <1>2, <1>3 DEF Bound, Forgotten, Persistent

LEMMA MarksStep == IInv /\ Next => MarksOK'
  <1> SUFFICES ASSUME IInv, Next PROVE MarksOK' OBVIOUS
  <1>a. MarksOK /\ op \in Ops
    BY DEF IInv, TypeOK
  <1>b. ASSUME promised' \subseteq promised, UNCHANGED <<mem, disk>> PROVE MarksOK'
    BY <1>a, <1>b DEF MarksOK
  <1>1. CASE BeginStep
    BY <1>1, <1>b, BeginScan
  <1>2. CASE OpDone
    BY <1>2, <1>b DEF OpDone
  <1>3. CASE TurnStep
    <2>1. PICK s \in Slots : Skip(s) \/ BeginDetach(s) \/ BeginAttach(s)
      BY <1>3 DEF TurnStep
    <2>2. promised' \subseteq promised
      BY <2>1 DEF Skip, BeginDetach, BeginAttach
    <2> QED BY <1>b, <2>1, <2>2, TurnScan
  <1>4. CASE Commit
    <2>1. DevId \notin promised /\ promised' = promised
      BY <1>4 DEF Commit, Attaching, IInv, FrameOK, AttachPcs
    <2>2. promised \subseteq mem'.disconnected
      BY <1>4, <1>a, <2>1, SavedMarks DEF Commit, MarksOK
    <2>3. promised \subseteq disk'.disconnected
      BY <1>4, <1>a, <2>1, SavedMarks DEF Commit, MarksOK, Store
    <2> QED BY <1>a, <2>1, <2>2, <2>3 DEF MarksOK
  <1>5. CASE Forget
    <2>1. op.kind \in {"attach", "resume"} => DevId \notin promised
      BY <1>5 DEF Forget, IInv, FrameOK
    <2>2. /\ op.kind = "disconnect" => promised' \subseteq promised \cup {DevId}
          /\ op.kind \in {"detach", "suspend"} => promised' = promised \ {DevId}
          /\ op.kind \in {"attach", "resume"} => promised' = promised
          /\ promised' # {} => Persistency
      BY <1>5, <1>a DEF Forget, MarksOK
    <2>3. op.kind \in {"disconnect", "detach", "suspend", "attach", "resume"}
      BY <1>5, <1>a DEF Forget, IInv, ScanOK, Ops, OpKinds
    <2>4. promised' \subseteq Forgotten(mem).disconnected
      BY <1>a, <2>1, <2>2, <2>3, SavedMarks DEF MarksOK
    <2>5. CASE disk' = Forgotten(mem)
      BY <1>5, <2>2, <2>4, <2>5 DEF Forget, MarksOK
    <2>6. CASE disk' = disk /\ promised' \subseteq promised
      BY <1>5, <1>a, <2>2, <2>4, <2>6 DEF Forget, MarksOK
    <2>7. disk' = Forgotten(mem) \/ (disk' = disk /\ promised' \subseteq promised)
      <3>1. CASE disk' = Store(Forgotten(mem)) /\ ~Persistency
        BY <1>5, <1>a, <2>2, <3>1 DEF Store, MarksOK
      <3>2. CASE disk' = Store(Forgotten(mem)) /\ Persistency
        BY <3>2 DEF Store
      <3>3. CASE /\ disk' \in {disk, Forgotten(mem)}
                 /\ promised' = IF op.kind \in {"detach", "suspend"}
                                THEN promised \ {DevId} ELSE promised
        BY <3>3
      <3> QED BY <1>5, <3>1, <3>2, <3>3 DEF Forget
    <2> QED BY <2>5, <2>6, <2>7
  <1>6. CASE (AttachStep /\ ~Commit) \/ (DetachStep /\ ~Forget)
    BY <1>6, <1>b DEF AttachStep, DetachStep, Preflight, Claim, List, AttachCmd, StaleDetach, Announce,
                      DetachRead, DetachList, DetachCmd, Attaching
  <1>7. CASE ObserveForget
    <2>1. promised' = promised /\ mem'.disconnected = mem.disconnected
      BY <1>7, SavedMarks DEF ObserveForget, Observing
    <2>2. disk'.disconnected \in {disk.disconnected, mem.disconnected}
      BY <1>7, SavedMarks DEF ObserveForget, Store
    <2> QED BY <1>a, <2>1, <2>2 DEF MarksOK
  <1>8. CASE OtherStep /\ ~ObserveForget
    <2>1. UNCHANGED <<mem, disk>>
      BY <1>8 DEF OtherStep, HostNext, Plug, Unplug, VmStart, VmStop, VmDrop, daemonVars,
                  ReconcileStart, ObserveRead, ObserveList, ObserveDetach, ObserveDone
    <2> QED BY <1>8, <1>b, <2>1, OtherFrame
  <1>9. CASE Crash
    <2>1. promised' = promised /\ mem' = disk'
      BY <1>9 DEF Crash
    <2>2. CASE disk' = disk
      BY <1>a, <2>1, <2>2 DEF MarksOK
    <2>3. CASE at.pc = "commit" /\ disk' \in {Selected(mem), Connected(mem)}
      <3>1. DevId \notin promised
        BY <2>3 DEF IInv, FrameOK, AttachPcs
      <3> QED BY <1>a, <2>1, <2>3, <3>1, SavedMarks DEF MarksOK
    <2> QED BY <1>9, <2>2, <2>3 DEF Crash
  <1> QED BY <1>1, <1>2, <1>3, <1>4, <1>5, <1>6, <1>7, <1>8, <1>9, StepCases

LEMMA HeldStep == IInv /\ Next => HeldAllowed'
  <1> SUFFICES ASSUME IInv, Next PROVE HeldAllowed' OBVIOUS
  <1>a. HeldAllowed /\ held \in [VMs -> [Ports -> Guest \cup {None}]] /\ op \in Ops /\ at \in Frames
    BY DEF IInv, TypeOK
  <1>b. ASSUME \A v \in VMs, p \in Ports : held'[v][p] \in {held[v][p], None}
        PROVE  HeldAllowed'
    BY <1>a, <1>b DEF HeldAllowed
  <1>c. CASE UNCHANGED held
    BY <1>b, <1>c
  <1>d. \A v \in VMs, p \in Ports : DetachAnswered(v, p) \/ DetachErred(v, p) => HeldAllowed'
    <2> SUFFICES ASSUME NEW v \in VMs, NEW p \in Ports,
                        DetachAnswered(v, p) \/ DetachErred(v, p)
                 PROVE  HeldAllowed'
      OBVIOUS
    <2>1. held' = held \/ held' = [held EXCEPT ![v][p] = None]
      BY DEF DetachAnswered, DetachErred
    <2> QED BY <1>a, <1>b, <2>1
  <1>1. CASE BeginStep \/ OpDone \/ Crash
    BY <1>1, <1>c, BeginScan DEF OpDone, Crash
  <1>2. CASE TurnStep
    BY <1>2, <1>c, TurnScan DEF TurnStep
  <1>3. ASSUME NEW s \in Slots, Unplug(s) PROVE HeldAllowed'
    <2>1. ASSUME NEW g \in Guest
          PROVE  LET h == [g EXCEPT !.alive = FALSE] IN h.slot = g.slot /\ h.dev = g.dev
      BY DEF Guest
    <2>2. ASSUME NEW v \in VMs, NEW p \in Ports, held'[v][p] # None
          PROVE  /\ held[v][p] # None
                 /\ held'[v][p].slot = held[v][p].slot /\ held'[v][p].dev = held[v][p].dev
      BY <1>3, <1>a, <2>1, <2>2 DEF Unplug
    <2> QED BY <1>a, <2>2 DEF HeldAllowed
  <1>4. ASSUME NEW v \in VMs, NEW p \in Ports, VmDrop(v, p) PROVE HeldAllowed'
    BY <1>4, <1>a, <1>b DEF VmDrop
  <1>5. ASSUME NEW v \in VMs, VmStop(v) PROVE HeldAllowed'
    BY <1>5, <1>a, <1>b DEF VmStop
  <1>6. CASE AttachCmd
    <2>1. ASSUME NEW p \in Ports, NodeExists,
                 held' = [held EXCEPT ![at.vm][p] =
                    [slot |-> at.slot, dev |-> Dev, node |-> Node, alive |-> TRUE]]
          PROVE  HeldAllowed'
      <3> DEFINE g == [slot |-> at.slot, dev |-> Dev, node |-> Node, alive |-> TRUE]
      <3>1. /\ at.vm \in AllowedVms(Rule[at.slot][Dev]) /\ at.vm \in VMs
            /\ at.slot \in Present(op.scan)
        BY <1>6, <1>a DEF AttachCmd, Attaching, IInv, FrameOK, AttachPcs, Frames
      <3>2. Rule[at.slot][Dev] # None
        BY <3>1 DEF IInv, ScanOK, Dev
      <3>3. Dev \notin Hubs
        BY <1>6, <2>1 DEF AttachCmd, Attaching, IInv, HubOK
      <3>4. \A v \in VMs, q \in Ports : held'[v][q] = IF v = at.vm /\ q = p THEN g ELSE held[v][q]
        BY <1>a, <2>1
      <3> QED BY <1>a, <3>1, <3>2, <3>3, <3>4, SMTT(30) DEF HeldAllowed, AllowedVms
    <2> QED BY <1>6, <1>c, <2>1 DEF AttachCmd, FreePorts
  <1>7. CASE StaleDetach
    <2>1. at.vm \in VMs /\ at.stale \in Ports
      BY <1>7, <1>a DEF StaleDetach, Attaching, IInv, FrameOK, AttachPcs, Frames
    <2> QED BY <1>7, <1>d, <2>1 DEF StaleDetach
  <1>8. CASE DetachCmd
    <2>1. at.dvm \in VMs /\ at.port \in Ports
      BY <1>8, <1>a DEF DetachCmd, Attaching, IInv, FrameOK, Frames
    <2> QED BY <1>8, <1>d, <2>1 DEF DetachCmd
  <1>9. CASE ObserveDetach
    <2>1. rec.binding.vm \in VMs /\ rec.binding.port \in Ports
      BY <1>9 DEF ObserveDetach, Observing, IInv, RecOK, TypeOK, Recs, Binding
    <2> QED BY <1>9, <1>d, <2>1 DEF ObserveDetach
  <1>10. CASE Preflight \/ Claim \/ List \/ Commit \/ Announce \/ DetachRead \/ DetachList \/ Forget
    BY <1>10, <1>c DEF Preflight, Claim, List, Commit, Announce, DetachRead, DetachList, Forget
  <1>11. CASE OtherStep
    BY <1>c, <1>3, <1>4, <1>5, <1>9, <1>11
    DEF OtherStep, HostNext, Plug, VmStart, ReconcileStart, ObserveRead, ObserveList,
        ObserveForget, ObserveDone
  <1> QED
    BY <1>1, <1>2, <1>6, <1>7, <1>8, <1>10, <1>11, StepCases DEF AttachStep, DetachStep

---------------------------------------------------------------------------
(* The theorems.                                                           *)

LEMMA StepIInv == IInv /\ [Next]_vars => IInv'
  <1> SUFFICES ASSUME IInv, [Next]_vars PROVE IInv' OBVIOUS
  <1>1. CASE Next
    BY <1>1, TypeStep, ScanStep, FrameStep, RecStep, NodesStep, HubStep, MarksStep, HeldStep
    DEF IInv
  <1>2. CASE UNCHANGED vars
    <2>1. TypeOK' /\ HeldAllowed'
      BY <1>2 DEF vars, IInv, TypeOK, HeldAllowed
    <2>2. ScanOK' /\ RecOK'
      BY <1>2 DEF vars, IInv, ScanOK, RecOK, Present
    <2>3. FrameOK'
      BY <1>2 DEF vars, IInv, FrameOK, Present, Dev, DevId
    <2>4. NodesOK' /\ HubOK' /\ MarksOK'
      BY <1>2 DEF vars, IInv, NodesOK, HubOK, MarksOK, Present, NodeExists, Node, Dev
    <2> QED BY <2>1, <2>2, <2>3, <2>4 DEF IInv
  <1> QED BY <1>1, <1>2

\* IInv is inductive: every state the daemon, its VMs and its faults can
\* reach satisfies it.
THEOREM Invariance == Spec => []IInv
  BY InitIInv, StepIInv, PTL DEF Spec

\* Every state has the types that TypeOK gives it.
THEOREM TypeCorrect == Spec => []TypeOK
  BY Invariance, PTL DEF IInv

\* attach_one_usb gives a device only to a VM its rule allows, and never a
\* hub, whatever happens between its check and the Crosvm command.
THEOREM AttachAllowed == Spec => []HeldAllowed
  BY Invariance, PTL DEF IInv

\* A permanent detach that was acknowledged stands against reconciles,
\* resumes, failed saves and restarts.
THEOREM DetachStands == Spec => StaysDetached
  <1> DEFINE Kept == \A v \in VMs, p \in Ports :
                        Receives(v, p) => Id[held'[v][p].dev] \notin promised
  <1>1. IInv /\ [Next]_vars => [Kept]_vars
    <2> SUFFICES ASSUME IInv, Next, NEW v \in VMs, NEW p \in Ports, Receives(v, p)
                 PROVE  Id[held'[v][p].dev] \notin promised
      OBVIOUS
    <2>a. held \in [VMs -> [Ports -> Guest \cup {None}]] /\ at \in Frames
      BY DEF IInv, TypeOK
    <2>b. held' # held /\ held[v][p] = None /\ held'[v][p] # None
      BY DEF Receives
    <2>c. \A w \in VMs, q \in Ports : ~DetachAnswered(w, q) /\ ~DetachErred(w, q)
      BY <2>a, <2>b DEF DetachAnswered, DetachErred
    <2>1. CASE BeginStep \/ OpDone \/ TurnStep \/ Crash
      BY <2>1, <2>b, BeginScan, TurnScan DEF OpDone, TurnStep, Crash
    <2>2. CASE AttachCmd
      <3>1. PICK q \in Ports : held' = [held EXCEPT ![at.vm][q] =
                    [slot |-> at.slot, dev |-> Dev, node |-> Node, alive |-> TRUE]]
        BY <2>2, <2>b DEF AttachCmd, FreePorts
      <3>2. held'[v][p] = [slot |-> at.slot, dev |-> Dev, node |-> Node, alive |-> TRUE]
        BY <2>a, <2>b, <3>1
      <3>3. DevId \notin promised
        BY <2>2 DEF AttachCmd, Attaching, IInv, FrameOK, AttachPcs
      <3> QED BY <3>2, <3>3 DEF DevId
    <2>3. CASE StaleDetach
      BY <2>3, <2>a, <2>c DEF StaleDetach, Attaching, IInv, FrameOK, AttachPcs, Frames
    <2>4. CASE DetachCmd
      BY <2>4, <2>a, <2>c DEF DetachCmd, Attaching, IInv, FrameOK, Frames
    <2>5. CASE ObserveDetach
      BY <2>5, <2>c DEF ObserveDetach, Observing, IInv, RecOK, TypeOK, Recs, Binding
    <2>6. CASE Preflight \/ Claim \/ List \/ Commit \/ Announce \/ DetachRead \/ DetachList \/ Forget
      BY <2>6, <2>b DEF Preflight, Claim, List, Commit, Announce, DetachRead, DetachList, Forget
    <2>7. ASSUME NEW s \in Slots, Unplug(s) PROVE FALSE
      BY <2>7, <2>a, <2>b DEF Unplug
    <2>8. ASSUME NEW w \in VMs, VmStop(w) \/ \E q \in Ports : VmDrop(w, q) PROVE FALSE
      BY <2>8, <2>a, <2>b DEF VmStop, VmDrop
    <2>9. CASE OtherStep
      BY <2>b, <2>5, <2>7, <2>8, <2>9
      DEF OtherStep, HostNext, Plug, VmStart, ReconcileStart, ObserveRead, ObserveList,
          ObserveForget, ObserveDone
    <2> QED BY <2>1, <2>2, <2>3, <2>4, <2>6, <2>9, StepCases DEF AttachStep, DetachStep
  <1> QED BY <1>1, Invariance, PTL DEF Spec, StaysDetached

---------------------------------------------------------------------------
(* What was seen on the bus.                                               *)

\* The slots whose device this pass gives up.
Gone == rec.gone \cup (IF rec.pc \in {"list", "detach", "forget"} THEN {rec.slot} ELSE {})

OnBus(b, n) == \E t \in Present(b) : b[t].node = n

\* What was seen on the bus, of slots b: the nodes are old, and one that is
\* still there is where it was.
SeenIn(b, now, last) ==
    \A s \in Present(b) :
        /\ b[s].node <= last /\ Rule[s][b[s].dev] # None
        /\ \A t \in Present(now) : now[t].node = b[s].node => s = t /\ now[t] = b[s]

\* A device node names one slot; a pass gives up only nodes that have gone for
\* good.
Apart(b) == \A s, t \in Present(b) : b[s].node = b[t].node => s = t
SeenOK ==
    /\ Apart(bus) /\ Apart(op.scan)
    /\ SeenIn(observed, bus, plugs) /\ SeenIn(rec.scan, bus, plugs)
    /\ \A s \in Gone : ~OnBus(bus, observed[s].node)

LEMMA BusTypes ==
    ASSUME IInv
    PROVE  /\ bus \in Bus /\ op.scan \in Bus /\ observed \in Bus /\ rec.scan \in Bus
           /\ \A b \in Bus : Present(b) \subseteq Slots
           /\ \A b \in Bus : \A s \in Present(b) : b[s] \in Plugged
           /\ \A b \in Bus : \A s \in Present(b) : b[s].node \in Nodes /\ b[s].node \in Nat
           /\ plugs \in Nat /\ Nodes \subseteq Nat
  <1>1. Nodes \subseteq Nat
    BY ConstantsAssumption DEF ConstantsAssumption, Nodes
  <1>2. ASSUME NEW b \in Bus, NEW s \in Present(b)
        PROVE  s \in Slots /\ b[s] \in Plugged /\ b[s].node \in Nodes
    BY DEF Bus, Present, Plugged
  <1>3. bus \in Bus /\ op.scan \in Bus /\ observed \in Bus /\ rec.scan \in Bus /\ plugs \in Nat
    BY ConstantsAssumption DEF IInv, TypeOK, Ops, Recs, ConstantsAssumption
  <1> QED BY <1>1, <1>2, <1>3

\* The bus changes by plug events alone.
LEMMA BusCases ==
    Next => \/ UNCHANGED <<bus, plugs>>
            \/ \E s \in Slots : Unplug(s) \/ \E d \in Devices : Plug(s, d)
  <1> SUFFICES ASSUME Next PROVE UNCHANGED <<bus, plugs>>
                                 \/ \E s \in Slots : Unplug(s) \/ \E d \in Devices : Plug(s, d)
    OBVIOUS
  <1>1. CASE HostNext \/ \E v \in VMs, p \in Ports : VmDrop(v, p)
    BY <1>1 DEF HostNext, VmStart, VmStop, VmDrop, hostVars
  <1>2. CASE ApiNext \/ ReconcileResume
    BY <1>2 DEF ApiNext, ApiSelect, ApiPower, ReconcileResume, Begin, hostVars
  <1>3. CASE OpDone \/ Crash
    BY <1>3 DEF OpDone, Crash, hostVars
  <1>4. CASE TurnStep
    BY <1>4 DEF TurnStep, Skip, BeginDetach, BeginAttach, Turn, hostVars
  <1>5. CASE AttachStep
    BY <1>5 DEF AttachStep, Preflight, Claim, List, AttachCmd, StaleDetach, Commit, Announce, Attaching, hostVars
  <1>6. CASE DetachStep
    BY <1>6 DEF DetachStep, DetachRead, DetachList, DetachCmd, Forget, Attaching, hostVars
  <1>7. CASE RecNext
    BY <1>2, <1>7 DEF RecNext, ReconcileStart, ObserveRead, ObserveList, ObserveDetach, ObserveForget,
                      ObserveDone, Observing, hostVars
  <1> QED BY <1>1, <1>2, <1>3, <1>4, <1>5, <1>6, <1>7
          DEF Next, OpNext, TurnStep, AttachStep, DetachStep

\* What is plugged in after a step was so before, or has a new node.
LEMMA BusStep ==
    ASSUME IInv, Apart(bus), Next
    PROVE  /\ Apart(bus') /\ plugs' \in Nat /\ plugs <= plugs'
           /\ \A t \in Present(bus') : \/ t \in Present(bus) /\ bus'[t] = bus[t]
                                       \/ bus'[t].node = plugs + 1 /\ bus[t] = None
  <1> USE BusTypes DEF Bus, Present
  <1>1. CASE UNCHANGED <<bus, plugs>>
    BY <1>1 DEF Apart
  <1>2. ASSUME NEW s \in Slots, Unplug(s)
        PROVE  /\ Apart(bus') /\ plugs' \in Nat /\ plugs <= plugs'
               /\ \A t \in Present(bus') : t \in Present(bus) /\ bus'[t] = bus[t]
    BY <1>2 DEF Unplug, Apart
  <1>3. ASSUME NEW s \in Slots, NEW d \in Devices, Plug(s, d)
        PROVE  /\ Apart(bus') /\ plugs' \in Nat /\ plugs <= plugs'
               /\ \A t \in Present(bus') : \/ t \in Present(bus) /\ bus'[t] = bus[t]
                                           \/ bus'[t].node = plugs + 1 /\ bus[t] = None
    <2>1. /\ plugs' = plugs + 1 /\ bus[s] = None
          /\ bus' = [bus EXCEPT ![s] = [dev |-> d, node |-> plugs + 1]]
      BY <1>3 DEF Plug
    <2>2. \A t \in Present(bus) : bus[t].node <= plugs /\ t # s
      BY <2>1 DEF IInv, NodesOK
    <2>3. \A t \in Present(bus') : IF t = s THEN bus'[t].node = plugs + 1
                                   ELSE t \in Present(bus) /\ bus'[t] = bus[t]
      BY <2>1
    <2>4. Apart(bus')
      BY <2>2, <2>3 DEF Apart
    <2> QED BY <2>1, <2>3, <2>4
  <1> QED BY <1>1, <1>2, <1>3, BusCases

LEMMA SeenKept ==
    ASSUME IInv, Apart(bus), Next, NEW b \in Bus, SeenIn(b, bus, plugs)
    PROVE  SeenIn(b, bus', plugs')
  <1>1. ASSUME NEW s \in Present(b) PROVE b[s].node <= plugs'
    BY <1>1, BusStep, BusTypes DEF SeenIn
  <1>2. ASSUME NEW s \in Present(b), NEW t \in Present(bus'), bus'[t].node = b[s].node
        PROVE  s = t /\ bus'[t] = b[s]
    <2>1. b[s].node <= plugs /\ b[s].node \in Nat /\ plugs \in Nat
      BY BusTypes DEF SeenIn
    <2>2. t \in Present(bus) /\ bus'[t] = bus[t]
      BY <1>2, <2>1, BusStep
    <2> QED BY <1>2, <2>2 DEF SeenIn
  <1> QED BY <1>1, <1>2 DEF SeenIn

\* Nodes that have gone do not come back.
LEMMA GoneStays ==
    ASSUME IInv, Apart(bus), Next, NEW n \in Nat, n <= plugs, ~OnBus(bus, n)
    PROVE  ~OnBus(bus', n)
  BY BusStep, BusTypes DEF OnBus

LEMMA SeenRouted ==
    ASSUME IInv, Apart(bus)
    PROVE  SeenIn(Routed(bus), bus, plugs) /\ Apart(Routed(bus))
  BY BusTypes, RoutedBus DEF SeenIn, Apart, IInv, NodesOK

LEMMA SeenNothing == Present(EmptyBus) = {} /\ Apart(EmptyBus) /\ \A now, last : SeenIn(EmptyBus, now, last)
  BY EmptyTypes DEF SeenIn, Apart

\* Where what an operation, a pass and the daemon have seen comes from.
LEMMA SeenCases ==
    ASSUME IInv, Next
    PROVE  /\ op'.scan \in {op.scan, Routed(bus), EmptyBus}
           /\ rec'.scan \in {rec.scan, Routed(bus), EmptyBus}
           /\ observed' \in {observed, rec.scan, EmptyBus}
  <1>a. rec \in Recs /\ NoRec.scan = EmptyBus /\ NoOp.scan = EmptyBus
    BY DEF IInv, TypeOK, NoRec, NoOp
  <1>1. CASE ApiNext
    BY <1>1, BeginScan DEF BeginStep, ApiNext, ApiSelect, ApiPower
  <1>2. CASE ReconcileResume
    <2>1. rec'.scan = rec.scan
      BY <1>2, <1>a DEF ReconcileResume, Recs
    <2> QED BY <1>2, <2>1, BeginScan DEF BeginStep
  <1>3. CASE OpDone \/ Crash
    BY <1>3, <1>a DEF OpDone, Crash
  <1>4. CASE TurnStep \/ AttachStep \/ DetachStep
    BY <1>4, TurnScan, CallStep DEF TurnStep
  <1>5. CASE HostNext \/ \E v \in VMs, p \in Ports : VmDrop(v, p)
    BY <1>5 DEF HostNext, Plug, Unplug, VmStart, VmStop, VmDrop, daemonVars
  <1>6. CASE ReconcileStart
    BY <1>6, <1>a DEF ReconcileStart, Observing, NoRec
  <1>7. ASSUME NEW s \in Slots, ObserveRead(s)
        PROVE  UNCHANGED <<op, observed>> /\ rec'.scan = rec.scan
    BY <1>7, <1>a DEF ObserveRead, Observing, Recs
  <1>8. CASE ObserveList
    BY <1>8, <1>a DEF ObserveList, Observing, Recs
  <1>9. CASE ObserveDetach
    BY <1>9, <1>a DEF ObserveDetach, Observing, Recs
  <1>10. CASE ObserveForget
    BY <1>10, <1>a DEF ObserveForget, Observing, Recs
  <1>11. CASE ObserveDone
    BY <1>11, <1>a DEF ObserveDone, Observing, NoRec
  <1> QED
    BY <1>1, <1>2, <1>3, <1>4, <1>5, <1>6, <1>7, <1>8, <1>9, <1>10, <1>11, StepCases
    DEF BeginStep, OtherStep

LEMMA SeenStep ==
    ASSUME IInv, SeenOK, Next
    PROVE  SeenOK'
  <1> USE DEF SeenOK
  <1>a. Apart(bus)' /\ Present(NoOp.scan) = {} /\ Present(NoRec.scan) = {} /\ NoRec.scan = EmptyBus
    BY BusStep, EmptyTypes DEF Apart, Present, NoOp, NoRec
  <1>1. Apart(op.scan)'
    <2>1. CASE op'.scan = op.scan
      BY <2>1 DEF Apart, Present
    <2>2. CASE op'.scan = Routed(bus)
      BY <2>2, SeenRouted DEF Apart, Present
    <2>3. CASE op'.scan = EmptyBus
      BY <2>3, EmptyTypes DEF Apart, Present
    <2> QED BY <2>1, <2>2, <2>3, SeenCases
  <1>b. rec \in Recs /\ observed \in Bus
    BY DEF IInv, TypeOK
  <1>c. Routed(bus) \in Bus /\ EmptyBus \in Bus
    BY BusTypes, RoutedBus, EmptyTypes
  <1>2. SeenIn(rec'.scan, bus', plugs')
    BY <1>c, BusTypes, SeenCases, SeenRouted, SeenNothing, SeenKept, Zenon
  <1>3. SeenIn(observed', bus', plugs')
    BY <1>c, BusTypes, SeenCases, SeenNothing, SeenKept, Zenon
  <1>4. \A s \in Gone' : ~OnBus(bus', observed'[s].node)
    <2>1. CASE observed' = observed /\ Gone' \subseteq Gone
      <3>1. \A s \in Gone : s \in Present(observed)
        BY DEF Gone, IInv, RecOK
      <3>2. \A s \in Gone : observed[s].node <= plugs /\ observed[s].node \in Nat
        BY <3>1, BusTypes DEF SeenIn
      <3>3. \A s \in Gone : ~OnBus(bus', observed[s].node)
        BY <3>2, GoneStays
      <3> QED BY <2>1, <3>3
    <2>2. CASE Gone' = {}
      BY <2>2
    <2>3. CASE ReconcileStart
      <3>1. /\ Gone' = Present(observed) \ Present(Routed(bus)) /\ observed' = observed
            /\ UNCHANGED <<bus, plugs>>
        BY <2>3 DEF ReconcileStart, Observing, NoRec, Gone, hostVars
      <3>2. ASSUME NEW s \in Gone', OnBus(bus, observed[s].node) PROVE FALSE
        <4>1. PICK t \in Present(bus) : bus[t].node = observed[s].node
          BY <3>2 DEF OnBus
        <4>2. s = t /\ bus[t] = observed[s] /\ Rule[s][observed[s].dev] # None
          BY <3>1, <4>1 DEF SeenIn
        <4> QED BY <3>1, <4>1, <4>2, BusTypes DEF Routed, Present, Bus
      <3> QED BY <3>1, <3>2 DEF OnBus, Present
    <2>4. (observed' = observed /\ Gone' \subseteq Gone) \/ Gone' = {} \/ ReconcileStart
      <3>1. CASE BeginStep
        BY <3>1, BeginScan DEF Gone
      <3>2. CASE OpDone
        BY <3>2, <1>b DEF OpDone, NoRec, Gone
      <3>3. CASE TurnStep \/ AttachStep \/ DetachStep
        BY <3>3, TurnScan, CallStep DEF TurnStep, Gone
      <3>4. CASE Crash
        BY <3>4 DEF Crash, NoRec, Gone
      <3>5. CASE HostNext \/ \E v \in VMs, p \in Ports : VmDrop(v, p)
        BY <3>5 DEF HostNext, Plug, Unplug, VmStart, VmStop, VmDrop, daemonVars, Gone
      <3>6. ASSUME NEW s \in Slots, ObserveRead(s)
            PROVE  observed' = observed /\ Gone' \subseteq Gone
        <4>1. s \in rec.gone /\ rec'.slot = s /\ rec'.gone = rec.gone \ {s} /\ observed' = observed
          BY <3>6, <1>b DEF ObserveRead, Recs
        <4> QED BY <4>1 DEF Gone
      <3>7. CASE ObserveList
        BY <3>7, <1>b DEF ObserveList, Observing, NoRec, Gone, Recs
      <3>8. CASE ObserveDetach
        BY <3>8, <1>b DEF ObserveDetach, Observing, NoRec, Gone, Recs
      <3>9. CASE ObserveForget
        <4>1. observed' = observed /\ rec.pc = "forget"
          BY <3>9 DEF ObserveForget, Observing
        <4>2. CASE rec' = NoRec
          BY <4>2 DEF NoRec, Gone
        <4>3. CASE rec' = [rec EXCEPT !.pc = "observe", !.slot = None, !.binding = None]
          BY <1>b, <4>1, <4>3 DEF Gone, Recs
        <4> QED BY <3>9, <4>1, <4>2, <4>3 DEF ObserveForget
      <3>10. CASE ObserveDone
        BY <3>10 DEF ObserveDone, NoRec, Gone
      <3> QED BY <3>1, <3>2, <3>3, <3>4, <3>5, <3>6, <3>7, <3>8, <3>9, <3>10, StepCases DEF OtherStep
    <2> QED BY <2>1, <2>2, <2>3, <2>4
  <1> QED BY <1>a, <1>1, <1>2, <1>3, <1>4 DEF SeenIn, OnBus, Present, Apart

---------------------------------------------------------------------------
(* The listeners: what is on record of a device, and what was said of it.  *)

\* What usb_vms says of the device of a call while it is plugged in: from the
\* claim to the commit nothing or the VM it goes to, and that VM if it is no
\* news.
CallOK ==
    at.pc \notin {"next", "preflight"} =>
        /\ at.vm # None /\ ~at.changed => at.pc \in AttachPcs
        /\ OnBus(bus, Node) =>
             /\ at.pc \in AttachPcs => usbVms[Node] \in {None, at.vm}
             /\ at.vm # None /\ (~at.changed \/ at.pc = "announce") => usbVms[Node] = at.vm
             /\ at.pc = "forget" /\ at.dvm = None => usbVms[Node] = None

\* Nothing is said of device nodes to come.
FreshOK == \A n \in Nodes : n > plugs => view[n] = None /\ usbVms[n] = None

\* The announcement of a device is still to go out.
Unsaid(n) == at.pc = "announce" /\ at.changed /\ Node = n

ViewOK == \A n \in Nodes : OnBus(bus, n) =>
    /\ view[n] \in {None, usbVms[n]}
    /\ Saved => view[n] = usbVms[n] \/ Unsaid(n)

\* These steps change what is recorded only of devices that have gone.
Sparing == \/ BeginStep \/ OpDone \/ TurnStep \/ OtherStep
           \/ Preflight \/ Claim \/ List \/ AttachCmd \/ StaleDetach \/ DetachRead \/ DetachList \/ DetachCmd

LEMMA RecordKept ==
    ASSUME IInv, SeenOK, Sparing, NEW n \in Nodes
    PROVE  \/ usbVms'[n] = usbVms[n] /\ view'[n] = view[n]
           \/ usbVms'[n] = None /\ view'[n] = None /\ ~OnBus(bus', n)
  <1>1. CASE BeginStep
    BY <1>1 DEF BeginStep, ApiNext, ApiSelect, ApiPower, ReconcileResume, Begin
  <1>2. CASE OpDone
    BY <1>2 DEF OpDone
  <1>3. CASE TurnStep
    BY <1>3 DEF TurnStep, Skip, BeginDetach, BeginAttach, Turn
  <1>4. CASE \/ Preflight \/ Claim \/ List \/ AttachCmd \/ StaleDetach \/ DetachRead \/ DetachList \/ DetachCmd
    BY <1>4 DEF Preflight, Claim, List, AttachCmd, StaleDetach,
                DetachRead, DetachList, DetachCmd
  <1>5. CASE ObserveForget
    <2> DEFINE g == observed[rec.slot].node
    <2>1. rec.slot \in Gone /\ bus' = bus
      BY <1>5 DEF ObserveForget, Observing, Gone, hostVars
    <2>2. ~OnBus(bus', g)
      BY <2>1 DEF SeenOK
    <2>3. /\ usbVms' = [usbVms EXCEPT ![g] = None] /\ view' = [view EXCEPT ![g] = None]
          /\ usbVms \in [Nodes -> VMs \cup {None}] /\ view \in [Nodes -> VMs \cup {None}]
      BY <1>5 DEF ObserveForget, IInv, TypeOK
    <2> HIDE DEF g
    <2> QED BY <2>2, <2>3
  <1>6. CASE OtherStep /\ ~ObserveForget
    BY <1>6 DEF OtherStep, HostNext, Plug, Unplug, VmStart, VmStop, VmDrop, daemonVars,
                ReconcileStart, ObserveRead, ObserveList, ObserveDetach, ObserveDone
  <1> QED BY <1>1, <1>2, <1>3, <1>4, <1>5, <1>6 DEF Sparing

\* The device of a call.
LEMMA CallDevice ==
    ASSUME IInv, at.pc # "next"
    PROVE  /\ Node \in Nodes /\ Node \in Nat /\ Node <= plugs
           /\ Dev \in Devices /\ DevId \in Ids /\ at.slot \in Slots
           /\ op.kind # "idle" /\ at.slot \in Present(op.scan)
           /\ Rule[at.slot][Dev] \in Rules /\ Rule[at.slot][Dev] # None
  BY CurrentDevice, BusTypes DEF IInv, FrameOK, ScanOK, NodesOK, Node, Dev, DevId

\* A node that is on the bus after a step was there before or is new.
LEMMA WasOnBus ==
    ASSUME IInv, SeenOK, Next, NEW n \in Nat, n <= plugs, OnBus(bus', n)
    PROVE  OnBus(bus, n)
  BY GoneStays DEF SeenOK

LEMMA SameNode ==
    ASSUME op'.scan = op.scan, at'.slot = at.slot
    PROVE  Node' = Node /\ Dev' = Dev /\ DevId' = DevId
  BY DEF Node, Dev, DevId

\* A step that goes on with a call need only answer for the new frame.
LEMMA CallGoesOn ==
    ASSUME IInv, SeenOK, CallOK, Next, at.pc \notin {"next", "preflight"}, op' = op,
           at'.slot = at.slot, at'.vm = at.vm, usbVms'[Node] = usbVms[Node],
           at'.vm # None /\ ~at'.changed => at'.pc \in AttachPcs /\ ~at.changed,
           at'.pc \in AttachPcs => at.pc \in AttachPcs,
           at'.pc = "announce" => at.pc = "announce",
           at'.pc = "forget" /\ at'.dvm = None => usbVms[Node] = None
    PROVE  CallOK'
  <1>1. (Node' = Node /\ OnBus(bus, Node)) \/ ~OnBus(bus', Node)
    BY WasOnBus, CallDevice, SameNode
  <1>2. Node' = Node
    BY SameNode
  <1>3. CASE ~OnBus(bus', Node)
    BY <1>2, <1>3 DEF CallOK
  <1>4. CASE OnBus(bus, Node)
    BY <1>2, <1>4 DEF CallOK
  <1> QED BY <1>1, <1>3, <1>4

LEMMA CallStays == IInv /\ SeenOK /\ CallOK /\ Next => CallOK'
  <1> SUFFICES ASSUME IInv, SeenOK, CallOK, Next PROVE CallOK' OBVIOUS
  <1>a. op \in Ops /\ at \in Frames /\ usbVms \in [Nodes -> VMs \cup {None}]
    BY DEF IInv, TypeOK
  <1>b. at'.pc \in {"next", "preflight"} => CallOK'
    BY DEF CallOK
  <1>c. ASSUME NEW s, at'.slot = s, op'.scan = op.scan, usbVms' = usbVms,
               at'.changed = IsNews(usbVms[op.scan[s].node], at'.vm),
               at'.pc = IF MustLeave(usbVms[op.scan[s].node], at'.vm) THEN "dread" ELSE "claim"
        PROVE  CallOK'
    <2>1. usbVms'[Node'] = usbVms[op.scan[s].node]
      BY <1>c DEF Node
    <2> QED BY <1>c, <2>1 DEF CallOK, AttachPcs, IsNews, MustLeave
  <1>1. CASE BeginStep \/ OpDone \/ Crash
    BY <1>1, <1>b, BeginScan, Ended DEF OpDone, Crash, IInv, ScanOK
  <1>2. ASSUME NEW s \in Slots, Skip(s) PROVE CallOK'
    BY <1>2, <1>b DEF Skip, Turn
  <1>3. ASSUME NEW s \in Slots, BeginDetach(s) PROVE CallOK'
    <2>1. at'.pc = "dread" /\ at'.vm = None
      BY <1>3, EmptyTypes DEF BeginDetach, NoFrame
    <2> QED BY <2>1 DEF CallOK, AttachPcs
  <1>4. ASSUME NEW s \in Slots, BeginAttach(s) PROVE CallOK'
    <2>1. op'.scan = op.scan /\ usbVms' = usbVms /\ at.pc = "next"
      BY <1>4, TurnScan DEF BeginAttach, Turn
    <2> QED BY <1>4, <1>b, <1>c, <2>1, Begun, Ended DEF IInv
  <1>16. CASE Preflight
    <2>1. op'.scan = op.scan /\ usbVms' = usbVms
      BY <1>16, CallStep DEF AttachStep, Preflight
    <2> QED BY <1>16, <1>a, <1>b, <1>c, <2>1, Preflown, Ended DEF Node
  <1>5. CASE Claim
    <2>1. CASE /\ at' = [at EXCEPT !.pc = "list", !.known = mem.ports[at.slot],
                            !.gen = IF Preflighted(Dev) THEN @ ELSE SocketGeneration(at.vm)]
               /\ UNCHANGED <<op, deferred>>
      <3>1. at.pc = "claim" /\ usbVms' = usbVms
        BY <1>5 DEF Claim, Attaching
      <3>2. /\ at'.pc = "list" /\ at'.slot = at.slot /\ at'.vm = at.vm /\ at'.changed = at.changed
        BY <1>a, <2>1 DEF Frames
      <3> QED BY <2>1, <3>1, <3>2, CallGoesOn DEF AttachPcs
    <2> QED BY <1>5, <1>b, <2>1, Ended DEF Claim
  <1>6. CASE List
    <2>1. at.pc = "list" /\ usbVms' = usbVms
      BY <1>6 DEF List, Attaching
    <2>2. ASSUME NEW live, Choose(live) PROVE CallOK'
      <3>1. CASE Reusable(live)
        <4>1. /\ at'.pc = "commit" /\ at'.slot = at.slot /\ at'.vm = at.vm
              /\ at'.changed = at.changed /\ op' = op
          BY <1>a, <2>2, <3>1 DEF Choose, Frames
        <4> QED BY <2>1, <4>1, CallGoesOn DEF AttachPcs
      <3>2. CASE ~Reusable(live)
        <4>1. /\ at'.pc = "attach" /\ at'.slot = at.slot /\ at'.vm = at.vm /\ at'.changed
              /\ op' = op
          BY <1>a, <2>2, <3>2 DEF Choose, Frames
        <4> QED BY <2>1, <4>1, CallGoesOn DEF AttachPcs
      <3> QED BY <3>1, <3>2
    <2> QED BY <1>6, <1>b, <2>2, Ended, Listing
  <1>7. CASE AttachCmd
    <2>1. at.pc = "attach" /\ usbVms' = usbVms
      BY <1>7 DEF AttachCmd, Attaching
    <2>2. ASSUME NEW p \in FreePorts(at.vm), UNCHANGED <<op, deferred>>,
                 at' = LET stale == IF at.stale = p THEN None ELSE at.stale
                       IN  [at EXCEPT !.port = p, !.stale = stale,
                              !.pc = IF stale = None THEN "commit" ELSE "stale"]
          PROVE  CallOK'
      <3> DEFINE stale == IF at.stale = p THEN None ELSE at.stale
      <3>1. at' = [at EXCEPT !.port = p, !.stale = stale,
                             !.pc = IF stale = None THEN "commit" ELSE "stale"]
        BY <2>2
      <3> HIDE DEF stale
      <3>2. /\ at'.pc \in {"commit", "stale"} /\ at'.slot = at.slot /\ at'.vm = at.vm
            /\ at'.changed = at.changed
        BY <1>a, <3>1 DEF Frames
      <3> QED BY <2>1, <2>2, <3>2, CallGoesOn DEF AttachPcs
    <2> QED BY <1>7, <1>b, <2>2, Ended DEF AttachCmd
  <1>8. CASE StaleDetach
    <2>1. at.pc = "stale" /\ usbVms' = usbVms
      BY <1>8 DEF StaleDetach, Attaching
    <2>2. CASE at' = [at EXCEPT !.pc = "commit"] /\ UNCHANGED <<op, deferred>>
      <3>1. /\ at'.pc = "commit" /\ at'.slot = at.slot /\ at'.vm = at.vm
            /\ at'.changed = at.changed
        BY <1>a, <2>2 DEF Frames
      <3> QED BY <2>1, <2>2, <3>1, CallGoesOn DEF AttachPcs
    <2> QED BY <1>8, <1>b, <2>2, Ended DEF StaleDetach
  <1>9. CASE Commit
    <2>1. CASE at' = [at EXCEPT !.pc = "announce"] /\ UNCHANGED <<op, deferred>>
      <3>1. /\ at'.pc = "announce" /\ at'.slot = at.slot /\ at'.vm = at.vm
        BY <1>a, <2>1 DEF Frames
      <3>2. at.pc = "commit" /\ usbVms' = [usbVms EXCEPT ![Node] = at.vm]
        BY <1>9 DEF Commit, Attaching
      <3>3. Node' = Node /\ usbVms'[Node] = at.vm
        BY <1>a, <2>1, <3>1, <3>2, CallDevice, SameNode
      <3> QED BY <3>1, <3>3 DEF CallOK, AttachPcs
    <2> QED BY <1>9, <1>b, <2>1, Ended DEF Commit
  <1>10. CASE Announce
    BY <1>10, <1>b, Ended DEF Announce
  <1>11. CASE DetachRead
    <2> DEFINE b == mem.ports[at.slot]
               v == IF usbVms[Node] # None THEN usbVms[Node]
                    ELSE IF b # None THEN b.vm ELSE None
    <2>1. at.pc = "dread" /\ op' = op /\ usbVms' = usbVms
      BY <1>11 DEF DetachRead, Attaching
    <2>2. /\ at'.slot = at.slot /\ at'.vm = at.vm /\ at'.dvm = v /\ at'.changed = at.changed
          /\ at'.pc = IF v = None \/ Stopped(v) THEN "forget" ELSE "dlist"
      BY <1>11, <1>a DEF DetachRead, Frames
    <2>3. v = None => usbVms[Node] = None
      OBVIOUS
    <2>4. at.vm = None \/ at.changed
      BY <2>1 DEF CallOK, AttachPcs
    <2> HIDE DEF v
    <2> QED BY <2>1, <2>2, <2>3, <2>4, CallGoesOn DEF AttachPcs
  <1>12. CASE DetachList
    <2>1. at.pc = "dlist" /\ at.dvm # None /\ usbVms' = usbVms
      BY <1>12 DEF DetachList, Attaching, IInv, FrameOK
    <2>2. at.vm = None \/ at.changed
      BY <2>1 DEF CallOK, AttachPcs
    <2>3. CASE /\ at' = [at EXCEPT !.pc = "forget", !.known = None]
               /\ UNCHANGED <<op, deferred>>
      <3>1. /\ at'.pc = "forget" /\ at'.slot = at.slot /\ at'.vm = at.vm
            /\ at'.dvm = at.dvm /\ at'.changed = at.changed
        BY <1>a, <2>3 DEF Frames
      <3> QED BY <2>1, <2>2, <2>3, <3>1, CallGoesOn DEF AttachPcs
    <2>4. ASSUME NEW p \in Ports, UNCHANGED <<op, deferred>>,
                 at' = [at EXCEPT !.pc = "dcmd", !.port = p, !.known = None]
          PROVE  CallOK'
      <3>1. /\ at'.pc = "dcmd" /\ at'.slot = at.slot /\ at'.vm = at.vm
            /\ at'.changed = at.changed
        BY <1>a, <2>4 DEF Frames
      <3> QED BY <2>1, <2>2, <2>4, <3>1, CallGoesOn DEF AttachPcs
    <2> QED BY <1>12, <1>b, <2>3, <2>4, Ended DEF DetachList
  <1>13. CASE DetachCmd
    <2>1. at.pc = "dcmd" /\ at.dvm # None /\ usbVms' = usbVms
      BY <1>13 DEF DetachCmd, Attaching, IInv, FrameOK
    <2>2. at.vm = None \/ at.changed
      BY <2>1 DEF CallOK, AttachPcs
    <2>3. CASE at' = [at EXCEPT !.pc = "forget", !.port = None] /\ UNCHANGED <<op, deferred>>
      <3>1. /\ at'.pc = "forget" /\ at'.slot = at.slot /\ at'.vm = at.vm
            /\ at'.dvm = at.dvm /\ at'.changed = at.changed
        BY <1>a, <2>3 DEF Frames
      <3> QED BY <2>1, <2>2, <2>3, <3>1, CallGoesOn DEF AttachPcs
    <2> QED BY <1>13, <1>b, <2>3, Ended DEF DetachCmd
  <1>14. CASE Forget
    <2>1. CASE /\ at.vm # None /\ at' = [at EXCEPT !.pc = "claim", !.dvm = None]
               /\ UNCHANGED <<op, deferred>>
      <3>1. at.pc = "forget" /\ usbVms' = [usbVms EXCEPT ![Node] = None]
        BY <1>14 DEF Forget
      <3>2. /\ at'.pc = "claim" /\ at'.slot = at.slot /\ at'.vm = at.vm
            /\ at'.changed = at.changed
        BY <1>a, <2>1 DEF Frames
      <3>3. at.changed
        BY <2>1, <3>1 DEF CallOK, AttachPcs
      <3>4. Node' = Node /\ usbVms'[Node] = None
        BY <1>a, <2>1, <3>1, <3>2, CallDevice, SameNode
      <3> QED BY <3>2, <3>3, <3>4 DEF CallOK, AttachPcs
    <2> QED BY <1>14, <1>b, <2>1, Ended DEF Forget
  <1>15. CASE OtherStep
    <2>1. op' = op /\ at' = at /\ Node' = Node
      BY <1>15, OtherFrame DEF Node
    <2>2. ASSUME at.pc # "next", OnBus(bus', Node)
          PROVE  usbVms'[Node] = usbVms[Node] /\ OnBus(bus, Node)
      BY <1>15, <2>2, CallDevice, RecordKept, WasOnBus DEF Sparing
    <2> QED BY <2>1, <2>2 DEF CallOK
  <1> QED
    BY <1>1, <1>2, <1>3, <1>4, <1>5, <1>6, <1>7, <1>8, <1>9, <1>10, <1>11, <1>12, <1>13,
       <1>14, <1>15, <1>16, StepCases DEF TurnStep, AttachStep, DetachStep

\* Faults are counted, and a save that fails is one.
LEMMA SavedBefore ==
    ASSUME IInv, Next
    PROVE  Saved' => Saved
  <1>a. faults \in Nat
    BY DEF IInv, TypeOK
  <1>b. /\ \A f : Fault(f) => faults' # 0
        /\ \A v : Unanswered(v) => faults' \in {faults, faults + 1}
    BY <1>a DEF Fault, Unanswered, NoFault
  <1>c. \A v, p : DetachAnswered(v, p) \/ DetachErred(v, p) => faults' = faults \/ faults' # 0
    BY <1>a, <1>b DEF DetachAnswered, DetachErred, NoFault
  <1>d. \A v : Unanswered(v) => faults' = faults \/ faults' # 0
    BY <1>a, <1>b
  <1>1. CASE BeginStep \/ OpDone \/ TurnStep
    BY <1>1 DEF BeginStep, ApiNext, ApiSelect, ApiPower, ReconcileResume, Begin, OpDone,
                TurnStep, Skip, BeginDetach, BeginAttach, Turn, Saved
  <1>2. CASE AttachStep
    BY <1>2, <1>b, <1>c, <1>d DEF AttachStep, Preflight, Claim, List, AttachCmd, StaleDetach, Commit, Announce,
      Choose, NoFault, Saved
  <1>3. CASE DetachStep
    BY <1>3, <1>b, <1>c, <1>d DEF DetachStep, DetachRead, DetachList, DetachCmd, Forget, NoFault, Saved
  <1>4. CASE OtherStep
    BY <1>4, <1>b, <1>c, <1>d
    DEF OtherStep, HostNext, Plug, Unplug, VmStart, VmStop, VmDrop, daemonVars,
        ReconcileStart, ObserveRead, ObserveList, ObserveDetach, ObserveForget, ObserveDone, NoFault, Saved
  <1>5. CASE Crash
    BY <1>5, <1>b DEF Crash, Saved
  <1> QED BY <1>1, <1>2, <1>3, <1>4, <1>5, StepCases

LEMMA FreshStep == IInv /\ SeenOK /\ FreshOK /\ Next => FreshOK'
  <1> SUFFICES ASSUME IInv, SeenOK, FreshOK, Next, NEW n \in Nodes, n > plugs'
               PROVE  view'[n] = None /\ usbVms'[n] = None
    BY DEF FreshOK
  <1>a. /\ n \in Nat /\ n > plugs /\ plugs \in Nat
        /\ usbVms \in [Nodes -> VMs \cup {None}] /\ view \in [Nodes -> VMs \cup {None}]
    BY BusTypes, BusStep DEF SeenOK, IInv, TypeOK
  <1>b. view[n] = None /\ usbVms[n] = None
    BY <1>a DEF FreshOK
  <1>1. CASE Sparing
    BY <1>1, <1>b, RecordKept
  <1>2. CASE Commit \/ Announce
    <2>1. Node # n
      BY <1>2, <1>a, CallDevice DEF Commit, Announce, Attaching
    <2> QED BY <1>2, <1>a, <1>b, <2>1 DEF Commit, Announce
  <1>3. CASE Forget
    <2>1. Node # n
      BY <1>3, <1>a, CallDevice DEF Forget
    <2> QED BY <1>3, <1>a, <1>b, <2>1 DEF Forget
  <1>4. CASE Crash
    BY <1>4 DEF Crash
  <1> QED BY <1>1, <1>2, <1>3, <1>4, StepCases DEF Sparing, AttachStep, DetachStep

LEMMA ViewStep == IInv /\ SeenOK /\ CallOK /\ FreshOK /\ ViewOK /\ Next => ViewOK'
  <1> SUFFICES ASSUME IInv, SeenOK, CallOK, FreshOK, ViewOK, Next, NEW n \in Nodes, OnBus(bus', n)
               PROVE  /\ view'[n] \in {None, usbVms'[n]}
                      /\ Saved' => view'[n] = usbVms'[n] \/ Unsaid(n)'
    BY DEF ViewOK
  <1>a. /\ n \in Nat /\ plugs \in Nat /\ at \in Frames
        /\ usbVms \in [Nodes -> VMs \cup {None}] /\ view \in [Nodes -> VMs \cup {None}]
    BY BusTypes DEF IInv, TypeOK
  <1>b. /\ view[n] \in {None, usbVms[n]}
        /\ Saved => view[n] = usbVms[n] \/ Unsaid(n)
    <2>1. CASE n <= plugs
      BY <2>1, <1>a, WasOnBus DEF ViewOK
    <2>2. CASE n > plugs
      BY <2>2 DEF FreshOK
    <2> QED BY <1>a, <2>1, <2>2
  <1>c. at.pc # "announce" => ~Unsaid(n)
    BY DEF Unsaid
  <1>1. CASE Sparing
    <2>1. usbVms'[n] = usbVms[n] /\ view'[n] = view[n]
      BY <1>1, RecordKept
    <2>2. CASE OtherStep
      <3>1. Unsaid(n) => Unsaid(n)'
        BY <2>2, OtherFrame DEF Unsaid, Node
      <3> QED BY <1>b, <2>1, <3>1, SavedBefore
    <2>3. CASE ~OtherStep
      <3>1. at.pc # "announce"
        BY <1>1, <2>3, BeginScan
        DEF Sparing, OpDone, TurnStep, Skip, BeginDetach, BeginAttach, Turn, IInv, ScanOK,
            Preflight, Claim, List, AttachCmd, StaleDetach, DetachRead, DetachList, DetachCmd, Attaching
      <3> QED BY <1>b, <1>c, <2>1, <3>1, SavedBefore
    <2> QED BY <2>2, <2>3
  <1>2. CASE Commit
    <2>1. at.pc = "commit" /\ usbVms' = [usbVms EXCEPT ![Node] = at.vm] /\ view' = view /\ bus' = bus
      BY <1>2 DEF Commit, Attaching, hostVars
    <2>2. CASE n # Node
      BY <1>a, <1>b, <1>c, <2>1, <2>2, SavedBefore
    <2>3. CASE n = Node
      <3>1. /\ usbVms[n] \in {None, at.vm} /\ at.vm # None
            /\ ~at.changed => usbVms[n] = at.vm
        BY <2>1, <2>3 DEF CallOK, AttachPcs, IInv, FrameOK
      <3>2. usbVms'[n] = at.vm
        BY <1>a, <2>1, <2>3
      <3>3. view'[n] \in {None, usbVms'[n]}
        BY <1>b, <2>1, <3>1, <3>2
      <3>4. CASE Fault("save")
        <4>1. ~Saved'
          BY <3>4 DEF Fault, Saved, IInv, TypeOK
        <4> QED BY <3>3, <4>1
      <3>5. CASE at' = [at EXCEPT !.pc = "announce"] /\ UNCHANGED <<op, deferred>>
        <4>1. at'.pc = "announce" /\ at'.changed = at.changed /\ Node' = n
          BY <1>a, <2>3, <3>5 DEF Frames, Node
        <4>2. at.changed => Unsaid(n)'
          BY <4>1 DEF Unsaid
        <4>3. ~at.changed => view'[n] = usbVms'[n] \/ ~Saved
          BY <1>b, <1>c, <2>1, <3>1, <3>2
        <4> QED BY <1>a, <3>3, <4>2, <4>3, SavedBefore DEF Frames
      <3> QED BY <1>2, <3>4, <3>5 DEF Commit
    <2> QED BY <2>2, <2>3
  <1>3. CASE Announce
    <2>1. /\ at.pc = "announce" /\ usbVms' = usbVms /\ bus' = bus /\ at.vm # None
          /\ view' = IF at.changed THEN [view EXCEPT ![Node] = at.vm] ELSE view
      BY <1>3 DEF Announce, Attaching, hostVars, IInv, FrameOK, AttachPcs
    <2>2. CASE n # Node
      BY <1>a, <1>b, <2>1, <2>2, SavedBefore DEF Unsaid
    <2>3. CASE n = Node
      <3>1. usbVms[n] = at.vm
        BY <2>1, <2>3 DEF CallOK
      <3>2. at.changed => view'[n] = at.vm
        BY <1>a, <2>1, <2>3
      <3>3. ~at.changed => ~Unsaid(n) /\ view'[n] = view[n]
        BY <2>1 DEF Unsaid
      <3> QED BY <1>b, <2>1, <3>1, <3>2, <3>3, SavedBefore
    <2> QED BY <2>2, <2>3
  <1>4. CASE Forget
    <2>1. /\ at.pc = "forget" /\ usbVms' = [usbVms EXCEPT ![Node] = None] /\ bus' = bus
          /\ view' = IF at.dvm # None THEN [view EXCEPT ![Node] = None] ELSE view
      BY <1>4 DEF Forget, hostVars
    <2>2. CASE n # Node
      BY <1>a, <1>b, <1>c, <2>1, <2>2, SavedBefore
    <2>3. CASE n = Node
      <3>1. at.dvm = None => usbVms[n] = None
        BY <2>1, <2>3 DEF CallOK
      <3>2. usbVms'[n] = None
        BY <1>a, <2>1, <2>3
      <3>3. view'[n] = None
        BY <1>a, <1>b, <2>1, <2>3, <3>1
      <3> QED BY <3>2, <3>3
    <2> QED BY <2>2, <2>3
  <1>5. CASE Crash
    BY <1>5 DEF Crash
  <1> QED BY <1>1, <1>2, <1>3, <1>4, <1>5, StepCases DEF Sparing, AttachStep, DetachStep

LInv == IInv /\ SeenOK /\ CallOK /\ FreshOK /\ ViewOK

\* LInv is inductive.
LEMMA ListenerInvariance == Spec => []LInv
  <1>1. Init => LInv
    <2> SUFFICES ASSUME Init PROVE LInv OBVIOUS
    <2>1. SeenOK
      BY SeenNothing DEF Init, SeenOK, NoOp, NoRec, Gone
    <2>2. CallOK /\ FreshOK /\ ViewOK
      BY EmptyTypes DEF Init, CallOK, FreshOK, ViewOK, OnBus, NoFrame
    <2> QED BY <2>1, <2>2, InitIInv DEF LInv
  <1>2. LInv /\ [Next]_vars => LInv'
    <2> SUFFICES ASSUME LInv, [Next]_vars PROVE LInv' OBVIOUS
    <2>1. IInv'
      BY StepIInv DEF LInv
    <2>2. CASE Next
      BY <2>1, <2>2, SeenStep, CallStays, FreshStep, ViewStep DEF LInv
    <2>3. CASE UNCHANGED vars
      <3>1. SeenOK'
        BY <2>3 DEF vars, LInv, SeenOK, Apart, SeenIn, Gone, OnBus, Present
      <3>2. CallOK' /\ FreshOK' /\ ViewOK'
        BY <2>3 DEF vars, LInv, CallOK, FreshOK, ViewOK, OnBus, Present, Saved, Unsaid, Node
      <3> QED BY <2>1, <3>1, <3>2 DEF LInv
    <2> QED BY <2>2, <2>3
  <1> QED BY <1>1, <1>2, PTL DEF Spec

\* usb_attached, usb_detached and usb_disconnected tell a listener nothing wrong
\* of a device that is plugged in, and between operations all there is to know,
\* until a save has failed: for hot-plug, passes, crashes and lost answers at
\* any point.
THEOREM ListenersInStep == Spec => []ListenerView
  <1>1. LInv => ListenerView
    <2> SUFFICES ASSUME LInv, NEW s \in Present(bus)
                 PROVE  /\ view[bus[s].node] \in {None, usbVms[bus[s].node]}
                        /\ Quiescent /\ Saved => view[bus[s].node] = usbVms[bus[s].node]
      BY DEF ListenerView
    <2>1. bus[s].node \in Nodes /\ OnBus(bus, bus[s].node)
      BY BusTypes DEF OnBus, LInv
    <2>2. Quiescent => ~Unsaid(bus[s].node)
      BY DEF LInv, IInv, ScanOK, Quiescent, Unsaid
    <2> QED BY <2>1, <2>2 DEF LInv, ViewOK
  <1> QED BY <1>1, ListenerInvariance, PTL

---------------------------------------------------------------------------
(* The quiet pass: what the resume of a pass leaves behind.                *)

\* The resume of a pass holds the operation lock.
PassOp == op.kind # "idle" /\ op.by = "reconcile"

PassOK == PassOp => op.kind = "resume" /\ op.vm = None /\ rec.pc = "resume"

InCall == IF at.pc = "next" THEN {} ELSE {at.slot}

\* The VM the device at s of the scan should be with.
Proper(s) == ChooseVm(None, Rule[s][op.scan[s].dev], Id[op.scan[s].dev])

\* The devices the resume of a pass has been through are settled, as long as it
\* has neither failed nor deferred; and the one in hand goes where its rule and
\* the selection say.
QuietOK ==
    PassOp =>
        /\ ~op.failed /\ ~deferred =>
              \A s \in Present(op.scan) \ (op.todo \cup InCall) : Settled(s)
        /\ at.pc # "next" => at.vm = Proper(at.slot)
        /\ at.pc = "announce" => usbVms[Node] = at.vm

QInv == IInv /\ SeenOK /\ PassOK /\ QuietOK

\* The steps of an operation keep its kind.
LEMMA SameOperation ==
    ASSUME IInv, TurnStep \/ AttachStep \/ DetachStep \/ OtherStep
    PROVE  /\ op'.kind = op.kind /\ op'.by = op.by /\ op'.vm = op.vm /\ op'.scan = op.scan
           /\ op.failed => op'.failed
  <1>a. op \in Ops
    BY DEF IInv, TypeOK
  <1>1. CASE AttachStep \/ DetachStep
    BY <1>1, <1>a, CallStep DEF Ops
  <1>2. ASSUME NEW s \in Slots, Skip(s) \/ BeginDetach(s) \/ BeginAttach(s)
        PROVE  op' \in {Popped(s), [Popped(s) EXCEPT !.failed = TRUE]}
    BY <1>2 DEF Skip, BeginDetach, BeginAttach, DeviceFailed
  <1>3. CASE TurnStep
    BY <1>2, <1>3, <1>a DEF TurnStep, Popped, Ops
  <1>4. CASE OtherStep
    BY <1>4, OtherFrame
  <1> QED BY <1>1, <1>3, <1>4

LEMMA PassStep == IInv /\ PassOK /\ Next => PassOK'
  <1> SUFFICES ASSUME IInv, PassOK, Next PROVE PassOK' OBVIOUS
  <1>a. rec \in Recs
    BY DEF IInv, TypeOK
  <1>1. CASE ApiNext
    BY <1>1 DEF ApiNext, ApiSelect, ApiPower, Begin, PassOK, PassOp
  <1>2. CASE ReconcileResume
    <2>1. op'.kind = "resume" /\ op'.vm = None /\ rec'.pc = "resume"
      BY <1>2, <1>a DEF ReconcileResume, Begin, Recs
    <2> QED BY <2>1 DEF PassOK
  <1>3. CASE OpDone \/ Crash
    BY <1>3 DEF OpDone, Crash, NoOp, PassOK, PassOp
  <1>4. CASE TurnStep \/ AttachStep \/ DetachStep
    <2>1. rec' = rec
      BY <1>4, TurnScan, CallStep DEF TurnStep
    <2> QED BY <1>4, <2>1, SameOperation DEF PassOK, PassOp
  <1>5. CASE OtherStep
    <2>1. rec.pc = "resume" => rec' = rec
      BY <1>5 DEF OtherStep, HostNext, Plug, Unplug, VmStart, VmStop, VmDrop, daemonVars,
                  ReconcileStart, ObserveRead, ObserveList, ObserveDetach, ObserveForget, ObserveDone, Observing
    <2> QED BY <1>5, <2>1, SameOperation DEF PassOK, PassOp
  <1> QED BY <1>1, <1>2, <1>3, <1>4, <1>5, StepCases DEF BeginStep

LEMMA SettledKept ==
    ASSUME IInv, SeenOK, Next, op'.scan = op.scan, NEW s \in Present(op.scan), Settled(s),
           \/ \E t \in Present(op.scan) \ {s} : Id[op.scan[t].dev] = Id[op.scan[s].dev]
           \/ /\ mem'.selected[Id[op.scan[s].dev]] = mem.selected[Id[op.scan[s].dev]]
              /\ Id[op.scan[s].dev] \in mem.disconnected => Id[op.scan[s].dev] \in mem'.disconnected
              /\ usbVms'[op.scan[s].node] = usbVms[op.scan[s].node]
    PROVE  Settled(s)'
  <1> DEFINE p == op.scan[s]
             r == Rule[s][p.dev]
             i == Id[p.dev]
  <1>a. p # None /\ s \in Slots /\ p.node <= plugs /\ p.node \in Nat /\ plugs \in Nat /\ bus' \in Bus
    <2>1. bus' \in Bus
      BY TypeStep DEF IInv, TypeOK
    <2> QED BY <2>1, BusTypes DEF Present, IInv, NodesOK
  <1>1. bus[s] # p => bus'[s] # p
    <2>1. CASE s \in Present(bus')
      BY <2>1, <1>a, BusStep DEF SeenOK
    <2>2. CASE s \notin Present(bus')
      BY <2>2, <1>a DEF Present
    <2> QED BY <2>1, <2>2
  <1>2. CASE \E t \in Present(op.scan) \ {s} : Id[op.scan[t].dev] = i
    BY <1>2 DEF Settled, Present
  <1>3. CASE /\ mem'.selected[i] = mem.selected[i]
             /\ i \in mem.disconnected => i \in mem'.disconnected
             /\ usbVms'[p.node] = usbVms[p.node]
    <2>1. ChooseVm(None, r, i)' = ChooseVm(None, r, i)
      BY <1>3 DEF ChooseVm, Target
    <2> QED BY <1>1, <1>3, <2>1 DEF Settled, Present
  <1> QED BY <1>2, <1>3

\* What a resume passes on as the wanted VM leads to the same choice.
LEMMA WantedIsProper ==
    ASSUME op.kind = "resume", NEW s
    PROVE  ChooseVm(Wanted(s), Rule[s][op.scan[s].dev], Id[op.scan[s].dev]) = Proper(s)
  BY DEF ChooseVm, Wanted, Proper

\* The steps that change what makes a device settled are those of a call on
\* another device.
LEMMA OthersSettled ==
    ASSUME QInv, Next, PassOp, TurnStep \/ AttachStep \/ DetachStep \/ OtherStep,
           NEW s \in Present(op.scan), Settled(s),
           Commit \/ Forget => s # at.slot
    PROVE  Settled(s)'
  <1> USE DEF QInv
  <1>a. /\ op'.scan = op.scan /\ mem \in Persistent /\ usbVms \in [Nodes -> VMs \cup {None}]
        /\ op.scan[s].node \in Nodes /\ Id[op.scan[s].dev] \in Ids
    BY SameOperation, CurrentDevice DEF IInv, TypeOK
  <1>1. CASE Commit \/ Forget
    <2>1. s # at.slot /\ at.slot \in Present(op.scan) /\ at.pc # "next"
      BY <1>1 DEF Commit, Forget, Attaching, IInv, FrameOK
    <2>2. Node # op.scan[s].node
      BY <2>1 DEF SeenOK, Apart, Node
    <2>3. CASE DevId = Id[op.scan[s].dev]
      BY <1>a, <2>1, <2>3, SettledKept DEF DevId, Dev
    <2>4. CASE DevId # Id[op.scan[s].dev]
      <3>1. usbVms'[op.scan[s].node] = usbVms[op.scan[s].node]
        BY <1>1, <1>a, <2>2 DEF Commit, Forget
      <3>2. op.kind # "disconnect"
        BY DEF PassOK
      <3>3. CASE Commit
        <4>1. mem' \in {Selected(mem), Connected(mem), Bound(mem)}
          BY <3>3 DEF Commit
        <4>2. /\ mem'.disconnected \in {mem.disconnected, mem.disconnected \ {DevId}}
              /\ mem'.selected[Id[op.scan[s].dev]] = mem.selected[Id[op.scan[s].dev]]
          <5>1. /\ Selected(mem).selected[Id[op.scan[s].dev]] = mem.selected[Id[op.scan[s].dev]]
                /\ Connected(mem).selected = Selected(mem).selected
                /\ Bound(mem).selected = Connected(mem).selected
            BY <1>a, <2>4 DEF Selected, Connected, Bound, Persistent
          <5> QED BY <4>1, <5>1, SavedMarks
        <4> QED BY <1>a, <2>4, <3>1, <4>2, SettledKept
      <3>4. CASE Forget
        <4>1. mem'.disconnected = mem.disconnected \ {DevId} /\ mem'.selected = mem.selected
          BY <1>a, <3>2, <3>4, SavedMarks DEF Forget, Forgotten, Persistent
        <4> QED BY <1>a, <2>4, <3>1, <4>1, SettledKept
      <3> QED BY <1>1, <3>3, <3>4
    <2> QED BY <2>3, <2>4
  <1>2. CASE ~(Commit \/ Forget)
    <2>1. mem' = mem /\ usbVms' = usbVms
      <3>1. CASE TurnStep
        BY <3>1 DEF TurnStep, Skip, BeginDetach, BeginAttach, Turn
      <3>2. CASE AttachStep \/ DetachStep
        BY <3>2, <1>2 DEF AttachStep, DetachStep, Preflight, Claim, List, AttachCmd, StaleDetach, Announce,
                          DetachRead, DetachList, DetachCmd
      <3>3. CASE OtherStep
        <4>1. rec.pc = "resume"
          BY DEF PassOK
        <4> QED BY <3>3, <4>1 DEF OtherStep, HostNext, Plug, Unplug, VmStart, VmStop, VmDrop, daemonVars,
                  ReconcileStart, ObserveRead, ObserveList, ObserveDetach, ObserveForget, ObserveDone, Observing
      <3> QED BY <3>1, <3>2, <3>3
    <2> QED BY <1>a, <2>1, SettledKept
  <1> QED BY <1>1, <1>2

\* A call that ends well has settled its device.
LEMMA CallSettles ==
    ASSUME QInv, Next, PassOp, AttachStep \/ DetachStep, at'.pc = "next",
           ~op'.failed, ~deferred', NEW s \in {at.slot}
    PROVE  Settled(s)'
  <1> USE DEF QInv
  <1>a. /\ at.pc # "next" /\ op.kind = "resume" /\ at.vm # None /\ op \in Ops /\ at \in Frames
        /\ at.slot \in Present(op.scan) /\ op'.scan = op.scan
    BY CallStep DEF PassOK, IInv, TypeOK, FrameOK
  <1>b. ASSUME NEW o \in Ops, NEW w, DeviceFailed(o, w) PROVE FALSE
    <2>1. op' = [o EXCEPT !.failed = TRUE] \/ deferred'
      BY <1>b DEF DeviceFailed
    <2> QED BY <2>1 DEF Ops
  <1>c. "next" \notin AttachPcs \cup DetachPcs
    BY DEF AttachPcs, DetachPcs
  <1>1. CASE Claim
    <2>1. bus[at.slot] # None /\ bus[at.slot].dev \in Hubs /\ UNCHANGED <<usbVms, mem>>
      BY <1>1, <1>a, <1>b DEF Claim, Frames
    <2>2. Settled(s)
      BY <2>1 DEF Settled
    <2>3. ~Commit /\ ~Forget
      BY <1>1 DEF Commit, Forget, Claim, Attaching
    <2> QED BY <1>a, <2>2, <2>3, OthersSettled
  <1>2. CASE Announce
    <2>1. usbVms[Node] = Proper(at.slot)
      BY <1>2, <1>a DEF Announce, Attaching, QuietOK
    <2>2. Settled(s)
      BY <2>1 DEF Settled, Proper, Node
    <2>3. ~Commit /\ ~Forget
      BY <1>2 DEF Commit, Forget, Announce, Attaching
    <2> QED BY <1>a, <2>2, <2>3, OthersSettled
  <1>3. CASE List
    <2>1. ASSUME NEW live, Choose(live) PROVE FALSE
      BY <1>a, <2>1 DEF Choose, Frames
    <2> QED BY <1>3, <1>a, <1>b, <2>1, Listing
  <1>8. CASE Preflight
    BY <1>8, <1>a, <1>b, Preflown
  <1>4. CASE AttachCmd
    BY <1>4, <1>a, <1>b DEF AttachCmd, Frames
  <1>5. CASE StaleDetach \/ Commit
    BY <1>5, <1>a, <1>b DEF StaleDetach, Commit, Frames
  <1>6. CASE DetachRead \/ DetachCmd \/ Forget
    BY <1>6, <1>a, <1>b DEF DetachRead, DetachCmd, Forget, Frames
  <1>7. CASE DetachList
    BY <1>7, <1>a, <1>b DEF DetachList, Frames
  <1> QED BY <1>1, <1>2, <1>3, <1>4, <1>5, <1>6, <1>7, <1>8 DEF AttachStep, DetachStep

\* So has a device's turn that ends at once.
LEMMA TurnSettles ==
    ASSUME QInv, Next, PassOp, NEW s \in Slots, Skip(s) \/ BeginAttach(s), at'.pc = "next",
           ~op'.failed, ~deferred'
    PROVE  Settled(s)'
  <1> USE DEF QInv
  <1>a. /\ op.kind = "resume" /\ op.vm = None /\ op \in Ops /\ s \in Present(op.scan)
        /\ Popped(s) \in Ops
    BY TurnScan, PoppedTyped DEF PassOK, IInv, TypeOK
  <1>b. ASSUME NEW o \in Ops, NEW w, DeviceFailed(o, w) PROVE FALSE
    <2>1. op' = [o EXCEPT !.failed = TRUE] \/ deferred'
      BY <1>b DEF DeviceFailed
    <2> QED BY <2>1 DEF Ops
  <1>1. Settled(s)
    <2>1. CASE Skip(s)
      BY <1>a, <2>1 DEF Skip, InScope, Resumes, Settled
    <2>2. CASE BeginAttach(s)
      <3> DEFINE v == ChooseVm(Wanted(s), Rule[s][op.scan[s].dev], Id[op.scan[s].dev])
      <3>1. v = None
        BY <1>a, <1>b, <2>2, Begun DEF IInv
      <3> QED BY <1>a, <3>1, WantedIsProper DEF Settled, Proper
    <2> QED BY <2>1, <2>2
  <1>2. ~Commit /\ ~Forget
    BY DEF Skip, BeginAttach, Turn, Commit, Forget, Attaching
  <1> QED BY <1>a, <1>1, <1>2, OthersSettled DEF TurnStep

\* While a pass resumes, only a call writes to the records.
LEMMA PassAlone ==
    ASSUME IInv, PassOK, PassOp, OtherStep
    PROVE  UNCHANGED <<mem, usbVms, deferred, rec>>
  <1>1. rec.pc = "resume"
    BY DEF PassOK
  <1> QED BY <1>1 DEF OtherStep, HostNext, Plug, Unplug, VmStart, VmStop, VmDrop, daemonVars,
          ReconcileStart, ObserveRead, ObserveList, ObserveDetach, ObserveForget, ObserveDone, Observing

LEMMA DeferralStays ==
    ASSUME IInv, PassOK, PassOp, TurnStep \/ AttachStep \/ DetachStep \/ OtherStep, deferred
    PROVE  deferred'
  <1>a. \A o, w : DeviceFailed(o, w) => deferred'
    BY DEF DeviceFailed
  <1>1. CASE TurnStep
    BY <1>1, <1>a DEF TurnStep, Skip, BeginDetach, BeginAttach
  <1>2. CASE AttachStep
    BY <1>2, <1>a DEF AttachStep, Preflight, Claim, List, Choose, AttachCmd, StaleDetach, Commit,
                      Announce, DeviceDone
  <1>3. CASE DetachStep
    BY <1>3, <1>a DEF DetachStep, DetachRead, DetachList, DetachCmd, Forget
  <1>4. CASE OtherStep
    BY <1>4, PassAlone
  <1> QED BY <1>1, <1>2, <1>3, <1>4

\* Which steps of a call end up in "announce", or write the selection.
LEMMA CallGoesProper ==
    ASSUME QInv, PassOp, AttachStep \/ DetachStep, at'.pc # "next"
    PROVE  /\ at'.vm = Proper(at.slot)' /\ at'.slot = at.slot
           /\ at'.pc = "announce" => usbVms'[Node] = at'.vm /\ Node' = Node
  <1> USE DEF QInv
  <1>a. /\ at.pc # "next" /\ op' = op /\ at'.slot = at.slot /\ at'.vm = at.vm /\ at \in Frames
        /\ at.vm = Proper(at.slot) /\ op.kind = "resume" /\ at.vm # None
        /\ mem \in Persistent /\ usbVms \in [Nodes -> VMs \cup {None}]
    BY CallStep, Ended DEF QuietOK, PassOK, IInv, TypeOK, FrameOK
  <1>b. DevId \in Ids /\ Node \in Nodes /\ Node' = Node /\ at.vm \in VMs
    BY <1>a, CallDevice, SameNode DEF Frames
  <1>1. CASE Commit
    <2>1. mem' = Bound(mem) /\ usbVms' = [usbVms EXCEPT ![Node] = at.vm]
      BY <1>1, <1>a, Ended DEF Commit
    <2>2. mem'.selected[DevId] = at.vm
      BY <1>a, <1>b, <2>1 DEF Bound, Connected, Selected, Persistent
    <2>3. usbVms'[Node] = at.vm
      BY <1>a, <1>b, <2>1
    <2>4. ChooseVm(None, Rule[at.slot][Dev], DevId)' = at.vm
      BY <1>a, <1>b, <2>2, SameNode DEF ChooseVm, Target, Proper, Dev, DevId
    <2> QED BY <1>a, <1>b, <2>3, <2>4 DEF Proper, Dev, DevId
  <1>2. CASE Forget
    <2>1. mem'.selected = mem.selected
      BY <1>2, <1>a DEF Forget, Forgotten, Persistent
    <2>2. at'.pc # "announce"
      BY <1>2, <1>a, Ended DEF Forget, Frames
    <2> QED BY <1>a, <2>1, <2>2 DEF Proper, ChooseVm, Target
  <1>3. CASE ~(Commit \/ Forget)
    <2>1. mem' = mem
      BY <1>3 DEF AttachStep, DetachStep, Preflight, Claim, List, AttachCmd, StaleDetach, Announce,
                  DetachRead, DetachList, DetachCmd
    <2>2. at'.pc # "announce"
      <3>1. CASE Claim
        BY <3>1, <1>a, Ended DEF Claim, Frames
      <3>6. CASE List
        <4>1. ASSUME NEW live, Choose(live) PROVE at'.pc # "announce"
          BY <1>a, <4>1 DEF Choose, Frames
        <4> QED BY <3>6, <1>a, <4>1, Ended, Listing
      <3>7. CASE Preflight
        BY <3>7, <1>a, Ended, Preflown
      <3>2. CASE AttachCmd
        BY <3>2, <1>a, Ended DEF AttachCmd, Frames
      <3>3. CASE StaleDetach \/ Announce
        BY <3>3, <1>a, Ended DEF StaleDetach, Announce, Frames
      <3>4. CASE DetachRead \/ DetachCmd
        BY <3>4, <1>a, Ended DEF DetachRead, DetachCmd, Frames
      <3>5. CASE DetachList
        BY <3>5, <1>a, Ended DEF DetachList, Frames
      <3> QED BY <1>3, <3>1, <3>2, <3>3, <3>4, <3>5, <3>6, <3>7 DEF AttachStep, DetachStep
    <2> QED BY <1>a, <2>1, <2>2 DEF Proper, ChooseVm, Target
  <1> QED BY <1>1, <1>2, <1>3

LEMMA QuietStep == QInv /\ Next => QuietOK'
  <1> SUFFICES ASSUME QInv, Next, PassOp' PROVE QuietOK'
    BY DEF QuietOK
  <1> USE DEF QInv
  <1>a. op \in Ops /\ at \in Frames /\ deferred \in BOOLEAN
    BY DEF IInv, TypeOK
  <1>1. CASE BeginStep
    <2>1. ReconcileResume
      BY <1>1 DEF BeginStep, ApiNext, ApiSelect, ApiPower, Begin, PassOp
    <2>2. op'.todo = Present(op'.scan) /\ at'.pc = "next"
      BY <1>1, <2>1, BeginScan DEF ReconcileResume, Begin, IInv, ScanOK
    <2> QED BY <2>2 DEF QuietOK, Present
  <1>2. CASE OpDone \/ Crash
    BY <1>2 DEF OpDone, Crash, NoOp, PassOp
  <1>3. ASSUME NEW s \in Slots, Skip(s) \/ BeginDetach(s) \/ BeginAttach(s) PROVE QuietOK'
    <2>1. /\ PassOp /\ op.kind = "resume" /\ TurnStep /\ at.pc = "next"
          /\ op'.scan = op.scan /\ op'.todo = op.todo \ {s} /\ UNCHANGED <<mem, usbVms>>
      BY <1>3, TurnScan, SameOperation
      DEF TurnStep, PassOp, PassOK, Skip, BeginDetach, BeginAttach, Turn
    <2>2. Skip(s) \/ BeginAttach(s)
      BY <1>3, <2>1 DEF BeginDetach
    <2>3. \/ at'.pc = "next"
          \/ at'.slot = s /\ at'.vm = Proper(s) /\ at'.pc \in {"preflight", "dread", "claim"}
      <3> DEFINE v == ChooseVm(Wanted(s), Rule[s][op.scan[s].dev], Id[op.scan[s].dev])
      <3>1. v = Proper(s)
        BY <2>1, WantedIsProper
      <3> HIDE DEF v
      <3>2. CASE Skip(s)
        BY <2>1, <3>2 DEF Skip
      <3>3. CASE BeginAttach(s)
        BY <2>1, <3>1, <3>3, Begun, Ended DEF v, IInv
      <3> QED BY <2>2, <3>2, <3>3
    <2>4. Proper(s)' = Proper(s)
      BY <2>1 DEF Proper, ChooseVm, Target
    <2>5. ASSUME ~op'.failed, ~deferred', NEW t \in Present(op.scan), t \notin op'.todo \cup InCall'
          PROVE  Settled(t)'
      <3>1. ~op.failed /\ ~deferred /\ InCall = {} /\ ~Commit /\ ~Forget
        BY <2>1, <2>5, SameOperation, DeferralStays DEF InCall, Commit, Forget, Attaching
      <3>2. CASE t = s
        <4>1. at'.pc = "next"
          BY <2>3, <2>5, <3>2 DEF InCall
        <4> QED BY <2>1, <2>2, <2>5, <3>2, <4>1, TurnSettles
      <3>3. CASE t # s
        <4>1. Settled(t)
          BY <2>1, <2>5, <3>1, <3>3 DEF QuietOK
        <4> QED BY <2>1, <3>1, <4>1, OthersSettled
      <3> QED BY <3>2, <3>3
    <2>6. \A t \in Present(op'.scan) \ (op'.todo \cup InCall') : ~op'.failed /\ ~deferred' => Settled(t)'
      BY <2>1, <2>5 DEF Present
    <2>7. at'.pc # "next" => at'.slot = s /\ at'.vm = Proper(s)'
      BY <2>3, <2>4
    <2> QED BY <2>3, <2>6, <2>7 DEF QuietOK, Present
  <1>4. CASE AttachStep \/ DetachStep
    <2>1. /\ PassOp /\ op.kind = "resume" /\ at.pc # "next" /\ at.slot \in Present(op.scan)
          /\ op'.scan = op.scan /\ op'.todo = op.todo
      BY <1>4, CallStep, SameOperation DEF PassOp, PassOK, IInv, FrameOK
    <2>2. ASSUME ~op'.failed, ~deferred', NEW t \in Present(op.scan), t \notin op'.todo \cup InCall'
          PROVE  Settled(t)'
      <3>1. ~op.failed /\ ~deferred
        BY <1>4, <2>1, <2>2, SameOperation, DeferralStays
      <3>2. CASE t = at.slot
        <4>1. at'.pc = "next"
          BY <1>4, <2>2, <3>2, CallStep, Ended DEF InCall
        <4> QED BY <1>4, <2>1, <2>2, <3>2, <4>1, CallSettles
      <3>3. CASE t # at.slot
        <4>1. Settled(t)
          BY <2>1, <2>2, <3>1, <3>3 DEF QuietOK, InCall
        <4> QED BY <1>4, <2>1, <3>3, <4>1, OthersSettled
      <3> QED BY <3>2, <3>3
    <2>3. \A t \in Present(op'.scan) \ (op'.todo \cup InCall') : ~op'.failed /\ ~deferred' => Settled(t)'
      BY <2>1, <2>2 DEF Present
    <2>4. at'.pc # "next" => at'.vm = Proper(at.slot)' /\ at'.slot = at.slot
      BY <1>4, <2>1, CallGoesProper
    <2>5. at'.pc = "announce" => usbVms'[Node'] = at'.vm
      BY <1>4, <2>1, CallGoesProper
    <2> QED BY <2>3, <2>4, <2>5 DEF QuietOK, Present
  <1>5. CASE OtherStep
    <2>1. PassOp /\ UNCHANGED <<op, at, mem, usbVms, deferred>>
      BY <1>5, OtherFrame, PassAlone DEF PassOp
    <2>2. (~Commit /\ ~Forget) \/ at.pc # "next"
      BY DEF Commit, Forget, Attaching
    <2>3. ASSUME ~op.failed, ~deferred, NEW t \in Present(op.scan) \ (op.todo \cup InCall)
          PROVE  Settled(t)'
      <3>1. Settled(t)
        BY <2>1, <2>3 DEF QuietOK
      <3>2. Commit \/ Forget => t # at.slot
        BY <2>3, <2>2 DEF InCall
      <3> QED BY <1>5, <2>1, <3>1, <3>2, OthersSettled
    <2>4. InCall' = InCall /\ Proper(at.slot)' = Proper(at.slot) /\ Node' = Node
      BY <2>1 DEF InCall, Proper, ChooseVm, Target, Node
    <2>5. \A t \in Present(op'.scan) \ (op'.todo \cup InCall') : ~op'.failed /\ ~deferred' => Settled(t)'
      BY <2>1, <2>3, <2>4 DEF Present
    <2> QED BY <2>1, <2>4, <2>5 DEF QuietOK, Present
  <1> QED BY <1>1, <1>2, <1>3, <1>4, <1>5, StepCases DEF TurnStep

\* A reconcile that neither fails nor defers, after which the main loop sleeps
\* for its long interval, has left every routed device that is still there
\* recorded with its VM, whatever happened while it ran.
THEOREM QuietPasses == Spec => QuietPassSettles
  <1>1. Init => QInv
    <2> SUFFICES ASSUME Init PROVE QInv OBVIOUS
    <2>1. SeenOK
      BY SeenNothing DEF Init, SeenOK, NoOp, NoRec, Gone
    <2>2. PassOK /\ QuietOK
      BY DEF Init, PassOK, QuietOK, PassOp, NoOp
    <2> QED BY <2>1, <2>2, InitIInv DEF QInv
  <1>2. QInv /\ [Next]_vars => QInv'
    <2> SUFFICES ASSUME QInv, [Next]_vars PROVE QInv' OBVIOUS
    <2>1. IInv'
      BY StepIInv DEF QInv
    <2>2. CASE Next
      BY <2>1, <2>2, SeenStep, PassStep, QuietStep DEF QInv
    <2>3. CASE UNCHANGED vars
      <3>1. SeenOK'
        BY <2>3 DEF vars, QInv, SeenOK, Apart, SeenIn, Gone, OnBus, Present
      <3>2. PassOK'
        BY <2>3 DEF vars, QInv, PassOK, PassOp
      <3>3. \A s \in Slots : (Settled(s)' <=> Settled(s)) /\ Proper(s)' = Proper(s)
        BY <2>3 DEF vars, Settled, Proper, ChooseVm, Target, Present
      <3>4. UNCHANGED <<op, at, usbVms, deferred, InCall, Node>> /\ Proper(at.slot)' = Proper(at.slot)
        BY <2>3 DEF vars, InCall, Node, Proper, ChooseVm, Target
      <3>5. QuietOK'
        BY <3>3, <3>4 DEF QInv, QuietOK, PassOp, Present
      <3> QED BY <2>1, <3>1, <3>2, <3>5 DEF QInv
    <2> QED BY <2>2, <2>3
  <1> DEFINE Quiet == OpDone /\ op.by = "reconcile" /\ ~op.failed /\ ~deferred =>
                         \A s \in Present(op.scan) : Settled(s)
  <1>3. QInv /\ [Next]_vars => [Quiet]_vars
    <2> SUFFICES ASSUME QInv, OpDone, op.by = "reconcile", ~op.failed, ~deferred,
                        NEW s \in Present(op.scan)
                 PROVE  Settled(s)
      OBVIOUS
    <2>1. PassOp /\ op.todo = {} /\ InCall = {}
      BY DEF OpDone, PassOp, InCall
    <2> QED BY <2>1 DEF QInv, QuietOK
  <1> QED BY <1>1, <1>2, <1>3, PTL DEF Spec, QuietPassSettles

---------------------------------------------------------------------------
(* The calm system without faults: who holds a device.                     *)

\* Nothing overlaps and nothing fails.
Undisturbed == Calm /\ Faults = {}

Has(v, p, n) == held[v][p] # None /\ held[v][p].alive /\ held[v][p].node = n

\* What a VM holds is plugged in, and the VM is up.
AliveOK ==
    \A v \in VMs, p \in Ports : held[v][p] # None =>
        /\ up[v]
        /\ held[v][p].alive =>
              LET g == held[v][p]
              IN  g.slot \in Present(bus) /\ bus[g.slot] = [dev |-> g.dev, node |-> g.node]

\* An operation and a pass see the bus as it is, one at a time.
TurnsOK ==
    /\ op.kind # "idle" => op.scan = Routed(bus) /\ rec.pc \in {"idle", "resume"}
    /\ rec.pc \in {"idle", "wait", "resume"} => rec.gone = {}
    /\ Gone \cap Present(Routed(bus)) = {}

---------------------------------------------------------------------------
LEMMA NoFaults ==
    ASSUME Faults = {}
    PROVE  /\ \A f : ~Fault(f)
           /\ \A v : Unanswered(v) => ~up[v]
           /\ \A v, p : DetachErred(v, p) => UNCHANGED held /\ (held[v][p] = None \/ ~up[v])
  BY DEF Fault, Unanswered, DetachErred

\* What a VM has after a step it had before, or has just got.
LEMMA HeldBefore ==
    ASSUME IInv, Next, NEW v \in VMs, NEW p \in Ports, held'[v][p] # None
    PROVE  \/ held'[v][p] = held[v][p]
           \/ held[v][p] # None /\ ~held'[v][p].alive
           \/ /\ AttachCmd /\ v = at.vm /\ held[v][p] = None /\ up[v] /\ NodeExists
              /\ held'[v][p] = [slot |-> at.slot, dev |-> Dev, node |-> Node, alive |-> TRUE]
              /\ \A w \in VMs, q \in Ports : <<w, q>> # <<v, p>> => held'[w][q] = held[w][q]
  <1>a. held \in [VMs -> [Ports -> Guest \cup {None}]] /\ at \in Frames
    BY DEF IInv, TypeOK
  <1>b. \A w, q : held' = [held EXCEPT ![w][q] = None] => held'[v][p] = held[v][p]
    BY <1>a
  <1>c. \A w, q : DetachAnswered(w, q) \/ DetachErred(w, q) => held'[v][p] = held[v][p]
    BY <1>b DEF DetachAnswered, DetachErred
  <1>1. CASE BeginStep \/ OpDone \/ TurnStep \/ Crash
    BY <1>1, BeginScan, TurnScan DEF OpDone, TurnStep, Crash
  <1>2. CASE AttachCmd
    <2>1. CASE UNCHANGED held
      BY <2>1
    <2>2. ASSUME NEW q \in FreePorts(at.vm), up[at.vm], NodeExists,
                 held' = [held EXCEPT ![at.vm][q] =
                    [slot |-> at.slot, dev |-> Dev, node |-> Node, alive |-> TRUE]]
          PROVE  \/ held'[v][p] = held[v][p]
                 \/ /\ AttachCmd /\ v = at.vm /\ held[v][p] = None /\ up[v] /\ NodeExists
                    /\ held'[v][p] = [slot |-> at.slot, dev |-> Dev, node |-> Node, alive |-> TRUE]
                    /\ \A w \in VMs, r \in Ports : <<w, r>> # <<v, p>> => held'[w][r] = held[w][r]
      <3>1. q \in Ports /\ held[at.vm][q] = None
        BY DEF FreePorts
      <3>2. at.vm \in VMs
        BY <1>2, <1>a DEF AttachCmd, Attaching, IInv, FrameOK, AttachPcs, Frames
      <3>3. CASE v = at.vm /\ p = q
        BY <1>2, <1>a, <2>2, <3>1, <3>2, <3>3
      <3>4. CASE ~(v = at.vm /\ p = q)
        BY <1>a, <2>2, <3>1, <3>2, <3>4
      <3> QED BY <3>3, <3>4
    <2> QED BY <1>2, <2>1, <2>2 DEF AttachCmd
  <1>3. CASE StaleDetach
    BY <1>3, <1>c DEF StaleDetach
  <1>4. CASE DetachCmd
    BY <1>4, <1>c DEF DetachCmd
  <1>5. CASE ObserveDetach
    BY <1>5, <1>c DEF ObserveDetach
  <1>6. CASE Preflight \/ Claim \/ List \/ Commit \/ Announce \/ DetachRead \/ DetachList \/ Forget
    BY <1>6 DEF Preflight, Claim, List, Commit, Announce, DetachRead, DetachList, Forget
  <1>7. ASSUME NEW s \in Slots, Unplug(s)
        PROVE  held'[v][p] = held[v][p] \/ (held[v][p] # None /\ ~held'[v][p].alive)
    <2>1. held'[v][p] = IF held[v][p] # None /\ held[v][p].node = bus[s].node
                        THEN [held[v][p] EXCEPT !.alive = FALSE] ELSE held[v][p]
      BY <1>7 DEF Unplug
    <2> QED BY <1>a, <2>1 DEF Guest
  <1>8. ASSUME NEW w \in VMs, VmStop(w) \/ \E q \in Ports : VmDrop(w, q)
        PROVE  held'[v][p] = held[v][p]
    BY <1>8, <1>a DEF VmStop, VmDrop
  <1>9. CASE OtherStep
    BY <1>5, <1>7, <1>8, <1>9
    DEF OtherStep, HostNext, Plug, VmStart, ReconcileStart, ObserveRead, ObserveList,
        ObserveForget, ObserveDone
  <1> QED BY <1>1, <1>2, <1>3, <1>4, <1>6, <1>9, StepCases DEF AttachStep, DetachStep

\* The VMs start and stop by host events alone.
LEMMA UpCases ==
    IInv /\ Next => UNCHANGED <<up, gen>> \/ \E v \in VMs : VmStart(v) \/ VmStop(v)
  <1> SUFFICES ASSUME IInv, Next PROVE UNCHANGED <<up, gen>> \/ \E v \in VMs : VmStart(v) \/ VmStop(v)
    OBVIOUS
  <1>1. CASE BeginStep \/ TurnStep \/ AttachStep \/ DetachStep
    BY <1>1, BeginScan, TurnScan, CallStep DEF TurnStep, hostVars
  <1>2. CASE OpDone \/ Crash
    BY <1>2 DEF OpDone, Crash, hostVars
  <1>3. CASE OtherStep
    BY <1>3 DEF OtherStep, HostNext, Plug, Unplug, VmDrop, ReconcileStart, ObserveRead,
       ObserveList, ObserveDetach, ObserveForget, ObserveDone, Observing, hostVars
  <1> QED BY <1>1, <1>2, <1>3, StepCases

LEMMA AliveStep == IInv /\ SeenOK /\ AliveOK /\ Next => AliveOK'
  <1> SUFFICES ASSUME IInv, SeenOK, AliveOK, Next, NEW v \in VMs, NEW p \in Ports, held'[v][p] # None
               PROVE  /\ up'[v]
                      /\ held'[v][p].alive =>
                          LET g == held'[v][p]
                          IN  g.slot \in Present(bus') /\ bus'[g.slot] = [dev |-> g.dev, node |-> g.node]
    BY DEF AliveOK
  <1>a. held \in [VMs -> [Ports -> Guest \cup {None}]] /\ up \in [VMs -> BOOLEAN] /\ bus \in Bus
    BY DEF IInv, TypeOK
  <1>1. up'[v]
    <2>1. up[v]
      <3>1. CASE held[v][p] # None
        BY <3>1 DEF AliveOK
      <3>2. CASE held[v][p] = None
        BY <3>2, HeldBefore
      <3> QED BY <3>1, <3>2
    <2>2. ASSUME NEW w \in VMs, VmStart(w) \/ VmStop(w) PROVE up'[v]
      BY <1>a, <2>1, <2>2 DEF VmStart, VmStop
    <2> QED BY <2>1, <2>2, UpCases
  <1>2. ASSUME held'[v][p].alive
        PROVE  LET g == held'[v][p]
               IN  g.slot \in Present(bus') /\ bus'[g.slot] = [dev |-> g.dev, node |-> g.node]
    <2>1. CASE /\ AttachCmd /\ NodeExists
               /\ held'[v][p] = [slot |-> at.slot, dev |-> Dev, node |-> Node, alive |-> TRUE]
      <3>1. bus[at.slot] = op.scan[at.slot] /\ bus' = bus
        BY <2>1 DEF AttachCmd, Attaching, hostVars, NodeExists, IInv, FrameOK, NodesOK, Present, Node
      <3>2. op.scan[at.slot] = [dev |-> Dev, node |-> Node]
        BY <2>1, CurrentDevice DEF AttachCmd, Attaching, IInv, FrameOK, Plugged, Dev, Node
      <3>3. at.slot \in Present(bus')
        BY <2>1, <3>1 DEF NodeExists, Present, IInv, FrameOK, AttachCmd, Attaching
      <3>4. held'[v][p].slot = at.slot /\ held'[v][p].dev = Dev /\ held'[v][p].node = Node
        BY <2>1
      <3> QED BY <3>1, <3>2, <3>3, <3>4
    <2>2. CASE held'[v][p] = held[v][p]
      <3> DEFINE g == held[v][p]
      <3>1. /\ bus[g.slot] = [dev |-> g.dev, node |-> g.node] /\ g.slot \in Slots
            /\ bus[g.slot] # None
        BY <1>2, <1>a, <2>2 DEF AliveOK, Guest, Present
      <3>2. ASSUME NEW s \in Slots, NEW d \in Devices, Plug(s, d) PROVE bus'[g.slot] = bus[g.slot]
        BY <1>a, <3>1, <3>2 DEF Plug, Bus
      <3>3. ASSUME NEW s \in Slots, Unplug(s) PROVE bus'[g.slot] = bus[g.slot]
        <4>1. bus[s] # None /\ bus' = [bus EXCEPT ![s] = None]
          BY <3>3 DEF Unplug
        <4>2. held'[v][p] = IF held[v][p] # None /\ held[v][p].node = bus[s].node
                            THEN [held[v][p] EXCEPT !.alive = FALSE] ELSE held[v][p]
          BY <3>3 DEF Unplug
        <4>3. s # g.slot
          BY <1>2, <1>a, <2>2, <3>1, <4>2 DEF Guest
        <4> QED BY <1>a, <4>1, <4>3 DEF Bus
      <3> QED BY <2>2, <3>1, <3>2, <3>3, BusCases DEF Present
    <2> QED BY <1>2, <2>1, <2>2, HeldBefore
  <1> QED BY <1>1, <1>2

\* In the calm system the host changes between operations and passes only.
LEMMA CalmBus ==
    ASSUME Calm, IInv, Next
    PROVE  \/ UNCHANGED <<bus, up, gen>>
           \/ Quiescent /\ UNCHANGED <<op, at, rec, usbVms, mem>>
  <1>1. CASE HostNext
    BY <1>1 DEF HostNext, Plug, Unplug, VmStart, VmStop, InTurn, daemonVars
  <1>2. CASE BeginStep \/ TurnStep \/ AttachStep \/ DetachStep
    BY <1>2, BeginScan, TurnScan, CallStep DEF TurnStep, hostVars
  <1>3. CASE OpDone \/ Crash
    BY <1>3 DEF OpDone, Crash, hostVars
  <1>4. CASE OtherStep /\ ~HostNext
    BY <1>4 DEF OtherStep, VmDrop, ReconcileStart, ObserveRead,
       ObserveList, ObserveDetach, ObserveForget, ObserveDone, Observing, hostVars
  <1> QED BY <1>1, <1>2, <1>3, <1>4, StepCases

LEMMA TurnsStep == Calm /\ IInv /\ TurnsOK /\ Next => TurnsOK'
  <1> SUFFICES ASSUME Calm, IInv, TurnsOK, Next PROVE TurnsOK' OBVIOUS
  <1>a. rec \in Recs /\ op \in Ops
    BY DEF IInv, TypeOK
  <1>b. NoRec.pc = "idle" /\ NoRec.gone = {} /\ NoOp.kind = "idle"
    BY DEF NoRec, NoOp
  <1>1. CASE BeginStep
    <2>1. op'.scan = Routed(bus) /\ bus' = bus
      BY <1>1, BeginScan DEF hostVars
    <2>2. CASE ApiNext
      <3>1. rec.pc = "idle" /\ rec' = rec
        BY <2>2 DEF ApiNext, ApiSelect, ApiPower, InTurn, Quiescent
      <3> QED BY <2>1, <3>1 DEF TurnsOK, Gone
    <2>3. CASE ReconcileResume
      <3>1. rec.pc = "wait" /\ rec'.pc = "resume" /\ rec'.gone = rec.gone
        BY <2>3, <1>a DEF ReconcileResume, Recs
      <3> QED BY <2>1, <3>1 DEF TurnsOK, Gone
    <2> QED BY <1>1, <2>2, <2>3 DEF BeginStep
  <1>2. CASE OpDone
    <2>1. op' = NoOp /\ bus' = bus /\ rec' \in {NoRec, rec}
      BY <1>2 DEF OpDone, hostVars
    <2> QED BY <1>b, <2>1 DEF TurnsOK, Gone
  <1>3. CASE Crash
    BY <1>3, <1>b DEF Crash, TurnsOK, Gone
  <1>4. CASE TurnStep \/ AttachStep \/ DetachStep
    <2>1. UNCHANGED <<bus, rec>> /\ op'.scan = op.scan /\ op'.kind = op.kind
      BY <1>4, TurnScan, CallStep DEF TurnStep, hostVars
    <2> QED BY <2>1 DEF TurnsOK, Gone
  <1>5. CASE OtherStep
    <2>a. op' = op
      BY <1>5, OtherFrame
    <2>1. CASE Quiescent /\ UNCHANGED <<op, at, rec>>
      BY <2>1 DEF TurnsOK, Gone, Quiescent
    <2>b. CASE UNCHANGED <<bus, rec>>
      BY <2>a, <2>b DEF TurnsOK, Gone
    <2>2. CASE UNCHANGED bus /\ ReconcileStart
      <3>1. op.kind = "idle"
        BY <2>2 DEF ReconcileStart, InTurn, Quiescent
      <3>2. /\ rec'.pc = "observe" /\ rec'.gone = Present(observed) \ Present(Routed(bus))
        BY <2>2 DEF ReconcileStart, NoRec
      <3> QED BY <2>a, <2>2, <3>1, <3>2 DEF TurnsOK, Gone
    <2>3. ASSUME UNCHANGED bus, NEW s \in Slots, ObserveRead(s) PROVE TurnsOK'
      <3>1. /\ rec.pc = "observe" /\ s \in rec.gone /\ rec'.slot = s /\ rec'.gone = rec.gone \ {s}
            /\ rec'.pc \in {"list", "forget"}
        BY <2>3, <1>a DEF ObserveRead, Observing, Recs
      <3> QED BY <2>a, <2>3, <3>1 DEF TurnsOK, Gone
    <2>4. CASE UNCHANGED bus /\ ObserveList
      <3>1. rec.pc = "list" /\ (rec' = NoRec \/ (rec'.pc \in {"detach", "forget"} /\ rec'.gone = rec.gone
                                                 /\ rec'.slot = rec.slot))
        BY <2>4, <1>a DEF ObserveList, Observing, Recs
      <3> QED BY <1>b, <2>a, <2>4, <3>1 DEF TurnsOK, Gone
    <2>5. CASE UNCHANGED bus /\ ObserveDetach
      <3>1. rec.pc = "detach" /\ (rec' = NoRec \/ (rec'.pc = "forget" /\ rec'.gone = rec.gone
                                                   /\ rec'.slot = rec.slot))
        BY <2>5, <1>a DEF ObserveDetach, Observing, Recs
      <3> QED BY <1>b, <2>a, <2>5, <3>1 DEF TurnsOK, Gone
    <2>6. CASE UNCHANGED bus /\ ObserveForget
      <3>1. rec.pc = "forget" /\ (rec' = NoRec \/ (rec'.pc = "observe" /\ rec'.gone = rec.gone))
        BY <2>6, <1>a DEF ObserveForget, Observing, Recs
      <3> QED BY <1>b, <2>a, <2>6, <3>1 DEF TurnsOK, Gone
    <2>7. CASE UNCHANGED bus /\ ObserveDone
      <3>1. rec.pc = "observe" /\ rec'.pc = "wait" /\ rec'.gone = {}
        BY <2>7 DEF ObserveDone, Observing, NoRec
      <3> QED BY <2>a, <2>7, <3>1 DEF TurnsOK, Gone
    <2>8. CASE UNCHANGED bus
      BY <1>5, <2>b, <2>2, <2>3, <2>4, <2>5, <2>6, <2>7, <2>8
      DEF OtherStep, HostNext, Plug, Unplug, VmStart, VmStop, VmDrop, daemonVars
    <2> QED BY <2>1, <2>8, CalmBus
  <1> QED BY <1>1, <1>2, <1>3, <1>4, <1>5, StepCases

---------------------------------------------------------------------------
\* Who holds a device is on record.
OnRecord(v, p) ==
    LET g == held[v][p]
    IN  /\ usbVms[g.node] = v
        /\ mem.ports[g.slot] = [vm |-> v, port |-> p, gen |-> <<v, gen[v]>>, id |-> Id[g.dev]]

InFlight(v, p) == at.pc \in {"stale", "commit"} /\ v = at.vm /\ p = at.port

RecordOK ==
    \A v \in VMs, p \in Ports, n \in Nodes : Has(v, p, n) =>
        OnRecord(v, p) \/ (Node = n /\ InFlight(v, p))

\* Who may still hold the device of a call.
HolderOK ==
    at.pc # "next" => \A v \in VMs, p \in Ports : Has(v, p, Node) =>
        /\ at.pc \notin {"attach", "forget"}
        /\ at.pc \in {"claim", "list"} => v = at.vm
        /\ at.pc \in {"stale", "commit"} => v = at.vm /\ p = at.port
        /\ at.pc \in {"dlist", "dcmd"} => v = at.dvm
        /\ at.pc = "dlist" => at.known = mem.ports[at.slot]
        /\ at.pc = "dcmd" => p = at.port

\* What an attach has read still holds.
ReadOK ==
    /\ at.pc = "list" => at.known = mem.ports[at.slot]
    /\ at.pc \in {"list", "attach", "stale", "commit"} => at.gen = SocketGeneration(at.vm)
    /\ at.pc \in {"attach", "stale", "commit"} => up[at.vm]
    /\ at.pc \in {"attach", "stale"} /\ at.stale # None => held[at.vm][at.stale] # None

\* What the preflight was told still holds when the port is chosen: the VM to
\* take the device from is another one.
AnswerOK ==
    /\ at.pc = "preflight" => at.gen = SocketGeneration(at.vm)
    /\ /\ at.pc \in {"dread", "dlist", "dcmd", "forget", "claim", "list"}
       /\ at.vm # None /\ Preflighted(Dev)
       => /\ up[at.vm] /\ at.gen = SocketGeneration(at.vm) /\ at.live = UsbList(at.vm)
          /\ at.pc = "dread" => usbVms[Node] \notin {None, at.vm}
          /\ at.pc \in {"dlist", "dcmd"} => at.dvm # at.vm

\* What a suspend has been through is with no VM in its scope.
Released(s) ==
    \A v \in VMs, p \in Ports :
        Has(v, p, op.scan[s].node) => Rule[s][op.scan[s].dev].skip \/ op.vm \notin {None, v}

SuspendOK ==
    op.kind = "suspend" /\ ~op.failed =>
        \A s \in Present(op.scan) \ (op.todo \cup InCall) : Released(s)

CalmState == /\ IInv /\ SeenOK /\ AliveOK /\ TurnsOK
             /\ RecordOK /\ HolderOK /\ ReadOK /\ AnswerOK /\ SuspendOK

\* The device of a call is where the call thinks it is.
LEMMA CallHolder ==
    ASSUME CalmState, at.pc # "next", NEW v \in VMs, NEW p \in Ports, Has(v, p, Node)
    PROVE  /\ held[v][p].slot = at.slot /\ held[v][p].dev = Dev /\ up[v]
           /\ SocketGeneration(v) = <<v, gen[v]>>
           /\ at.pc \notin {"stale", "commit"} =>
                 /\ usbVms[Node] = v
                 /\ mem.ports[at.slot] = [vm |-> v, port |-> p, gen |-> <<v, gen[v]>>, id |-> DevId]
  <1> USE DEF CalmState
  <1>1. /\ at.slot \in Present(bus) /\ bus[at.slot] = op.scan[at.slot]
    BY CallDevice, RoutedBus DEF TurnsOK, IInv, TypeOK
  <1>2. /\ up[v] /\ held[v][p].slot \in Present(bus) /\ held[v][p].node = Node
        /\ bus[held[v][p].slot] = [dev |-> held[v][p].dev, node |-> held[v][p].node]
    BY DEF AliveOK, Has
  <1>3. bus[held[v][p].slot].node = Node /\ bus[held[v][p].slot].dev = held[v][p].dev
    BY <1>2
  <1>4. held[v][p].slot = at.slot
    BY <1>1, <1>2, <1>3 DEF SeenOK, Apart, Node
  <1>5. held[v][p].dev = Dev
    BY <1>1, <1>3, <1>4 DEF Dev
  <1>6. at.pc \notin {"stale", "commit"} => OnRecord(v, p)
    BY CallDevice DEF RecordOK, InFlight
  <1> QED BY <1>2, <1>4, <1>5, <1>6 DEF OnRecord, SocketGeneration, DevId

\* Other devices are at other slots.
LEMMA OtherHolder ==
    ASSUME CalmState, at.pc # "next", NEW v \in VMs, NEW p \in Ports, NEW n \in Nodes,
           Has(v, p, n), n # Node
    PROVE  held[v][p].slot # at.slot
  <1> USE DEF CalmState
  <1>1. bus[at.slot] = op.scan[at.slot]
    BY CallDevice, RoutedBus DEF TurnsOK, IInv, TypeOK
  <1>2. /\ held[v][p].node = n
        /\ bus[held[v][p].slot] = [dev |-> held[v][p].dev, node |-> held[v][p].node]
    BY DEF AliveOK, Has
  <1>3. bus[held[v][p].slot].node = n
    BY <1>2
  <1> QED BY <1>1, <1>3 DEF Node

\* An attach command ends with another pc.
LEMMA AttachMoves == IInv /\ AttachCmd => at' # at
  <1> SUFFICES ASSUME IInv, AttachCmd PROVE at' # at OBVIOUS
  <1>1. at.pc = "attach" /\ at \in Frames
    BY DEF AttachCmd, Attaching, IInv, TypeOK
  <1>2. DeviceFailed(op, at.want) => at'.pc = "next"
    BY DEF DeviceFailed, NoFrame
  <1>3. \A p, t : at' = [at EXCEPT !.port = p, !.stale = t,
                           !.pc = IF t = None THEN "commit" ELSE "stale"]
                 => at'.pc \in {"commit", "stale"}
    BY <1>1 DEF Frames
  <1> QED BY <1>1, <1>2, <1>3 DEF AttachCmd

LEMMA HasBefore ==
    ASSUME IInv, Next, ~AttachCmd, NEW v \in VMs, NEW p \in Ports, NEW n, Has(v, p, n)'
    PROVE  Has(v, p, n) /\ held'[v][p] = held[v][p]
  BY HeldBefore DEF Has

\* A step that keeps the records keeps RecordOK.
LEMMA RecordsKept ==
    ASSUME CalmState, Next, ~AttachCmd, NEW v \in VMs, NEW p \in Ports, NEW n \in Nodes,
           Has(v, p, n)', OnRecord(v, p), UNCHANGED <<usbVms, mem, gen>>
    PROVE  OnRecord(v, p)'
  <1>1. held'[v][p] = held[v][p]
    BY HeldBefore DEF Has, CalmState
  <1> QED BY <1>1 DEF OnRecord

LEMMA RecordStep == CalmState /\ Undisturbed /\ Next => RecordOK'
  <1> SUFFICES ASSUME CalmState, Undisturbed, Next,
                      NEW v \in VMs, NEW p \in Ports, NEW n \in Nodes, Has(v, p, n)'
               PROVE  OnRecord(v, p)' \/ (Node' = n /\ InFlight(v, p)')
    BY DEF RecordOK
  <1> USE DEF CalmState, Undisturbed
  <1>a. /\ held \in [VMs -> [Ports -> Guest \cup {None}]] /\ at \in Frames /\ mem \in Persistent
        /\ usbVms \in [Nodes -> VMs \cup {None}]
    BY DEF IInv, TypeOK
  <1>b. ASSUME ~AttachCmd, ~(at.pc \in {"stale", "commit"}), UNCHANGED <<usbVms, mem, gen>>
        PROVE  OnRecord(v, p)'
    BY <1>b, HasBefore, RecordsKept DEF RecordOK, InFlight
  <1>1. CASE BeginStep \/ OpDone \/ TurnStep
    <2>1. at.pc = "next" /\ UNCHANGED <<usbVms, mem, gen>>
      BY <1>1, BeginScan DEF BeginStep, ApiNext, ApiSelect, ApiPower, ReconcileResume, Begin, OpDone,
         TurnStep, Skip, BeginDetach, BeginAttach, Turn, IInv, ScanOK, hostVars
    <2> QED BY <1>b, <2>1 DEF AttachCmd, Attaching
  <1>2. CASE Preflight \/ Claim \/ List \/ Announce \/ DetachRead \/ DetachList \/ DetachCmd
    <2>1. /\ ~(at.pc \in {"stale", "commit", "attach"}) /\ UNCHANGED <<usbVms, mem, gen>>
      BY <1>2 DEF Preflight, Claim, List, Announce, DetachRead, DetachList, DetachCmd, Attaching, hostVars
    <2> QED BY <1>b, <2>1 DEF AttachCmd, Attaching
  <1>3. CASE AttachCmd
    <2>1. at.pc = "attach" /\ UNCHANGED <<usbVms, mem, gen>>
      BY <1>3 DEF AttachCmd, Attaching, hostVars
    <2>2. CASE held'[v][p] = held[v][p]
      <3>1. OnRecord(v, p)
        BY <2>1, <2>2 DEF RecordOK, InFlight, Has
      <3> QED BY <2>1, <2>2, <3>1 DEF OnRecord
    <2>3. CASE /\ v = at.vm /\ held[v][p] = None
               /\ held'[v][p] = [slot |-> at.slot, dev |-> Dev, node |-> Node, alive |-> TRUE]
      <3>1. PICK q \in FreePorts(at.vm) :
              /\ held' = [held EXCEPT ![at.vm][q] =
                           [slot |-> at.slot, dev |-> Dev, node |-> Node, alive |-> TRUE]]
              /\ at' = LET stale == IF at.stale = q THEN None ELSE at.stale
                       IN [at EXCEPT !.port = q, !.stale = stale,
                             !.pc = IF stale = None THEN "commit" ELSE "stale"]
              /\ op' = op
        <4>1. held' # held
          BY <2>3 DEF Has
        <4> QED BY <1>3, <4>1, NoFaults DEF AttachCmd
      <3>2. q = p
        BY <1>a, <2>3, <3>1 DEF Has, FreePorts
      <3> DEFINE stale == IF at.stale = q THEN None ELSE at.stale
      <3>3. at' = [at EXCEPT !.port = q, !.stale = stale,
                             !.pc = IF stale = None THEN "commit" ELSE "stale"]
        BY <3>1
      <3> HIDE DEF stale
      <3>4. at'.pc \in {"commit", "stale"} /\ at'.port = q /\ at'.vm = at.vm /\ at'.slot = at.slot
        BY <1>a, <3>3 DEF Frames
      <3>5. Node' = Node /\ Node = n
        BY <2>3, <3>1, <3>4, SameNode DEF Has
      <3> QED BY <2>3, <3>2, <3>4, <3>5 DEF InFlight
    <2> QED BY <1>3, <2>2, <2>3, HeldBefore DEF Has
  <1>4. CASE StaleDetach
    <2>1. at.pc = "stale" /\ UNCHANGED <<usbVms, mem, gen>> /\ ~AttachCmd
      BY <1>4 DEF StaleDetach, Attaching, hostVars, AttachCmd
    <2>2. CASE at' = [at EXCEPT !.pc = "commit"] /\ UNCHANGED <<op, deferred>>
      <3>1. at'.pc = "commit" /\ at'.vm = at.vm /\ at'.port = at.port /\ at'.slot = at.slot
        BY <1>a, <2>2 DEF Frames
      <3>2. OnRecord(v, p) \/ (Node = n /\ InFlight(v, p))
        BY <2>1, HasBefore DEF RecordOK
      <3>3. Node' = Node
        BY <2>2, <3>1, SameNode
      <3> QED BY <2>1, <3>1, <3>2, <3>3, RecordsKept DEF InFlight
    <2>3. ~DetachErred(at.vm, at.stale)
      <3>1. at.stale # None
        BY <2>1 DEF IInv, FrameOK
      <3> QED BY <2>1, <3>1, NoFaults DEF ReadOK
    <2> QED BY <1>4, <2>2, <2>3 DEF StaleDetach
  <1>5. CASE Commit
    <2>1. /\ at.pc = "commit" /\ usbVms' = [usbVms EXCEPT ![Node] = at.vm] /\ mem' = Bound(mem)
          /\ UNCHANGED <<held, gen>> /\ Has(v, p, n)
      BY <1>5, NoFaults DEF Commit, Attaching, hostVars, Has
    <2>2. /\ mem'.ports = [mem.ports EXCEPT ![at.slot] =
                            [vm |-> at.vm, port |-> at.port, gen |-> at.gen, id |-> DevId]]
          /\ mem.ports \in [Slots -> Binding \cup {None}]
      BY <1>a, <2>1 DEF Bound, Connected, Selected, Persistent
    <2>3. CASE n = Node
      <3>1. v = at.vm /\ p = at.port
        BY <2>1, <2>3 DEF HolderOK
      <3>2. /\ held[v][p].slot = at.slot /\ held[v][p].dev = Dev /\ held[v][p].node = Node
            /\ SocketGeneration(v) = <<v, gen[v]>>
        BY <2>1, <2>3, CallHolder DEF Has
      <3>3. at.gen = <<v, gen[v]>>
        BY <2>1, <3>1, <3>2 DEF ReadOK
      <3>4. usbVms'[Node] = v /\ mem'.ports[at.slot] = [vm |-> v, port |-> p, gen |-> <<v, gen[v]>>, id |-> DevId]
        BY <1>a, <2>1, <2>2, <3>1, <3>3, CallDevice
      <3> QED BY <2>1, <3>2, <3>4 DEF OnRecord, DevId
    <2>4. CASE n # Node
      <3>1. held[v][p].slot # at.slot /\ held[v][p].node = n /\ held[v][p].slot \in Slots
        BY <1>a, <2>1, <2>4, OtherHolder DEF Has, Guest
      <3>2. OnRecord(v, p)
        BY <2>1, <2>4 DEF RecordOK
      <3>3. usbVms'[n] = usbVms[n] /\ mem'.ports[held[v][p].slot] = mem.ports[held[v][p].slot]
        BY <1>a, <2>1, <2>2, <2>4, <3>1
      <3> QED BY <2>1, <3>1, <3>2, <3>3 DEF OnRecord
    <2> QED BY <2>3, <2>4
  <1>6. CASE Forget
    <2>1. /\ at.pc = "forget" /\ usbVms' = [usbVms EXCEPT ![Node] = None] /\ mem' = Forgotten(mem)
          /\ UNCHANGED <<held, gen>> /\ Has(v, p, n)
      BY <1>6 DEF Forget, hostVars, Has
    <2>2. /\ mem'.ports = [mem.ports EXCEPT ![at.slot] = None]
          /\ mem.ports \in [Slots -> Binding \cup {None}]
      BY <1>a, <2>1 DEF Forgotten, Persistent
    <2>3. n # Node
      BY <2>1 DEF HolderOK
    <2>4. held[v][p].slot # at.slot /\ held[v][p].node = n /\ held[v][p].slot \in Slots
      BY <1>a, <2>1, <2>3, OtherHolder DEF Has, Guest
    <2>5. OnRecord(v, p)
      BY <2>1, <2>3 DEF RecordOK
    <2>6. usbVms'[n] = usbVms[n] /\ mem'.ports[held[v][p].slot] = mem.ports[held[v][p].slot]
      BY <1>a, <2>1, <2>2, <2>3, <2>4
    <2> QED BY <2>1, <2>4, <2>5, <2>6 DEF OnRecord
  <1>7. CASE ObserveForget
    <2>1. /\ rec.slot \in Gone /\ UNCHANGED <<held, gen, at, op>> /\ Has(v, p, n)
          /\ usbVms' = [usbVms EXCEPT ![observed[rec.slot].node] = None]
          /\ mem' = [mem EXCEPT !.ports[rec.slot] = None]
      BY <1>7 DEF ObserveForget, Observing, Gone, hostVars, Has
    <2>2. /\ held[v][p].node = n /\ held[v][p].slot \in Present(bus) /\ held[v][p].slot \in Slots
          /\ bus[held[v][p].slot] = [dev |-> held[v][p].dev, node |-> held[v][p].node]
          /\ Rule[held[v][p].slot][held[v][p].dev] # None
      BY <1>a, <2>1 DEF Has, AliveOK, Guest, IInv, HeldAllowed
    <2>3. bus[held[v][p].slot].node = n /\ bus[held[v][p].slot].dev = held[v][p].dev
      BY <2>2
    <2>4. observed[rec.slot].node # n
      BY <2>1, <2>2, <2>3 DEF SeenOK, OnBus
    <2>5. rec.slot # held[v][p].slot
      <3>1. held[v][p].slot \in Present(Routed(bus))
        BY <2>2, <2>3 DEF Routed, Present
      <3> QED BY <2>1, <3>1 DEF TurnsOK
    <2>6. usbVms'[n] = usbVms[n] /\ mem'.ports[held[v][p].slot] = mem.ports[held[v][p].slot]
      BY <1>a, <2>1, <2>2, <2>4, <2>5 DEF Persistent
    <2>7. OnRecord(v, p) \/ (Node = n /\ InFlight(v, p))
      BY <2>1 DEF RecordOK
    <2> QED BY <2>1, <2>2, <2>6, <2>7 DEF OnRecord, InFlight, Node
  <1>8. CASE OtherStep /\ ~ObserveForget
    <2>1. UNCHANGED <<usbVms, mem, op, at>>
      BY <1>8, OtherFrame DEF OtherStep, HostNext, Plug, Unplug, VmStart, VmStop, VmDrop, daemonVars,
         ReconcileStart, ObserveRead, ObserveList, ObserveDetach, ObserveDone
    <2>2. held'[v][p] = held[v][p] /\ Has(v, p, n)
      BY <2>1, AttachMoves, HasBefore
    <2>3. gen'[v] = gen[v]
      <3>1. up[v] /\ gen \in [VMs -> Nat]
        BY <2>2 DEF Has, AliveOK, IInv, TypeOK
      <3> QED BY <3>1, UpCases DEF VmStart, VmStop
    <2>4. OnRecord(v, p) \/ (Node = n /\ InFlight(v, p))
      BY <2>2 DEF RecordOK
    <2> QED BY <2>1, <2>2, <2>3, <2>4 DEF OnRecord, InFlight, Node
  <1>9. CASE Crash
    BY <1>9, NoFaults DEF Crash
  <1> QED BY <1>1, <1>2, <1>3, <1>4, <1>5, <1>6, <1>7, <1>8, <1>9, StepCases DEF AttachStep, DetachStep

\* While an operation runs, nothing else happens.
LEMMA Alone == CalmState /\ Undisturbed /\ OtherStep => op.kind = "idle" /\ at.pc = "next"
  <1> SUFFICES ASSUME CalmState, Undisturbed, OtherStep, op.kind # "idle" PROVE FALSE
    BY DEF CalmState, IInv, ScanOK
  <1>1. ~InTurn /\ rec.pc \in {"idle", "resume"}
    BY DEF InTurn, Quiescent, Undisturbed, CalmState, TurnsOK
  <1> QED BY <1>1 DEF OtherStep, HostNext, Plug, Unplug, VmStart, VmStop, VmDrop, ReconcileStart,
                      ObserveRead, ObserveList, ObserveDetach, ObserveForget, ObserveDone, Observing

\* A device that no call is about is with the VM on record, and with none other.
LEMMA Recorded ==
    ASSUME CalmState, at.pc = "next", NEW v \in VMs, NEW p \in Ports, NEW n \in Nodes, Has(v, p, n)
    PROVE  usbVms[n] = v
  BY DEF CalmState, RecordOK, OnRecord, InFlight, Has

\* The device of the call, past the commands that hand it over.
LEMMA OwnRecord ==
    ASSUME CalmState, at.pc \notin {"next", "stale", "commit"}, NEW v \in VMs, NEW p \in Ports,
           Has(v, p, Node), NEW b, b = mem.ports[at.slot]
    PROVE  /\ usbVms[Node] = v /\ up[v] /\ v # None
           /\ b # None /\ b.vm = v /\ b.port = p /\ b.gen = SocketGeneration(v) /\ b.id = DevId
           /\ Listed(v, p, Kind[DevId])
  <1>1. b = [vm |-> v, port |-> p, gen |-> <<v, gen[v]>>, id |-> DevId]
    BY CallHolder
  <1>2. b \in Binding
    <2>1. <<v, gen[v]>> \in Generations
      BY DEF CalmState, IInv, TypeOK, Generations
    <2> QED BY <1>1, <2>1, CallDevice DEF Binding, CalmState
  <1>3. v # None /\ b # None
    BY <1>2, BindingAssumption, ConstantsAssumption DEF BindingAssumption, ConstantsAssumption
  <1>4. /\ usbVms[Node] = v /\ up[v] /\ held[v][p].dev = Dev /\ SocketGeneration(v) = <<v, gen[v]>>
    BY CallHolder
  <1>5. Listed(v, p, Kind[DevId])
    BY <1>4 DEF Listed, Has, DevId
  <1> QED BY <1>1, <1>3, <1>4, <1>5

LEMMA InUsbList == \A v, p, k : <<p, k>> \in UsbList(v) => Listed(v, p, k)
  BY DEF UsbList

LEMMA ReadStep == CalmState /\ Undisturbed /\ Next => ReadOK'
  <1> SUFFICES ASSUME CalmState, Undisturbed, Next, 
                      at'.pc \in {"list", "attach", "stale", "commit"}
               PROVE  ReadOK'
    BY DEF ReadOK
  <1> USE DEF CalmState
  <1>a. /\ at \in Frames /\ held \in [VMs -> [Ports -> Guest \cup {None}]]
        /\ at.pc # "next" => at.vm \in VMs \cup {None} /\ at.slot \in Slots
    BY CallDevice DEF IInv, TypeOK, Frames
  <1>b. NoFrame.pc = "next"
    BY DEF NoFrame
  <1>1. CASE BeginStep \/ OpDone \/ Crash
    BY <1>1, <1>b, BeginScan DEF OpDone, Crash, IInv, ScanOK
  <1>2. CASE TurnStep
    <2>1. ASSUME NEW s \in Slots, Skip(s) \/ BeginDetach(s) PROVE FALSE
      BY <2>1, <1>b DEF Skip, BeginDetach, Turn, NoFrame
    <2>2. ASSUME NEW s \in Slots, BeginAttach(s) PROVE FALSE
      <3>1. at.pc = "next"
        BY <2>2 DEF BeginAttach, Turn
      <3> QED BY <2>2, <3>1, Begun, Ended DEF IInv
    <2> QED BY <1>2, <2>1, <2>2 DEF TurnStep
  <1>3. CASE OtherStep
    BY <1>3, Alone, OtherFrame
  <1>4. CASE Claim
    <2> DEFINE g == IF Preflighted(Dev) THEN at.gen ELSE SocketGeneration(at.vm)
    <2>1. /\ at' = [at EXCEPT !.pc = "list", !.known = mem.ports[at.slot], !.gen = g]
          /\ at.pc = "claim" /\ UNCHANGED <<mem, up, gen, held>>
      BY <1>4, <1>a, <1>b, Ended DEF Claim, Attaching, hostVars, DeviceDone, Frames
    <2>2. g = SocketGeneration(at.vm)
      BY <2>1 DEF AnswerOK, IInv, FrameOK, AttachPcs
    <2> HIDE DEF g
    <2>3. /\ at'.pc = "list" /\ at'.known = mem.ports[at.slot] /\ at'.gen = g
          /\ at'.slot = at.slot /\ at'.vm = at.vm
      BY <1>a, <2>1 DEF Frames
    <2> QED BY <2>1, <2>2, <2>3 DEF ReadOK, SocketGeneration
  <1>5. CASE List
    <2>1. /\ at.pc = "list" /\ UNCHANGED <<mem, up, gen, held>>
          /\ Choose(UsbList(at.vm)) /\ up[at.vm]
      <3>1. ~DeviceFailed(op, at.want)
        BY Ended
      <3>2. PICK live : /\ Choose(live)
                        /\ ~Preflighted(Dev) => up[at.vm] /\ live = UsbList(at.vm)
                        /\ Preflighted(Dev) => live = at.live
        BY <1>5, <3>1, Listing
      <3>3. at.pc = "list" /\ UNCHANGED <<mem, up, gen, held>>
        BY <1>5 DEF List, Attaching, hostVars
      <3>4. live = UsbList(at.vm) /\ up[at.vm]
        BY <3>2, <3>3 DEF AnswerOK, IInv, FrameOK, AttachPcs
      <3> QED BY <3>2, <3>3, <3>4
    <2> DEFINE stale == StalePort(UsbList(at.vm))
    <2>2. /\ at'.slot = at.slot /\ at'.vm = at.vm /\ at'.gen = at.gen
          /\ at'.pc = "commit" \/ (at'.pc = "attach" /\ at'.stale = stale)
      <3>1. CASE Reusable(UsbList(at.vm))
        BY <1>a, <2>1, <3>1 DEF Choose, Frames
      <3>2. CASE ~Reusable(UsbList(at.vm))
        BY <1>a, <2>1, <3>2 DEF Choose, Frames
      <3> QED BY <3>1, <3>2
    <2>3. stale # None => held[at.vm][stale] # None
      BY InUsbList DEF StalePort, Listed
    <2> HIDE DEF stale
    <2> QED BY <2>1, <2>2, <2>3 DEF ReadOK, SocketGeneration
  <1>6. CASE AttachCmd
    <2>1. PICK p \in FreePorts(at.vm) :
              /\ held' = [held EXCEPT ![at.vm][p] =
                           [slot |-> at.slot, dev |-> Dev, node |-> Node, alive |-> TRUE]]
              /\ at' = LET stale == IF at.stale = p THEN None ELSE at.stale
                       IN [at EXCEPT !.port = p, !.stale = stale,
                             !.pc = IF stale = None THEN "commit" ELSE "stale"]
      BY <1>6, Ended DEF AttachCmd
    <2>2. at.pc = "attach" /\ UNCHANGED <<mem, up, gen>>
      BY <1>6 DEF AttachCmd, Attaching, hostVars
    <2> DEFINE stale == IF at.stale = p THEN None ELSE at.stale
    <2>3. at' = [at EXCEPT !.port = p, !.stale = stale, !.pc = IF stale = None THEN "commit" ELSE "stale"]
      BY <2>1
    <2> HIDE DEF stale
    <2>4. /\ at'.slot = at.slot /\ at'.vm = at.vm /\ at'.gen = at.gen /\ at'.stale = stale
          /\ at'.pc \in {"commit", "stale"}
      BY <1>a, <2>3 DEF Frames
    <2>5. ASSUME stale # None PROVE held'[at.vm][stale] # None
      <3>1. stale = at.stale /\ stale # p /\ held[at.vm][stale] # None
        BY <2>2, <2>5 DEF stale, ReadOK
      <3>2. held'[at.vm][stale] = held[at.vm][stale]
        BY <1>a, <2>1, <3>1
      <3> QED BY <3>1, <3>2
    <2> QED BY <2>2, <2>4, <2>5 DEF ReadOK, SocketGeneration
  <1>7. CASE StaleDetach
    <2>1. /\ at.pc = "stale" /\ UNCHANGED <<mem, up, gen>> /\ at' = [at EXCEPT !.pc = "commit"]
      BY <1>7, Ended DEF StaleDetach, Attaching, hostVars
    <2>2. at'.pc = "commit" /\ at'.vm = at.vm /\ at'.gen = at.gen
      BY <1>a, <2>1 DEF Frames
    <2> QED BY <2>1, <2>2 DEF ReadOK, SocketGeneration
  <1>8. CASE Preflight \/ Commit \/ Announce \/ DetachStep
    <2>1. at'.pc \notin {"list", "attach", "stale", "commit"}
      <3>1. \A k : at' = [at EXCEPT !.pc = k] => at'.pc = k
        BY <1>a DEF Frames
      <3>8. CASE Preflight
        BY <1>a, <3>8, Ended, Preflown
      <3>2. CASE Commit
        BY <1>b, <3>1, <3>2, Ended DEF Commit
      <3>3. CASE Announce
        BY <1>b, <3>3 DEF Announce, DeviceDone
      <3>4. CASE DetachRead
        BY <1>a, <3>4 DEF DetachRead, Frames
      <3>5. CASE DetachList
        <4>1. \A k, q : at' = [at EXCEPT !.pc = k, !.port = q, !.known = None] => at'.pc = k
          BY <1>a DEF Frames
        <4>2. at' = [at EXCEPT !.pc = "forget", !.known = None] => at'.pc = "forget"
          BY <1>a DEF Frames
        <4>3. DeviceFailed(op, at.want) => at'.pc = "next"
          BY Ended
        <4> QED BY <3>5, <4>1, <4>2, <4>3 DEF DetachList
      <3>6. CASE DetachCmd
        BY <1>a, <3>6, Ended DEF DetachCmd, Frames
      <3>7. CASE Forget
        BY <1>a, <1>b, <3>7, Ended DEF Forget, Frames
      <3> QED BY <1>8, <3>2, <3>3, <3>4, <3>5, <3>6, <3>7, <3>8 DEF DetachStep
    <2> QED BY <2>1
  <1> QED BY <1>1, <1>2, <1>3, <1>4, <1>5, <1>6, <1>7, <1>8, StepCases DEF AttachStep

\* A call that goes on with the same VM, whose ports nobody has touched.
LEMMA AnswerKept ==
    ASSUME CalmState, AttachStep \/ DetachStep, op' = op, at'.slot = at.slot, at'.vm = at.vm,
           at'.gen = at.gen, at'.live = at.live, at.vm # None => held'[at.vm] = held[at.vm],
           at.pc \in {"dread", "dlist", "dcmd", "forget", "claim"},
           at'.pc \in {"dlist", "dcmd", "forget", "claim", "list"},
           /\ at'.pc \in {"dlist", "dcmd"} /\ at.vm # None /\ Preflighted(Dev)
              => at'.dvm # at.vm
    PROVE  AnswerOK'
  <1>1. at.vm # None => at.vm \in VMs
    BY DEF CalmState, IInv, TypeOK, Frames
  <1>2. Dev' = Dev /\ UNCHANGED <<up, gen>>
    BY SameNode, CallStep DEF CalmState, hostVars
  <1>3. at.vm # None => UsbList(at.vm)' = UsbList(at.vm)
    BY DEF UsbList, Listed
  <1> QED BY <1>2, <1>3 DEF CalmState, AnswerOK, SocketGeneration

LEMMA AnswerStep == CalmState /\ Undisturbed /\ Next => AnswerOK'
  <1> SUFFICES ASSUME CalmState, Undisturbed, Next PROVE AnswerOK' OBVIOUS
  <1>a. /\ at \in Frames /\ held \in [VMs -> [Ports -> Guest \cup {None}]] /\ IInv
    BY DEF CalmState, IInv, TypeOK
  <1>b. at'.pc \in {"next", "attach", "stale", "commit", "announce"} => AnswerOK'
    BY DEF AnswerOK
  <1>c. NoFrame.pc = "next" /\ NoFrame.vm = None
    BY DEF NoFrame
  <1>d. at'.pc # "preflight" /\ at'.vm = None => AnswerOK'
    BY DEF AnswerOK
  <1>1. CASE BeginStep \/ OpDone \/ Crash
    BY <1>1, <1>a, <1>b, <1>c, BeginScan DEF OpDone, Crash, IInv, ScanOK
  <1>2. CASE OtherStep
    <2>1. at' = at /\ at.pc = "next"
      BY <1>2, Alone, OtherFrame
    <2> QED BY <2>1, <1>b
  <1>3. ASSUME NEW s \in Slots, Skip(s) \/ BeginDetach(s) PROVE AnswerOK'
    BY <1>3, <1>b, <1>c, <1>d, EmptyTypes DEF Skip, BeginDetach, Turn, Frames
  <1>4. ASSUME NEW s \in Slots, BeginAttach(s) PROVE AnswerOK'
    <2> DEFINE v == ChooseVm(Wanted(s), Rule[s][op.scan[s].dev], Id[op.scan[s].dev])
    <2>1. at.pc = "next" /\ op'.scan = op.scan /\ UNCHANGED <<up, gen>>
      BY <1>4, <1>a, TurnScan DEF BeginAttach, Turn, hostVars
    <2> HIDE DEF v
    <2>2. CASE at'.pc = "preflight" /\ at'.gen = SocketGeneration(v) /\ at'.vm = v
      BY <2>1, <2>2 DEF AnswerOK, SocketGeneration
    <2>3. CASE /\ at'.slot = s /\ ~Preflighted(op.scan[s].dev)
               /\ at'.pc = "dread" \/ at'.pc = "claim"
      <3>1. ~Preflighted(Dev')
        BY <2>1, <2>3 DEF Dev
      <3> QED BY <2>3, <3>1 DEF AnswerOK
    <2> QED BY <1>4, <1>a, <1>b, <2>1, <2>2, <2>3, Begun, Ended DEF v, IInv
  <1>5. CASE Preflight
    <2>1. at.pc = "preflight" /\ UNCHANGED <<up, gen, held, usbVms>>
      BY <1>5 DEF Preflight, Attaching, hostVars
    <2>2. CASE /\ up[at.vm] /\ op' = op /\ at'.slot = at.slot /\ at'.vm = at.vm
               /\ at'.gen = at.gen /\ at'.live = UsbList(at.vm)
               /\ at'.pc = IF MustLeave(usbVms[Node], at.vm) THEN "dread" ELSE "claim"
      <3>1. Node' = Node /\ UsbList(at.vm)' = UsbList(at.vm)
        BY <2>1, <2>2, SameNode DEF UsbList, Listed
      <3> QED BY <2>1, <2>2, <3>1 DEF CalmState, AnswerOK, SocketGeneration, MustLeave
    <2> QED BY <1>5, <1>a, <1>b, <2>2, Preflown, Ended
  <1>6. CASE Claim
    <2> DEFINE g == IF Preflighted(Dev) THEN at.gen ELSE SocketGeneration(at.vm)
    <2>1. CASE at' = [at EXCEPT !.pc = "list", !.known = mem.ports[at.slot], !.gen = g] /\ op' = op
      <3> HIDE DEF g
      <3>1. /\ at.pc = "claim" /\ held' = held /\ at'.slot = at.slot /\ at'.vm = at.vm
            /\ at'.live = at.live /\ at'.pc = "list" /\ at'.gen = g
        BY <1>6, <1>a, <2>1 DEF Claim, Attaching, Frames
      <3>2. CASE Preflighted(Dev)
        BY <1>6, <2>1, <3>1, <3>2, AnswerKept DEF AttachStep, g
      <3>3. CASE ~Preflighted(Dev)
        <4>1. Dev' = Dev
          BY <2>1, <3>1, SameNode
        <4> QED BY <3>1, <3>3, <4>1 DEF AnswerOK
      <3> QED BY <3>2, <3>3
    <2> QED BY <1>6, <1>a, <1>b, <2>1, Ended DEF Claim, Frames
  <1>7. CASE List
    <2>1. ASSUME NEW live, Choose(live) PROVE at'.pc \in {"commit", "attach"}
      BY <1>a, <2>1 DEF Choose, Frames
    <2> QED BY <1>7, <1>b, <2>1, Listing, Ended
  <1>8. CASE AttachCmd \/ StaleDetach \/ Commit \/ Announce
    <2>1. CASE AttachCmd
      BY <2>1, <1>a, <1>b, Ended DEF AttachCmd, Frames
    <2>2. CASE StaleDetach \/ Commit \/ Announce
      BY <2>2, <1>a, <1>b, Ended DEF StaleDetach, Commit, Announce, Frames
    <2> QED BY <1>8, <2>1, <2>2
  <1>9. CASE DetachRead
    <2> DEFINE b == mem.ports[at.slot]
               w == IF usbVms[Node] # None THEN usbVms[Node]
                    ELSE IF b # None THEN b.vm ELSE None
    <2>1. /\ at.pc = "dread" /\ UNCHANGED <<op, held>>
          /\ at' = [at EXCEPT
                    !.dvm = w,
                    !.pc = IF w = None \/ Stopped(w) THEN "forget" ELSE "dlist",
                    !.known = IF w # None /\ Current(b, w) THEN b ELSE None]
      BY <1>9 DEF DetachRead, Attaching
    <2>2. at.vm # None /\ Preflighted(Dev) => w # at.vm
      BY <2>1 DEF CalmState, AnswerOK
    <2> HIDE DEF w
    <2>3. /\ at'.slot = at.slot /\ at'.vm = at.vm /\ at'.gen = at.gen /\ at'.live = at.live
          /\ at'.dvm = w /\ at'.pc \in {"forget", "dlist"}
      BY <1>a, <2>1 DEF Frames
    <2> QED BY <1>9, <2>1, <2>2, <2>3, AnswerKept DEF DetachStep
  <1>10. CASE DetachList
    <2>1. CASE \/ \E q : at' = [at EXCEPT !.pc = "dcmd", !.port = q, !.known = None]
               \/ at' = [at EXCEPT !.pc = "forget", !.known = None]
      <3>1. /\ at'.slot = at.slot /\ at'.vm = at.vm /\ at'.gen = at.gen /\ at'.live = at.live
            /\ at'.dvm = at.dvm /\ at'.pc \in {"forget", "dcmd"}
        BY <1>a, <2>1 DEF Frames
      <3>2. at.pc = "dlist" /\ UNCHANGED held
        BY <1>10 DEF DetachList, Attaching
      <3>3. op' = op
        BY <1>10, <3>1, CallStep, Ended, <1>a DEF DetachStep
      <3>4. at.vm # None /\ Preflighted(Dev) => at'.dvm # at.vm
        BY <3>1, <3>2 DEF CalmState, AnswerOK
      <3> QED BY <1>10, <3>1, <3>2, <3>3, <3>4, AnswerKept DEF DetachStep
    <2>2. \/ DeviceFailed(op, at.want)
          \/ \E q : at' = [at EXCEPT !.pc = "dcmd", !.port = q, !.known = None]
          \/ at' = [at EXCEPT !.pc = "forget", !.known = None]
      BY <1>10 DEF DetachList
    <2> QED BY <1>b, <2>1, <2>2, Ended
  <1>11. CASE DetachCmd
    <2>1. CASE /\ at' = [at EXCEPT !.pc = "forget", !.port = None] /\ op' = op
               /\ DetachAnswered(at.dvm, at.port)
      <3>1. /\ at'.slot = at.slot /\ at'.vm = at.vm /\ at'.gen = at.gen /\ at'.live = at.live
            /\ at'.dvm = at.dvm /\ at'.pc = "forget"
        BY <1>a, <2>1 DEF Frames
      <3>2. at.pc = "dcmd"
        BY <1>11 DEF DetachCmd, Attaching
      <3>3. CASE at.vm # None /\ Preflighted(Dev)
        <4>1. at.dvm # at.vm
          BY <3>2, <3>3 DEF CalmState, AnswerOK
        <4>2. held'[at.vm] = held[at.vm]
          BY <1>a, <2>1, <3>3, <4>1 DEF DetachAnswered, Frames
        <4> QED BY <1>11, <2>1, <3>1, <3>2, <4>2, AnswerKept DEF DetachStep
      <3>4. CASE ~(at.vm # None /\ Preflighted(Dev))
        <4>1. Dev' = Dev
          BY <2>1, <3>1, SameNode
        <4> QED BY <3>1, <3>4, <4>1 DEF AnswerOK
      <3> QED BY <3>3, <3>4
    <2> QED BY <1>11, <1>b, <2>1, Ended DEF DetachCmd
  <1>12. CASE Forget
    <2>1. CASE at' = [at EXCEPT !.pc = "claim", !.dvm = None] /\ op' = op
      <3>1. /\ at'.slot = at.slot /\ at'.vm = at.vm /\ at'.gen = at.gen /\ at'.live = at.live
            /\ at'.pc = "claim"
        BY <1>a, <2>1 DEF Frames
      <3>2. at.pc = "forget" /\ held' = held
        BY <1>12 DEF Forget
      <3> QED BY <1>12, <2>1, <3>1, <3>2, AnswerKept DEF DetachStep
    <2> QED BY <1>12, <1>b, <1>c, <2>1, Ended DEF Forget
  <1> QED BY <1>1, <1>2, <1>3, <1>4, <1>5, <1>6, <1>7, <1>8, <1>9, <1>10, <1>11, <1>12,
             StepCases DEF TurnStep, AttachStep, DetachStep

\* Who holds the device of the call before a step other than an attach.
LEMMA NodeBefore ==
    ASSUME IInv, Next, ~AttachCmd, op'.scan = op.scan, at'.slot = at.slot,
           NEW v \in VMs, NEW p \in Ports, Has(v, p, Node)'
    PROVE  Has(v, p, Node) /\ held'[v][p] = held[v][p]
  BY SameNode, HeldBefore DEF Has

LEMMA HolderStep == CalmState /\ Undisturbed /\ Next => HolderOK'
  <1> SUFFICES ASSUME CalmState, Undisturbed, Next, at'.pc # "next" PROVE HolderOK'
    BY DEF HolderOK
  <1>o. ASSUME at.pc \in {"preflight", "list", "dread", "dlist"}, NEW v \in VMs, NEW p \in Ports, Has(v, p, Node)
        PROVE  LET b == mem.ports[at.slot]
               IN  /\ usbVms[Node] = v /\ up[v] /\ v # None
                   /\ b # None /\ b.vm = v /\ b.port = p /\ b.gen = SocketGeneration(v) /\ b.id = DevId
                   /\ Listed(v, p, Kind[DevId])
    BY <1>o, OwnRecord
  <1> USE DEF CalmState
  <1>a. /\ at \in Frames /\ held \in [VMs -> [Ports -> Guest \cup {None}]]
        /\ usbVms \in [Nodes -> VMs \cup {None}]
    BY DEF IInv, TypeOK
  <1>b. NoFrame.pc = "next"
    BY DEF NoFrame
  <1>c. at'.pc \in {"preflight", "dread", "announce"} => HolderOK'
    BY DEF HolderOK
  <1>1. CASE BeginStep \/ OpDone \/ Crash
    BY <1>1, <1>b, BeginScan DEF OpDone, Crash, IInv, ScanOK
  <1>2. CASE OtherStep
    BY <1>2, Alone, OtherFrame
  <1>3. ASSUME NEW s \in Slots, Skip(s) PROVE HolderOK'
    BY <1>3 DEF Skip, Turn
  <1>4. ASSUME NEW s \in Slots, BeginDetach(s) PROVE HolderOK'
    <2>1. at'.pc = "dread"
      BY <1>4 DEF BeginDetach, NoFrame
    <2> QED BY <2>1, <1>c
  <1>5. ASSUME NEW s \in Slots, BeginAttach(s) PROVE HolderOK'
    <2> DEFINE v == ChooseVm(Wanted(s), Rule[s][op.scan[s].dev], Id[op.scan[s].dev])
               cur == usbVms[op.scan[s].node]
    <2>2. at.pc = "next" /\ op'.scan = op.scan /\ s \in Present(op.scan) /\ held' = held
      BY <1>5, TurnScan DEF BeginAttach, Turn
    <2>3. op.scan[s].node \in Nodes
      BY <2>2, CurrentDevice DEF IInv
    <2> HIDE DEF v
    <2>4. /\ at'.slot = s /\ at'.vm = v
          /\ \/ at'.pc = "preflight"
             \/ at'.pc = IF MustLeave(cur, v) THEN "dread" ELSE "claim"
      BY <1>5, <2>2, Begun, Ended DEF v, IInv
    <2>5. ASSUME at'.pc = "claim", NEW w \in VMs, NEW p \in Ports, Has(w, p, op.scan[s].node)
          PROVE  w = v
      <3>1. cur = w
        BY <2>2, <2>3, <2>5, Recorded
      <3>2. w # None
        BY ConstantsAssumption DEF ConstantsAssumption
      <3> QED BY <2>4, <2>5, <3>1, <3>2 DEF MustLeave
    <2>6. Node' = op.scan[s].node
      BY <2>2, <2>4 DEF Node
    <2> QED BY <1>c, <2>2, <2>4, <2>5, <2>6 DEF HolderOK, Has
  <1>16. CASE Preflight
    <2>1. /\ at.pc = "preflight" /\ UNCHANGED <<op, held, usbVms>>
          /\ at'.slot = at.slot /\ at'.vm = at.vm
          /\ at'.pc = IF MustLeave(usbVms[Node], at.vm) THEN "dread" ELSE "claim"
      BY <1>16, <1>a, <1>b, Preflown, Ended DEF Preflight, Attaching
    <2>2. Node' = Node
      BY <2>1, SameNode
    <2>3. ASSUME at'.pc = "claim", NEW v \in VMs, NEW p \in Ports, Has(v, p, Node)
          PROVE  v = at.vm
      <3>1. usbVms[Node] = v /\ v # None
        BY <2>1, <2>3, <1>o
      <3> QED BY <2>1, <2>3, <3>1 DEF MustLeave
    <2> QED BY <1>c, <2>1, <2>2, <2>3 DEF HolderOK, Has
  <1>6. CASE Claim
    <2> DEFINE g == IF Preflighted(Dev) THEN at.gen ELSE SocketGeneration(at.vm)
    <2>1. /\ at' = [at EXCEPT !.pc = "list", !.known = mem.ports[at.slot], !.gen = g]
          /\ at.pc = "claim" /\ UNCHANGED <<op, held>>
      BY <1>6, <1>a, <1>b, Ended DEF Claim, Attaching, DeviceDone, Frames
    <2> HIDE DEF g
    <2>2. at'.pc = "list" /\ at'.slot = at.slot /\ at'.vm = at.vm
      BY <1>a, <2>1 DEF Frames
    <2>3. Node' = Node
      BY <2>1, <2>2, SameNode
    <2> QED BY <2>1, <2>2, <2>3 DEF HolderOK, Has
  <1>7. CASE List
    <2>1. at.pc = "list" /\ UNCHANGED <<op, held>> /\ Choose(UsbList(at.vm))
      <3>1. ~DeviceFailed(op, at.want)
        BY <1>b, Ended
      <3>2. PICK live : /\ Choose(live)
                        /\ ~Preflighted(Dev) => up[at.vm] /\ live = UsbList(at.vm)
                        /\ Preflighted(Dev) => live = at.live
        BY <1>7, <3>1, Listing
      <3>3. at.pc = "list" /\ held' = held /\ op' = op
        BY <1>7, <3>2 DEF List, Attaching, Choose
      <3>4. live = UsbList(at.vm)
        BY <3>2, <3>3 DEF AnswerOK, IInv, FrameOK, AttachPcs
      <3> QED BY <3>2, <3>3, <3>4
    <2> DEFINE again == Reusable(UsbList(at.vm))
    <2>2. /\ at'.slot = at.slot /\ at'.vm = at.vm
          /\ IF again THEN at'.pc = "commit" /\ at'.port = at.known.port ELSE at'.pc = "attach"
      <3>1. CASE again
        BY <1>a, <2>1, <3>1 DEF Choose, Frames
      <3>2. CASE ~again
        BY <1>a, <2>1, <3>2 DEF Choose, Frames
      <3> QED BY <3>1, <3>2
    <2>3. Node' = Node
      BY <2>1, <2>2, SameNode
    <2>4. ASSUME NEW v \in VMs, NEW p \in Ports, Has(v, p, Node)
          PROVE  again /\ v = at.vm /\ p = at.known.port
      <3>1. v = at.vm /\ at.known = mem.ports[at.slot] /\ at.gen = SocketGeneration(v)
        BY <2>1, <2>4 DEF HolderOK, ReadOK
      <3>2. /\ at.known # None /\ at.known.vm = v /\ at.known.port = p
            /\ at.known.gen = SocketGeneration(v) /\ at.known.id = DevId
            /\ Listed(v, p, Kind[DevId])
        BY <2>1, <2>4, <3>1, <1>o
      <3>3. Kind[DevId] \in Kinds
        BY <2>1, CallDevice, ConstantsAssumption DEF ConstantsAssumption
      <3>4. <<p, Kind[DevId]>> \in UsbList(v)
        BY <3>2, <3>3 DEF UsbList
      <3> QED BY <3>1, <3>2, <3>4 DEF Reusable, OwnBinding
    <2> HIDE DEF again
    <2> QED BY <2>1, <2>2, <2>3, <2>4 DEF HolderOK, Has
  <1>8. CASE AttachCmd
    <2>1. PICK q \in FreePorts(at.vm) :
            /\ held' = [held EXCEPT ![at.vm][q] =
                         [slot |-> at.slot, dev |-> Dev, node |-> Node, alive |-> TRUE]]
            /\ at' = LET stale == IF at.stale = q THEN None ELSE at.stale
                     IN [at EXCEPT !.port = q, !.stale = stale,
                           !.pc = IF stale = None THEN "commit" ELSE "stale"]
            /\ op' = op
      BY <1>8, <1>b, Ended DEF AttachCmd
    <2>2. at.pc = "attach"
      BY <1>8 DEF AttachCmd, Attaching
    <2> DEFINE stale == IF at.stale = q THEN None ELSE at.stale
    <2>3. at' = [at EXCEPT !.port = q, !.stale = stale,
                           !.pc = IF stale = None THEN "commit" ELSE "stale"]
      BY <2>1
    <2> HIDE DEF stale
    <2>4. at'.pc \in {"commit", "stale"} /\ at'.port = q /\ at'.vm = at.vm /\ at'.slot = at.slot
      BY <1>a, <2>3 DEF Frames
    <2>5. Node' = Node
      BY <2>1, <2>4, SameNode
    <2>6. ASSUME NEW v \in VMs, NEW p \in Ports, Has(v, p, Node)' PROVE v = at.vm /\ p = q
      <3>1. ~Has(v, p, Node)
        BY <2>2 DEF HolderOK
      <3>2. held'[v][p] # held[v][p]
        BY <2>5, <2>6, <3>1 DEF Has
      <3> QED BY <1>a, <2>1, <3>2
    <2> QED BY <2>4, <2>6 DEF HolderOK
  <1>9. CASE StaleDetach
    <2>1. at.pc = "stale" /\ at' = [at EXCEPT !.pc = "commit"] /\ op' = op /\ ~AttachCmd
      BY <1>9, <1>b, Ended DEF StaleDetach, Attaching, AttachCmd
    <2>2. at'.pc = "commit" /\ at'.vm = at.vm /\ at'.port = at.port /\ at'.slot = at.slot
      BY <1>a, <2>1 DEF Frames
    <2> QED BY <2>1, <2>2, NodeBefore DEF HolderOK
  <1>10. CASE Commit
    <2>1. at'.pc = "announce"
      BY <1>10, <1>a, <1>b, Ended DEF Commit, Frames
    <2> QED BY <2>1, <1>c
  <1>11. CASE Announce
    BY <1>11, <1>b DEF Announce, DeviceDone
  <1>12. CASE DetachRead
    <2> DEFINE b == mem.ports[at.slot]
               w == IF usbVms[Node] # None THEN usbVms[Node]
                    ELSE IF b # None THEN b.vm ELSE None
    <2>1. /\ at.pc = "dread" /\ UNCHANGED <<op, held, mem>>
          /\ at' = [at EXCEPT
                    !.dvm = w,
                    !.pc = IF w = None \/ Stopped(w) THEN "forget" ELSE "dlist",
                    !.known = IF w # None /\ Current(b, w) THEN b ELSE None]
      BY <1>12 DEF DetachRead, Attaching
    <2>2. ASSUME NEW v \in VMs, NEW p \in Ports, Has(v, p, Node)
          PROVE  w = v /\ ~(w = None \/ Stopped(w)) /\ Current(b, w)
      <3>1. /\ usbVms[Node] = v /\ up[v] /\ v # None /\ b # None /\ b.gen = SocketGeneration(v)
        BY <2>1, <2>2, <1>o
      <3> QED BY <3>1 DEF Stopped, Current
    <2> HIDE DEF w
    <2>3. /\ at'.slot = at.slot /\ at'.dvm = w
          /\ at'.pc = IF w = None \/ Stopped(w) THEN "forget" ELSE "dlist"
          /\ w # None /\ Current(b, w) => at'.known = b
      BY <1>a, <2>1 DEF Frames
    <2>4. Node' = Node /\ mem'.ports[at'.slot] = b
      BY <2>1, <2>3, SameNode
    <2> QED BY <2>1, <2>2, <2>3, <2>4 DEF HolderOK, Has
  <1>13. CASE DetachList
    <2> DEFINE matching == {p \in Ports : Listed(at.dvm, p, Kind[DevId])}
               ports == IF at.known # None THEN matching \cap {at.known.port} ELSE matching
    <2>1. /\ at.pc = "dlist" /\ UNCHANGED <<op, held>>
          /\ \/ ports = {} /\ at' = [at EXCEPT !.pc = "forget", !.known = None]
             \/ \E p \in ports : /\ ports = {p}
                                 /\ at' = [at EXCEPT !.pc = "dcmd", !.port = p, !.known = None]
      BY <1>13, <1>b, Ended DEF DetachList, Attaching
    <2>2. ASSUME NEW v \in VMs, NEW p \in Ports, Has(v, p, Node)
          PROVE  v = at.dvm /\ ports = {p}
      <3>1. v = at.dvm /\ at.known = mem.ports[at.slot]
        BY <2>1, <2>2 DEF HolderOK
      <3>2. at.known # None /\ at.known.port = p /\ Listed(v, p, Kind[DevId])
        BY <2>1, <2>2, <3>1, <1>o
      <3> QED BY <3>1, <3>2
    <2> HIDE DEF ports
    <2>3. CASE ports = {} /\ at' = [at EXCEPT !.pc = "forget", !.known = None]
      <3>1. at'.pc = "forget" /\ at'.slot = at.slot
        BY <1>a, <2>3 DEF Frames
      <3>2. Node' = Node
        BY <2>1, <3>1, SameNode
      <3> QED BY <2>1, <2>2, <2>3, <3>1, <3>2 DEF HolderOK, Has
    <2>4. ASSUME NEW q, ports = {q}, at' = [at EXCEPT !.pc = "dcmd", !.port = q, !.known = None]
          PROVE  HolderOK'
      <3>1. at'.pc = "dcmd" /\ at'.slot = at.slot /\ at'.dvm = at.dvm /\ at'.port = q
        BY <1>a, <2>4 DEF Frames
      <3>2. Node' = Node
        BY <2>1, <3>1, SameNode
      <3> QED BY <2>1, <2>2, <2>4, <3>1, <3>2 DEF HolderOK, Has
    <2> QED BY <2>1, <2>3, <2>4
  <1>14. CASE DetachCmd
    <2>1. /\ at.pc = "dcmd" /\ op' = op /\ ~AttachCmd /\ DetachAnswered(at.dvm, at.port)
          /\ at' = [at EXCEPT !.pc = "forget", !.port = None]
      BY <1>14, <1>b, Ended DEF DetachCmd, Attaching, AttachCmd
    <2>2. at'.pc = "forget" /\ at'.slot = at.slot
      BY <1>a, <2>1 DEF Frames
    <2>3. ASSUME NEW v \in VMs, NEW p \in Ports, Has(v, p, Node)' PROVE FALSE
      <3>1. v = at.dvm /\ p = at.port /\ held'[v][p] = held[v][p] /\ held[v][p] # None
        BY <2>1, <2>2, <2>3, NodeBefore DEF HolderOK, Has
      <3>2. held'[v][p] = None
        BY <1>a, <2>1, <3>1 DEF DetachAnswered
      <3> QED BY <3>1, <3>2
    <2> QED BY <2>3 DEF HolderOK
  <1>15. CASE Forget
    <2>1. /\ at.pc = "forget" /\ UNCHANGED <<op, held>>
          /\ at' = [at EXCEPT !.pc = "claim", !.dvm = None]
      BY <1>15, <1>b, Ended DEF Forget
    <2>2. at'.pc = "claim" /\ at'.slot = at.slot
      BY <1>a, <2>1 DEF Frames
    <2>3. Node' = Node
      BY <2>1, <2>2, SameNode
    <2> QED BY <2>1, <2>2, <2>3 DEF HolderOK, Has
  <1> QED BY <1>1, <1>2, <1>3, <1>4, <1>5, <1>6, <1>7, <1>8, <1>9, <1>10, <1>11, <1>12, <1>13,
             <1>14, <1>15, <1>16, StepCases DEF TurnStep, AttachStep, DetachStep

\* Only an attach gives a device to a VM.
LEMMA ReleasedKept ==
    ASSUME CalmState, Next, ~AttachCmd, op'.scan = op.scan, op'.vm = op.vm,
           NEW s \in Present(op.scan), Released(s)
    PROVE  Released(s)'
  <1> SUFFICES ASSUME NEW v \in VMs, NEW p \in Ports, Has(v, p, op.scan[s].node)'
               PROVE  Rule[s][op.scan[s].dev].skip \/ op.vm \notin {None, v}
    BY DEF Released
  <1>1. Has(v, p, op.scan[s].node)
    BY HeldBefore DEF Has, CalmState
  <1> QED BY <1>1 DEF Released

\* A suspend passes over a device only if it is out of scope, and leaves it
\* only when no VM has it.
LEMMA SuspendStep == CalmState /\ Undisturbed /\ Next => SuspendOK'
  <1> SUFFICES ASSUME CalmState, Undisturbed, Next, op'.kind = "suspend", ~op'.failed,
                      NEW s \in Present(op'.scan), s \notin op'.todo, s \notin InCall'
               PROVE  Released(s)'
    BY DEF SuspendOK
  <1> USE DEF CalmState
  <1>a. op \in Ops /\ at \in Frames /\ held \in [VMs -> [Ports -> Guest \cup {None}]]
    BY DEF IInv, TypeOK
  <1>b. NoFrame.pc = "next" /\ NoOp.kind = "idle"
    BY DEF NoFrame, NoOp
  <1>1. CASE ApiNext \/ ReconcileResume
    BY <1>1 DEF ApiNext, ApiSelect, ApiPower, ReconcileResume, Begin
  <1>2. CASE OpDone \/ Crash
    BY <1>2, <1>b DEF OpDone, Crash
  <1>3. CASE OtherStep
    BY <1>3, Alone, OtherFrame
  <1>4. ASSUME NEW t \in Slots, Skip(t) \/ BeginDetach(t) PROVE Released(s)'
    <2>1. /\ at.pc = "next" /\ op' = Popped(t) /\ UNCHANGED held /\ ~AttachCmd
          /\ t \in Present(op.scan) /\ op'.scan = op.scan /\ op'.todo = op.todo \ {t}
      BY <1>4, TurnScan DEF Skip, BeginDetach, Turn, AttachCmd, Attaching
    <2>2. op'.kind = op.kind /\ op'.vm = op.vm /\ op'.failed = op.failed
      BY <1>a, <2>1 DEF Popped, Ops
    <2>3. CASE s # t
      <3>1. Released(s)
        BY <2>1, <2>2, <2>3 DEF SuspendOK, InCall
      <3> QED BY <2>1, <2>2, <3>1, ReleasedKept
    <2>4. CASE s = t /\ Skip(t)
      <3>1. ~Suspends(s)
        BY <2>2, <2>4 DEF Skip, InScope
      <3>2. op.scan[s].node \in Nodes
        BY <2>1, <2>4, CurrentDevice DEF IInv
      <3>3. ASSUME NEW v \in VMs, NEW p \in Ports, Has(v, p, op.scan[s].node)
            PROVE  Rule[s][op.scan[s].dev].skip \/ op.vm \notin {None, v}
        <4>1. usbVms[op.scan[s].node] = v /\ v # None
          BY <2>1, <3>2, <3>3, Recorded, ConstantsAssumption DEF ConstantsAssumption
        <4> QED BY <3>1, <4>1 DEF Suspends
      <3>4. Released(s)
        BY <3>3 DEF Released
      <3> QED BY <2>1, <2>2, <3>4, ReleasedKept
    <2>5. CASE s = t /\ BeginDetach(t)
      <3>1. at'.pc = "dread" /\ at'.slot = t
        BY <2>5 DEF BeginDetach, NoFrame
      <3> QED BY <2>5, <3>1 DEF InCall
    <2> QED BY <1>4, <2>3, <2>4, <2>5
  <1>5. ASSUME NEW t \in Slots, BeginAttach(t) PROVE Released(s)'
    BY <1>5, TurnScan DEF BeginAttach
  <1>6. CASE AttachStep
    <2>1. op'.kind = op.kind /\ at.pc \in AttachPcs
      BY <1>6, CallStep DEF AttachStep, Preflight, Claim, List, AttachCmd, StaleDetach, Commit, Announce, Attaching, AttachPcs
    <2> QED BY <2>1 DEF IInv, FrameOK, AttachPcs
  <1>7. CASE DetachStep
    <2>1. /\ op'.kind = op.kind /\ op'.vm = op.vm /\ op'.scan = op.scan /\ op'.todo = op.todo
          /\ op.failed => op'.failed
      BY <1>7, CallStep, SameOperation
    <2>2. /\ at.pc \in DetachPcs /\ ~AttachCmd
      BY <1>7 DEF DetachStep, DetachRead, DetachList, DetachCmd, Forget, Attaching, DetachPcs, AttachCmd
    <2>3. ~DeviceFailed(op, at.want)
      BY <1>a, <2>1 DEF DeviceFailed, Ops
    <2>4. CASE at'.pc # "next" /\ at'.slot = at.slot
      <3>1. Released(s)
        BY <2>1, <2>2, <2>4 DEF SuspendOK, InCall, DetachPcs
      <3> QED BY <2>1, <2>2, <3>1, ReleasedKept
    <2>5. CASE Forget /\ at' = NoFrame
      <3>1. CASE s = at.slot
        <4>1. \A v \in VMs, p \in Ports : ~Has(v, p, op.scan[s].node)
          BY <2>5, <3>1 DEF Forget, HolderOK, Node
        <4>2. Released(s)
          BY <4>1 DEF Released
        <4> QED BY <2>1, <2>2, <4>2, ReleasedKept
      <3>2. CASE s # at.slot
        <4>1. Released(s)
          BY <2>1, <2>2, <3>2 DEF SuspendOK, InCall
        <4> QED BY <2>1, <2>2, <4>1, ReleasedKept
      <3> QED BY <3>1, <3>2
    <2>6. CASE DetachRead
      <3>1. at'.pc \in {"forget", "dlist"} /\ at'.slot = at.slot
        BY <1>a, <2>6 DEF DetachRead, Frames
      <3> QED BY <2>4, <3>1
    <2>7. CASE DetachList
      <3>1. at'.pc \in {"forget", "dcmd"} /\ at'.slot = at.slot
        <4>1. \A q : at' = [at EXCEPT !.pc = "dcmd", !.port = q, !.known = None]
                        => at'.pc = "dcmd" /\ at'.slot = at.slot
          BY <1>a DEF Frames
        <4>2. at' = [at EXCEPT !.pc = "forget", !.known = None]
                => at'.pc = "forget" /\ at'.slot = at.slot
          BY <1>a DEF Frames
        <4> QED BY <2>3, <2>7, <4>1, <4>2 DEF DetachList
      <3> QED BY <2>4, <3>1
    <2>8. CASE DetachCmd
      <3>1. at'.pc = "forget" /\ at'.slot = at.slot
        BY <1>a, <2>3, <2>8 DEF DetachCmd, Frames
      <3> QED BY <2>4, <3>1
    <2>9. CASE Forget
      <3>1. at' = NoFrame
        BY <2>1, <2>2, <2>3, <2>9 DEF Forget, IInv, FrameOK, DetachPcs
      <3> QED BY <2>5, <2>9, <3>1
    <2> QED BY <1>7, <2>6, <2>7, <2>8, <2>9 DEF DetachStep
  <1> QED BY <1>1, <1>2, <1>3, <1>4, <1>5, <1>6, <1>7, StepCases DEF BeginStep, TurnStep

---------------------------------------------------------------------------
LEMMA CalmInit == Init => CalmState
  <1> SUFFICES ASSUME Init PROVE CalmState OBVIOUS
  <1>1. IInv /\ SeenOK
    BY InitIInv, SeenNothing DEF Init, SeenOK, NoOp, NoRec, Gone
  <1>2. /\ NoFrame.pc = "next" /\ NoOp.kind = "idle" /\ NoRec.pc = "idle" /\ NoRec.gone = {}
    BY DEF NoFrame, NoOp, NoRec
  <1>3. \A v \in VMs, p \in Ports : held[v][p] = None
    BY DEF Init
  <1>4. AliveOK /\ RecordOK /\ HolderOK /\ ReadOK /\ AnswerOK /\ SuspendOK
    BY <1>2, <1>3 DEF Init, AliveOK, RecordOK, HolderOK, ReadOK, AnswerOK, SuspendOK, Has
  <1>5. TurnsOK
    BY <1>2 DEF Init, TurnsOK, Gone
  <1> QED BY <1>1, <1>4, <1>5 DEF CalmState

LEMMA CalmStateStays == CalmState /\ Undisturbed /\ [Next]_vars => CalmState'
  <1> SUFFICES ASSUME CalmState, Undisturbed, [Next]_vars PROVE CalmState' OBVIOUS
  <1>1. CASE Next
    <2>1. IInv' /\ SeenOK' /\ AliveOK' /\ TurnsOK'
      BY <1>1, StepIInv, SeenStep, AliveStep, TurnsStep DEF CalmState, Undisturbed
    <2>2. RecordOK' /\ HolderOK' /\ ReadOK' /\ AnswerOK' /\ SuspendOK'
      BY <1>1, RecordStep, HolderStep, ReadStep, AnswerStep, SuspendStep
    <2> QED BY <2>1, <2>2 DEF CalmState
  <1>2. CASE UNCHANGED vars
    <2> USE <1>2 DEF vars
    <2>1. IInv'
      BY StepIInv DEF CalmState
    <2>2. SeenOK' /\ AliveOK' /\ TurnsOK'
      BY DEF CalmState, SeenOK, AliveOK, TurnsOK, Gone, OnBus
    <2>3. RecordOK' /\ ReadOK'
      BY DEF CalmState, RecordOK, ReadOK, Has, OnRecord, InFlight, Node, SocketGeneration
    <2>4. HolderOK' /\ AnswerOK'
      BY DEF CalmState, HolderOK, AnswerOK, Has, Node, Dev, SocketGeneration, UsbList, Listed
    <2>5. SuspendOK'
      BY DEF CalmState, SuspendOK, Released, InCall, Has
    <2> QED BY <2>1, <2>2, <2>3, <2>4, <2>5 DEF CalmState
  <1> QED BY <1>1, <1>2

\* CalmState is inductive when requests, passes and host events take turns and
\* no command fails.
THEOREM CalmInvariance == Undisturbed => (Spec => []CalmState)
  <1> SUFFICES ASSUME Undisturbed PROVE Spec => []CalmState
    OBVIOUS
  <1>1. CalmState /\ [Next]_vars => CalmState'
    BY CalmStateStays
  <1> QED BY <1>1, CalmInit, PTL DEF Spec

LEMMA CalmExclusive == CalmState => Exclusive
  <1> SUFFICES ASSUME CalmState, NEW v \in VMs, NEW w \in VMs, NEW p \in Ports, NEW q \in Ports,
                      held[v][p] # None, held[v][p].alive, held[w][q] # None, held[w][q].alive,
                      held[v][p].node = held[w][q].node
               PROVE  v = w
    BY DEF Exclusive
  <1> DEFINE n == held[v][p].node
  <1>1. n \in Nodes /\ Has(v, p, n) /\ Has(w, q, n)
    BY DEF CalmState, IInv, TypeOK, Guest, Has
  <1>2. CASE at.pc \in {"stale", "commit"} /\ Node = n
    BY <1>1, <1>2 DEF CalmState, HolderOK
  <1>3. CASE ~(at.pc \in {"stale", "commit"} /\ Node = n)
    <2>1. OnRecord(v, p) /\ OnRecord(w, q)
      BY <1>1, <1>3 DEF CalmState, RecordOK, InFlight
    <2> QED BY <2>1 DEF OnRecord
  <1> QED BY <1>2, <1>3

\* attach_one_usb and detach_one_usb move a device from VM to VM without two of
\* them ever having it, as long as nothing overlaps and nothing fails: what
\* usb_vms and the bindings say is where the device really is.
THEOREM OneHolder == Undisturbed => (Spec => []Exclusive)
  BY CalmInvariance, CalmExclusive, PTL

\* suspend_usb, which goes by the records, has then taken every device in its
\* scope from the VMs themselves.
THEOREM SuspendStands == Undisturbed => (Spec => SuspendReleases)
  <1> SUFFICES ASSUME Undisturbed PROVE Spec => SuspendReleases
    OBVIOUS
  <1> DEFINE Left == (OpDone /\ op.kind = "suspend" /\ ~op.failed) =>
          \A s \in Present(op.scan), v \in VMs, p \in Ports :
             (/\ ~Rule[s][op.scan[s].dev].skip /\ op.vm \in {None, v}
              /\ held[v][p] # None)
             => held[v][p].node # op.scan[s].node \/ ~held[v][p].alive
  <1>1. CalmState => Left
    <2> SUFFICES ASSUME CalmState, OpDone, op.kind = "suspend", ~op.failed,
                        NEW s \in Present(op.scan), NEW v \in VMs, NEW p \in Ports,
                        ~Rule[s][op.scan[s].dev].skip, op.vm \in {None, v}, held[v][p] # None
                 PROVE  held[v][p].node # op.scan[s].node \/ ~held[v][p].alive
      OBVIOUS
    <2>1. Released(s)
      BY DEF CalmState, SuspendOK, OpDone, InCall
    <2> QED BY <2>1 DEF Released, Has
  <1>2. CalmState /\ [Next]_vars => [Left]_vars
    BY <1>1
  <1>3. SuspendReleases <=> [][Left]_vars
    BY PTL DEF SuspendReleases, Left
  <1> QED BY <1>2, <1>3, CalmInvariance, PTL DEF Spec
=============================================================================
