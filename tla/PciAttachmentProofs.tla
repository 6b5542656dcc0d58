------------------------- MODULE PciAttachmentProofs -------------------------
(***************************************************************************)
(* Proofs about PciAttachment, for every value of its constants.           *)
(***************************************************************************)
EXTENDS PciAttachment, TLAPS

\* What is fixed to the board is always there.
FixedOK == Addresses \ HotPlug \subseteq present

\* A request works on devices that a rule routes.
LoopOK == /\ \A a \in op.todo : Rule[a] # None
          /\ op.kind = "idle" => at.pc = "next"

\* The call on one device: what it is part of, and what it touches.  No
\* promise stands against an attach.
CallOK ==
    at.pc # "next" =>
        /\ Rule[at.dev] # None
        /\ at.pc \in {"preflight", "bind", "add"}
              => op.kind \in {"attach", "resume"} /\ at.dev \notin promised
        /\ at.pc \in {"remove", "forget"}
              => op.kind \in {"detach", "disconnect", "suspend"}
        /\ at.pc \in {"bind", "add"}
              => at.set \subseteq IF Rule[at.dev].addAll THEN {at.dev} \cup Group[at.dev]
                                                         ELSE {at.dev}
        /\ at.pc = "add" => at.todo \subseteq at.set

\* The fixed part of the group of a fixed device in S has no host driver.
Safe(S) == \A a \in S \ HotPlug : \A b \in Group[a] \ HotPlug : driver[b] # "host"

\* On the way to the VM: by the command line, or by vfio_add, which comes
\* after the binds of the whole group.
BoundOK ==
    /\ \A v \in VMs : args[v] # None => Safe(args[v])
    /\ at.pc = "add" => Safe(at.set)
    /\ at.pc = "bind" => \A a \in at.set \ HotPlug : \A b \in Group[a] \ HotPlug :
                            b \in at.todo \/ driver[b] # "host"

\* An acknowledged mark is of a routed device, in memory and in the state file.
MarksOK == /\ promised \subseteq mem \cap disk
           /\ \A a \in promised : Rule[a] # None
           /\ promised # {} => Persistency

IInv == /\ TypeOK /\ FixedOK /\ LoopOK /\ CallOK /\ BoundOK /\ MarksOK
        /\ GroupQuarantined

---------------------------------------------------------------------------

LEMMA InitIInv == Init => IInv
  <1> SUFFICES ASSUME Init PROVE IInv OBVIOUS
  <1> USE ConstantsAssumption DEF ConstantsAssumption, Init
  <1>1. NoOp \in Ops /\ NoFrame \in Frames /\ NoRec \in Recs
    BY DEF NoOp, Ops, OpKinds, NoFrame, Frames, NoRec, Recs
  <1>2. TypeOK
    BY <1>1 DEF TypeOK
  <1>3. FixedOK /\ LoopOK /\ CallOK /\ BoundOK
    BY DEF FixedOK, LoopOK, CallOK, BoundOK, NoOp, NoFrame
  <1>4. MarksOK /\ GroupQuarantined
    BY DEF MarksOK, GroupQuarantined
  <1> QED BY <1>2, <1>3, <1>4 DEF IInv

---------------------------------------------------------------------------
(* Types.                                                                  *)

LEMMA FailedTyped ==
    ASSUME NEW o \in Ops, NEW a, deferred \in BOOLEAN, DeviceFailed(o, a)
    PROVE  /\ op' \in Ops /\ at' = NoFrame /\ at' \in Frames /\ deferred' \in BOOLEAN
           /\ op'.todo = o.todo /\ op'.kind = o.kind
  BY DEF DeviceFailed, Ops, Frames

LEMMA PoppedTyped ==
    ASSUME op \in Ops, NEW a
    PROVE  /\ Popped(a) \in Ops /\ Popped(a).kind = op.kind
           /\ Popped(a).todo = op.todo \ {a}
  BY DEF Ops, Popped

LEMMA CallTyped == ASSUME at \in Frames, at.pc # "next" PROVE at \in Calls
  BY DEF Frames, NoFrame

LEMMA FaultTyped ==
    ASSUME faults \in Nat
    PROVE  /\ NoFault => faults' \in Nat
           /\ \A f : Fault(f) => faults' \in Nat
           /\ \A v : Unanswered(v) => faults' \in Nat
  BY DEF NoFault, Fault, Unanswered

LEMMA GroupTyped ==
    ASSUME NEW a \in Addresses
    PROVE  Quarantine(a) \subseteq Addresses /\ Passed(a) \subseteq Addresses
  BY ConstantsAssumption DEF ConstantsAssumption, Quarantine, Passed, IommuGroup

LEMMA DriverTyped ==
    ASSUME driver \in [Addresses -> {"host", "vfio", "none"}], NEW S
    PROVE  /\ Bound(S) \in [Addresses -> {"host", "vfio", "none"}]
           /\ Unbound(S) \in [Addresses -> {"host", "vfio", "none"}]
           /\ \A b : HalfBound(S, b) \in [Addresses -> {"host", "vfio", "none"}]
  BY DEF Bound, Unbound, HalfBound

LEMMA UntoldTyped ==
    ASSUME told \in [Addresses -> VMs \cup {None}], NEW S
    PROVE  Untold(S) \in [Addresses -> VMs \cup {None}]
  BY DEF Untold

LEMMA HostTyped == ASSUME TypeOK, HostNext PROVE TypeOK'
  <1> USE ConstantsAssumption DEF ConstantsAssumption, TypeOK, daemonVars
  <1>1. ASSUME NEW a \in Addresses, Plug(a) PROVE TypeOK'
    BY <1>1, UntoldTyped DEF Plug
  <1>2. ASSUME NEW a \in Addresses, Unplug(a) PROVE TypeOK'
    BY <1>2, UntoldTyped DEF Unplug
  <1>3. ASSUME NEW v \in VMs, VmStart(v) PROVE TypeOK'
    <2>1. args[v] \in SUBSET Addresses
      BY <1>3 DEF VmStart
    <2>2. held' \in [VMs -> SUBSET Addresses] /\ up' \in [VMs -> BOOLEAN]
      BY <1>3, <2>1, ZenonT(30) DEF VmStart
    <2>3. args' \in [VMs -> (SUBSET Addresses) \cup {None}] /\ starts' \in [VMs -> Nat]
      BY <1>3 DEF VmStart
    <2> QED BY <1>3, <2>2, <2>3 DEF VmStart
  <1>4. ASSUME NEW v \in VMs, VmStop(v) PROVE TypeOK'
    BY <1>4, UntoldTyped DEF VmStop
  <1>5. ASSUME NEW v \in VMs, NEW r \in BOOLEAN, VmmArgs(v, r) PROVE TypeOK'
    <2> HIDE ConstantsAssumption DEF ConstantsAssumption, TypeOK
    <2> DEFINE D == {a \in Scan : Rule[a].target = v}
               P == UNION {Passed(a) : a \in D}
    <2>1. P \subseteq Addresses
      BY GroupTyped DEF Scan, TypeOK
    <2>2. args' \in [VMs -> (SUBSET Addresses) \cup {None}]
      <3>1. args' = args \/ args' = [args EXCEPT ![v] = P]
        BY <1>5 DEF VmmArgs
      <3> QED BY <2>1, <3>1 DEF TypeOK
    <2>3. driver' \in [Addresses -> {"host", "vfio", "none"}]
      <3>1. \E S, b : driver' = Bound(S) \/ driver' = HalfBound(S, b)
        BY <1>5 DEF VmmArgs
      <3> QED BY <3>1, DriverTyped DEF TypeOK
    <2>4. faults' \in Nat
      BY <1>5, FaultTyped DEF VmmArgs, TypeOK
    <2> QED BY <1>5, <2>2, <2>3, <2>4 DEF VmmArgs, TypeOK
  <1>6. ASSUME NEW v \in VMs, NEW a \in Addresses, LetGo(v, a) PROVE TypeOK'
    BY <1>6, UntoldTyped DEF LetGo
  <1> QED BY <1>1, <1>2, <1>3, <1>4, <1>5, <1>6 DEF HostNext

LEMMA BeginTyped ==
    ASSUME TypeOK, NEW k \in OpKinds, NEW by \in {"api", "reconcile"},
           NEW v \in VMs \cup {None}, NEW S \in SUBSET Scan, Begin(k, by, v, S)
    PROVE  /\ op' \in Ops /\ op'.kind = k /\ op'.todo = S /\ at.pc = at'.pc
           /\ \A a \in op'.todo : Rule[a] # None
  BY DEF Begin, Ops, Scan, TypeOK

LEMMA LockTyped ==
    ASSUME TypeOK, ApiNext \/ ReconcileResume \/ OpDone PROVE TypeOK'
  <1>1. ASSUME NEW k \in OpKinds, NEW v \in VMs \cup {None}, NEW S \in SUBSET Addresses,
               ApiSelect(k, v, S)
        PROVE  TypeOK'
    <2>1. Begin(k, "api", v, S) /\ S \in SUBSET Scan
      BY <1>1 DEF ApiSelect
    <2>2. op' \in Ops /\ requests' \in Nat
      <3>1. op' \in Ops
        BY <1>1, <2>1, BeginTyped
      <3> QED BY <1>1, <3>1 DEF ApiSelect, TypeOK
    <2>3. UNCHANGED <<hostVars, held, pciVms, mem, disk, observed, deferred, at, rec, told,
                      promised, faults>>
      BY <1>1, <2>1 DEF ApiSelect, Begin
    <2> QED BY <2>2, <2>3 DEF hostVars, TypeOK
  <1>2. ASSUME NEW k \in OpKinds, NEW v \in VMs \cup {None}, ApiPower(k, v) PROVE TypeOK'
    <2>1. Begin(k, "api", v, Scan) /\ Scan \in SUBSET Scan
      BY <1>2 DEF ApiPower
    <2>2. op' \in Ops /\ requests' \in Nat
      BY <1>2, <2>1, BeginTyped DEF ApiPower, TypeOK
    <2> QED BY <1>2, <2>2 DEF ApiPower, Begin, hostVars, TypeOK
  <1>3. CASE ReconcileResume
    <2>1. op' \in Ops
      BY <1>3, BeginTyped DEF ReconcileResume, OpKinds
    <2>2. rec' \in Recs
      BY <1>3 DEF ReconcileResume, Recs, NoRec
    <2> QED BY <1>3, <2>1, <2>2 DEF ReconcileResume, Begin, hostVars, TypeOK
  <1>4. CASE OpDone
    <2>1. op' \in Ops /\ rec' \in Recs
      BY <1>4 DEF OpDone, NoOp, NoRec, Ops, OpKinds, Recs, TypeOK
    <2> QED BY <1>4, <2>1 DEF OpDone, hostVars, TypeOK
  <1> QED BY <1>1, <1>2, <1>3, <1>4 DEF ApiNext

LEMMA FrameTyped ==
    ASSUME NEW pc \in Pcs, NEW a \in Addresses, NEW v \in VMs, NEW S \in SUBSET Addresses
    PROVE  /\ Frame(pc, a, v, S) \in Calls
           /\ [Frame(pc, a, v, S) EXCEPT !.todo = {}] \in Calls
  BY DEF Frame, Calls

LEMMA TurnTyped ==
    ASSUME TypeOK, LoopOK, NEW a \in Addresses,
           Skip(a) \/ BeginAttach(a) \/ BeginDetach(a)
    PROVE  TypeOK'
  <1> USE ConstantsAssumption DEF ConstantsAssumption
  <1>1. Rule[a] \in Rules /\ Rule[a].target \in VMs
    BY DEF Skip, BeginAttach, BeginDetach, Turn, IsFirst, LoopOK, Rules
  <1>2. Popped(a) \in Ops
    BY PoppedTyped DEF TypeOK
  <1>3. CASE Skip(a)
    BY <1>2, <1>3 DEF Skip, Turn, hostVars, TypeOK
  <1>4. CASE BeginAttach(a)
    <2>1. promised' \subseteq Addresses
      BY <1>4 DEF BeginAttach, TypeOK
    <2>2. CASE op.kind = "attach" /\ op.vm \notin {None, Rule[a].target}
      BY <1>2, <1>4, <2>1, <2>2, FailedTyped DEF BeginAttach, Turn, hostVars, TypeOK
    <2>3. CASE ~(op.kind = "attach" /\ op.vm \notin {None, Rule[a].target})
      <3>1. VmName(op.vm, a) \in VMs
        BY <1>1 DEF VmName, TypeOK, Ops
      <3>2. at' \in Calls
        <4>1. at' = Frame("preflight", a, VmName(op.vm, a), {})
          BY <1>4, <2>3 DEF BeginAttach
        <4>2. "preflight" \in Pcs /\ {} \in SUBSET Addresses
          BY DEF Pcs
        <4> QED BY <3>1, <4>1, <4>2, FrameTyped
      <3> QED BY <1>2, <1>4, <2>1, <2>3, <3>2 DEF BeginAttach, Turn, hostVars, TypeOK, Frames
    <2> QED BY <2>2, <2>3
  <1>5. CASE BeginDetach(a)
    <2> DEFINE w == IF pciVms[a] # None THEN pciVms[a] ELSE Rule[a].target
    <2>1. w \in VMs
      BY <1>1 DEF TypeOK
    <2>2. at' \in Calls
      BY <1>5, <2>1, GroupTyped, FrameTyped DEF BeginDetach, Pcs
    <2> QED BY <1>2, <1>5, <2>2 DEF BeginDetach, Turn, hostVars, TypeOK, Frames
  <1> QED BY <1>3, <1>4, <1>5

LEMMA AttachTyped ==
    ASSUME TypeOK, \/ Preflight \/ Compare \/ Record
                   \/ \E b \in Addresses : BindVfio(b) \/ VfioAdd(b)
    PROVE  TypeOK'
  <1>1. CASE Preflight
    <2>1. at \in Calls
      BY <1>1, CallTyped DEF Preflight, Working, TypeOK
    <2>2. at.dev \in Addresses /\ at.vm \in VMs /\ held[at.vm] \in SUBSET Addresses
      BY <2>1 DEF Calls, TypeOK
    <2>3. op' \in Ops /\ at' \in Frames /\ deferred' \in BOOLEAN
      <3>1. CASE \E o : o = op /\ DeviceFailed(o, at.dev)
        BY <3>1, FailedTyped DEF TypeOK
      <3>2. CASE UNCHANGED <<op, deferred>>
                 /\ at' = [at EXCEPT !.pc = "bind", !.live = held[at.vm],
                              !.todo = Quarantine(at.dev), !.set = Passed(at.dev)]
        BY <2>1, <2>2, <3>2, GroupTyped DEF Calls, Pcs, Frames, TypeOK
      <3> QED BY <1>1, <3>1, <3>2 DEF Preflight
    <2>4. faults' \in Nat
      BY <1>1, FaultTyped DEF Preflight, TypeOK
    <2> QED BY <1>1, <2>3, <2>4 DEF Preflight, Working, TypeOK
  <1>2. ASSUME NEW b \in Addresses, BindVfio(b) PROVE TypeOK'
    <2>1. at \in Calls
      BY <1>2, CallTyped DEF BindVfio, Working, TypeOK
    <2>2. op' \in Ops /\ at' \in Frames /\ deferred' \in BOOLEAN
      <3>1. CASE DeviceFailed(op, at.dev)
        BY <3>1, FailedTyped DEF TypeOK
      <3>2. CASE at' = [at EXCEPT !.todo = @ \ {b}] /\ UNCHANGED <<op, deferred>>
        BY <2>1, <3>2 DEF Calls, Frames, TypeOK
      <3> QED BY <1>2, <3>1, <3>2 DEF BindVfio
    <2>3. faults' \in Nat /\ driver' \in [Addresses -> {"host", "vfio", "none"}]
      BY <1>2, FaultTyped, DriverTyped DEF BindVfio, TypeOK
    <2> QED BY <1>2, <2>2, <2>3 DEF BindVfio, Working, TypeOK
  <1>3. CASE Compare
    <2>1. at \in Calls
      BY <1>3, CallTyped DEF Compare, Working, TypeOK
    <2>2. at' \in Frames
      BY <1>3, <2>1 DEF Compare, Calls, Pcs, Frames, IsNews
    <2> QED BY <1>3, <2>2 DEF Compare, Working, TypeOK
  <1>4. ASSUME NEW b \in Addresses, VfioAdd(b) PROVE TypeOK'
    <2>1. at \in Calls /\ at.vm \in VMs
      BY <1>4, CallTyped DEF VfioAdd, Working, TypeOK, Calls
    <2>2. op' \in Ops /\ at' \in Frames /\ deferred' \in BOOLEAN
      <3>1. CASE DeviceFailed(op, at.dev)
        BY <3>1, FailedTyped DEF TypeOK
      <3>2. CASE at' = [at EXCEPT !.todo = @ \ {b}] /\ UNCHANGED <<op, deferred>>
        BY <2>1, <3>2 DEF Calls, Frames, TypeOK
      <3>3. CASE at' = [at EXCEPT !.todo = @ \ {b}, !.changed = TRUE] /\ UNCHANGED <<op, deferred>>
        BY <2>1, <3>3 DEF Calls, Frames, TypeOK
      <3> QED BY <1>4, <3>1, <3>2, <3>3 DEF VfioAdd
    <2>3. held' \in [VMs -> SUBSET Addresses]
      <3>1. held' = held \/ held' = Added(b)
        BY <1>4 DEF VfioAdd
      <3> QED BY <2>1, <3>1 DEF Added, TypeOK
    <2>4. faults' \in Nat
      BY <1>4, FaultTyped DEF VfioAdd, TypeOK
    <2> QED BY <1>4, <2>2, <2>3, <2>4 DEF VfioAdd, Working, TypeOK
  <1>5. CASE Record
    <2>1. at \in Calls /\ at.vm \in VMs
      BY <1>5, CallTyped DEF Record, Working, TypeOK, Calls
    <2>2. op' \in Ops /\ at' \in Frames /\ deferred' \in BOOLEAN
      BY <1>5, FailedTyped DEF Record, DeviceDone, Frames, TypeOK
    <2>3. /\ pciVms' \in [Addresses -> VMs \cup {None}]
          /\ told' \in [Addresses -> VMs \cup {None}]
      BY <1>5, <2>1 DEF Record, TypeOK
    <2>4. mem' \subseteq Addresses /\ disk' \subseteq Addresses /\ faults' \in Nat
      BY <1>5, FaultTyped DEF Record, TypeOK
    <2> QED BY <1>5, <2>2, <2>3, <2>4 DEF Record, Working, TypeOK
  <1> QED BY <1>1, <1>2, <1>3, <1>4, <1>5

LEMMA DetachTyped ==
    ASSUME TypeOK, Forget \/ \E b \in Addresses : VfioRemove(b)
    PROVE  TypeOK'
  <1>1. ASSUME NEW b \in Addresses, VfioRemove(b) PROVE TypeOK'
    <2>1. at \in Calls /\ at.vm \in VMs
      BY <1>1, CallTyped DEF VfioRemove, Working, TypeOK, Calls
    <2>2. op' \in Ops /\ at' \in Frames /\ deferred' \in BOOLEAN
      <3>1. CASE DeviceFailed(op, at.dev)
        BY <3>1, FailedTyped DEF TypeOK
      <3>2. CASE at' = [at EXCEPT !.todo = @ \ {b}] /\ UNCHANGED <<op, deferred>>
        BY <2>1, <3>2 DEF Calls, Frames, TypeOK
      <3> QED BY <1>1, <3>1, <3>2 DEF VfioRemove
    <2>3. /\ held' \in [VMs -> SUBSET Addresses] /\ leaving' \in [VMs -> SUBSET Addresses]
          /\ told' \in [Addresses -> VMs \cup {None}]
      BY <1>1, <2>1, UntoldTyped DEF VfioRemove, TypeOK
    <2>4. faults' \in Nat
      BY <1>1, FaultTyped DEF VfioRemove, TypeOK
    <2> QED BY <1>1, <2>2, <2>3, <2>4 DEF VfioRemove, Working, TypeOK
  <1>2. CASE Forget
    <2>1. at \in Calls /\ at.dev \in Addresses
      BY <1>2, CallTyped DEF Forget, Working, TypeOK, Calls
    <2>2. op' \in Ops /\ at' \in Frames /\ deferred' \in BOOLEAN
      BY <1>2, FailedTyped DEF Forget, DeviceDone, Frames, TypeOK
    <2>3. /\ pciVms' \in [Addresses -> VMs \cup {None}]
          /\ told' \in [Addresses -> VMs \cup {None}]
      BY <1>2, UntoldTyped DEF Forget, TypeOK
    <2>4. mem' \subseteq Addresses /\ disk' \subseteq Addresses
      BY <1>2, <2>1 DEF Forget, Marked, TypeOK
    <2>5. promised' \subseteq Addresses /\ faults' \in Nat
      BY <1>2, <2>1, FaultTyped DEF Forget, TypeOK
    <2> QED BY <1>2, <2>2, <2>3, <2>4, <2>5 DEF Forget, Working, TypeOK
  <1> QED BY <1>1, <1>2

LEMMA ReconcileTyped ==
    ASSUME TypeOK, \/ ReconcileStart \/ ObserveFails \/ ObserveDone \/ Crash
                   \/ \E a \in Addresses : ObserveGone(a)
    PROVE  TypeOK'
  <1> USE ConstantsAssumption DEF ConstantsAssumption, TypeOK, hostVars
  <1>1. CASE ReconcileStart
    BY <1>1 DEF ReconcileStart, Observing, Recs, Scan
  <1>2. CASE ObserveFails
    BY <1>2, FaultTyped DEF ObserveFails, Observing, Recs, NoRec
  <1>3. CASE ObserveDone
    BY <1>3 DEF ObserveDone, Observing, Recs, NoRec
  <1>4. CASE Crash
    BY <1>4, FaultTyped DEF Crash, Recs, NoRec, Ops, OpKinds, NoOp, Frames
  <1>5. ASSUME NEW a \in Addresses, ObserveGone(a) PROVE TypeOK'
    BY <1>5, UntoldTyped DEF ObserveGone, Observing, Recs
  <1> QED BY <1>1, <1>2, <1>3, <1>4, <1>5

LEMMA TypeStep == ASSUME TypeOK, LoopOK, Next PROVE TypeOK'
  BY HostTyped, LockTyped, TurnTyped, AttachTyped, DetachTyped, ReconcileTyped
  DEF Next, OpNext, RecNext

---------------------------------------------------------------------------
(* What a step does to the parts of IInv that one request concerns.        *)

LEMMA FixedStep == ASSUME TypeOK, FixedOK, Next PROVE FixedOK'
  <1>1. \/ present' = present
        \/ \E a \in HotPlug : present' \in {present \ {a}, present \cup {a}}
    BY DEF Next, HostNext, Plug, Unplug, VmStart, VmStop, LetGo, VmmArgs, ApiNext, ApiSelect,
           ApiPower, Begin, OpNext, OpDone, Skip, BeginAttach, BeginDetach, Turn,
           BindVfio, VfioAdd, VfioRemove, Preflight, Compare, Record, Forget, Working,
           RecNext, ReconcileStart, ObserveFails, ObserveGone, ObserveDone, Observing,
           ReconcileResume, Crash, hostVars
  <1> QED BY <1>1 DEF FixedOK

\* The steps that leave the request and its call alone.
Aside == HostNext \/ ReconcileStart \/ ObserveFails \/ ObserveDone
            \/ \E a \in Addresses : ObserveGone(a)

LEMMA AsideStep == ASSUME Aside PROVE UNCHANGED <<op, at, mem, disk, promised>>
  BY DEF Aside, HostNext, Plug, Unplug, VmStart, VmStop, LetGo, VmmArgs, ReconcileStart,
         ObserveFails, ObserveDone, ObserveGone, Observing, daemonVars

\* The steps that take or leave the operation lock.
Locks == ApiNext \/ ReconcileResume \/ OpDone

LEMMA LockStep ==
    ASSUME TypeOK, LoopOK, CallOK, Locks
    PROVE  LoopOK' /\ at' = at /\ at'.pc = "next" /\ UNCHANGED <<mem, disk, promised>>
  <1>1. ASSUME NEW k \in OpKinds, NEW by, NEW v, NEW S \in SUBSET Scan, Begin(k, by, v, S)
        PROVE  LoopOK' /\ at' = at /\ at'.pc = "next" /\ UNCHANGED <<mem, disk, promised>>
    BY <1>1 DEF Begin, LoopOK, Scan
  <1>2. CASE ApiNext
    BY <1>1, <1>2 DEF ApiNext, ApiSelect, ApiPower
  <1>3. CASE ReconcileResume
    BY <1>1, <1>3 DEF ReconcileResume, OpKinds
  <1>4. CASE OpDone
    BY <1>4 DEF OpDone, LoopOK, NoOp
  <1> QED BY <1>2, <1>3, <1>4 DEF Locks

\* The steps of the call on one device.
InCall == Preflight \/ Compare \/ Record \/ Forget
            \/ \E b \in Addresses : BindVfio(b) \/ VfioAdd(b) \/ VfioRemove(b)

\* Within a call the request keeps its kind and its list, and the call its
\* device and its VM, until it ends.
LEMMA InCallStep ==
    ASSUME TypeOK, InCall
    PROVE  /\ at \in Calls
           /\ op'.kind = op.kind /\ op'.todo = op.todo
           /\ \/ at' = NoFrame
              \/ at' \in Calls /\ at'.dev = at.dev /\ at'.vm = at.vm
  <1>1. at \in Calls
    BY CallTyped DEF InCall, Preflight, Compare, Record, Forget, BindVfio, VfioAdd,
                     VfioRemove, Working, TypeOK
  <1>2. at' \in Frames
    BY AttachTyped, DetachTyped DEF InCall, TypeOK
  <1>3. DeviceFailed(op, at.dev) => op'.kind = op.kind /\ op'.todo = op.todo /\ at' = NoFrame
    BY FailedTyped DEF TypeOK
  <1> DEFINE Kept == at'.dev = at.dev /\ at'.vm = at.vm /\ at'.pc # "next"
  <1>4. at' = NoFrame \/ Kept
    <2>1. CASE Preflight
      <3>1. \/ at' = NoFrame
            \/ at' = [at EXCEPT !.pc = "bind", !.live = held[at.vm],
                                !.todo = Quarantine(at.dev), !.set = Passed(at.dev)]
        BY <1>3, <2>1, Zenon DEF Preflight
      <3> QED BY <1>1, <3>1 DEF Calls
    <2>2. CASE Compare
      BY <1>1, <2>2 DEF Compare, Calls
    <2>3. CASE Record \/ Forget
      BY <1>3, <2>3 DEF Record, Forget, DeviceDone
    <2>4. ASSUME NEW b \in Addresses, BindVfio(b) \/ VfioRemove(b) PROVE at' = NoFrame \/ Kept
      BY <1>1, <1>3, <2>4 DEF BindVfio, VfioRemove, Working, Calls
    <2>5. ASSUME NEW b \in Addresses, VfioAdd(b) PROVE at' = NoFrame \/ Kept
      BY <1>1, <1>3, <2>5 DEF VfioAdd, Working, Calls
    <2> QED BY <2>1, <2>2, <2>3, <2>4, <2>5 DEF InCall
  <1>5. op'.kind = op.kind /\ op'.todo = op.todo
    BY <1>3 DEF InCall, Preflight, Compare, Record, Forget, BindVfio, VfioAdd,
          VfioRemove, Working, DeviceDone
  <1> QED BY <1>1, <1>2, <1>4, <1>5 DEF Frames, NoFrame

LEMMA GroupPassed ==
    ASSUME FixedOK, NEW a \in Addresses
    PROVE  /\ \A c \in Passed(a) \ HotPlug : Group[c] \ HotPlug \subseteq Quarantine(a)
           /\ Passed(a) \subseteq IF Rule[a].addAll THEN {a} \cup Group[a] ELSE {a}
  BY ConstantsAssumption, ZenonT(30)
  DEF ConstantsAssumption, FixedOK, Passed, Quarantine, IommuGroup

LEMMA CallStep ==
    ASSUME TypeOK, FixedOK, LoopOK, CallOK, InCall PROVE LoopOK' /\ CallOK'
  <1>1. LoopOK'
    <2>1. op.kind # "idle"
      BY InCallStep DEF CallOK, LoopOK, Calls, Pcs
    <2> QED BY <2>1, InCallStep DEF LoopOK
  <1>2. CASE at' = NoFrame
    BY <1>1, <1>2 DEF CallOK, NoFrame
  <1>3. CASE at' # NoFrame
    <2> USE <1>3
    <2>1. at \in Calls /\ at' \in Calls /\ at'.dev = at.dev /\ op'.kind = op.kind
          /\ at.dev \in Addresses /\ at.pc \in Pcs
      BY InCallStep DEF Calls
    <2>2. Rule[at'.dev] # None
      BY <2>1 DEF CallOK, Pcs
    <2>3. ~DeviceFailed(op, at.dev) /\ ~DeviceDone
      BY FailedTyped DEF TypeOK, DeviceDone
    <2>4. CASE Preflight
      <3>1. at' = [at EXCEPT !.pc = "bind", !.live = held[at.vm],
                             !.todo = Quarantine(at.dev), !.set = Passed(at.dev)]
            /\ at.pc = "preflight" /\ promised' = promised
        BY <2>3, <2>4 DEF Preflight, Working
      <3>2. at'.pc = "bind" /\ at'.set = Passed(at.dev)
        BY <2>1, <3>1 DEF Calls
      <3> QED BY <1>1, <2>1, <2>2, <3>1, <3>2, GroupPassed DEF CallOK
    <2>5. ASSUME NEW b \in Addresses, BindVfio(b) PROVE CallOK'
      <3>1. at' = [at EXCEPT !.todo = @ \ {b}] /\ at.pc = "bind" /\ promised' = promised
        BY <2>3, <2>5 DEF BindVfio, Working
      <3> QED BY <2>1, <2>2, <3>1 DEF CallOK, Calls
    <2>6. CASE Compare
      <3>1. at' = [at EXCEPT !.pc = "add", !.todo = at.set, !.changed = IsNews]
            /\ at.pc = "bind" /\ promised' = promised
        BY <2>6 DEF Compare, Working
      <3>2. at'.pc = "add" /\ at'.todo = at.set /\ at'.set = at.set
        BY <2>1, <3>1 DEF Calls
      <3> QED BY <1>1, <2>1, <2>2, <3>1, <3>2 DEF CallOK
    <2>7. ASSUME NEW b \in Addresses, VfioAdd(b) PROVE CallOK'
      <3>1. /\ \/ at' = [at EXCEPT !.todo = @ \ {b}]
               \/ at' = [at EXCEPT !.todo = @ \ {b}, !.changed = TRUE]
            /\ at.pc = "add" /\ promised' = promised
        BY <2>3, <2>7, Zenon DEF VfioAdd, Working
      <3>2. at'.pc = "add" /\ at'.todo \subseteq at.todo /\ at'.set = at.set
        BY <2>1, <3>1 DEF Calls
      <3> QED BY <2>1, <2>2, <3>1, <3>2 DEF CallOK
    <2>8. ASSUME NEW b \in Addresses, VfioRemove(b) PROVE CallOK'
      <3>1. at' = [at EXCEPT !.todo = @ \ {b}] /\ at.pc = "remove" /\ promised' = promised
        BY <2>3, <2>8 DEF VfioRemove, Working
      <3> QED BY <2>1, <2>2, <3>1 DEF CallOK, Calls
    <2>9. ~(Record \/ Forget)
      BY <2>3 DEF Record, Forget
    <2> QED BY <1>1, <2>4, <2>5, <2>6, <2>7, <2>8, <2>9 DEF InCall
  <1> QED BY <1>1, <1>2, <1>3

\* The steps of the loop over the devices.
Turns == \E a \in Addresses : Skip(a) \/ BeginAttach(a) \/ BeginDetach(a)

LEMMA TurnStep ==
    ASSUME TypeOK, LoopOK, MarksOK, Turns
    PROVE  /\ LoopOK' /\ CallOK' /\ at'.pc \notin {"bind", "add"}
           /\ promised' \subseteq promised /\ UNCHANGED <<mem, disk>>
  <1> PICK a \in Addresses : Skip(a) \/ BeginAttach(a) \/ BeginDetach(a)
    BY DEF Turns
  <1>1. /\ at.pc = "next" /\ a \in op.todo /\ (op.kind # "idle" \/ at'.pc = "next")
        /\ UNCHANGED <<mem, disk>> /\ promised' \subseteq promised
    BY DEF Skip, BeginAttach, BeginDetach, Turn, IsFirst
  <1>2. Rule[a] # None
    BY <1>1 DEF LoopOK, Skip, BeginAttach, BeginDetach, Turn, IsFirst
  <1>3. /\ op'.kind = op.kind /\ op'.todo = op.todo \ {a}
    BY FailedTyped, PoppedTyped DEF Skip, BeginAttach, BeginDetach, TypeOK
  <1>4. CASE at'.pc = "next"
    BY <1>1, <1>3, <1>4 DEF LoopOK, CallOK
  <1>5. CASE at'.pc # "next"
    <2>1. CASE BeginAttach(a)
      <3>1. at' = Frame("preflight", a, VmName(op.vm, a), {})
        BY <1>5, <2>1, FailedTyped, PoppedTyped DEF BeginAttach, TypeOK, NoFrame
      <3>2. at'.pc = "preflight" /\ at'.dev = a
        BY <3>1 DEF Frame
      <3>3. op.kind \in {"attach", "resume"} /\ a \notin promised'
        BY <2>1 DEF BeginAttach, InScope, Resumes, MarksOK
      <3> QED BY <1>1, <1>2, <1>3, <3>2, <3>3 DEF LoopOK, CallOK
    <2>2. CASE BeginDetach(a)
      <3>1. at'.pc \in {"remove", "forget"} /\ at'.dev = a
            /\ op.kind \in {"detach", "disconnect", "suspend"}
        BY <2>2 DEF BeginDetach, Frame
      <3> QED BY <1>1, <1>2, <1>3, <3>1 DEF LoopOK, CallOK
    <2>3. ~Skip(a)
      BY <1>5 DEF Skip, Turn
    <2> QED BY <2>1, <2>2, <2>3
  <1> QED BY <1>4, <1>5, <1>1

---------------------------------------------------------------------------
(* The quarantine.                                                         *)

\* Only a device that is plugged in gets a driver of the host.
LEMMA DriverStep ==
    ASSUME TypeOK, Next, NEW b \in Addresses \ HotPlug, driver[b] # "host"
    PROVE  driver'[b] # "host"
  <1> DEFINE Binds(S, c) == \/ driver' = Bound(S) \/ driver' = Unbound(S)
                            \/ driver' = HalfBound(S, c)
  <1>1. \/ driver' = driver
        \/ \E S, c : Binds(S, c)
        \/ \E a \in HotPlug : \E k \in {"host", "none"} : driver' = [driver EXCEPT ![a] = k]
    <2>1. HostNext => \/ driver' = driver
                      \/ \E S, c : Binds(S, c)
                      \/ \E a \in HotPlug : \E k \in {"host", "none"} :
                            driver' = [driver EXCEPT ![a] = k]
      BY DEF HostNext, Plug, Unplug, VmStart, VmStop, LetGo, VmmArgs
    <2>2. ApiNext \/ OpDone \/ RecNext \/ Crash => driver' = driver
      BY DEF ApiNext, ApiSelect, ApiPower, Begin, OpDone, RecNext, ReconcileStart,
             ObserveFails, ObserveGone, ObserveDone, Observing, ReconcileResume,
             Crash, hostVars
    <2>3. Turns \/ Preflight \/ Compare \/ Record \/ Forget => driver' = driver
      BY DEF Turns, Skip, BeginAttach, BeginDetach, Turn, Preflight, Compare, Record,
             Forget, hostVars
    <2>4. ASSUME NEW c \in Addresses, BindVfio(c)
          PROVE  driver' = driver \/ \E S : Binds(S, c)
      BY <2>4 DEF BindVfio
    <2>5. ASSUME NEW c \in Addresses, VfioAdd(c) \/ VfioRemove(c) PROVE driver' = driver
      BY <2>5 DEF VfioAdd, VfioRemove
    <2> QED BY <2>1, <2>2, <2>3, <2>4, <2>5 DEF Next, OpNext, Turns
  <1>2. ASSUME NEW S, NEW c, Binds(S, c) PROVE driver'[b] # "host"
    BY <1>2 DEF Bound, Unbound, HalfBound
  <1>3. ASSUME NEW a \in HotPlug, NEW k, driver' = [driver EXCEPT ![a] = k]
        PROVE  driver'[b] # "host"
    BY <1>3 DEF TypeOK
  <1> QED BY <1>1, <1>2, <1>3

LEMMA SafeStep ==
    ASSUME TypeOK, Next, NEW S \in SUBSET Addresses, Safe(S)
    PROVE  \A a \in S \ HotPlug : \A b \in Group[a] \ HotPlug : driver'[b] # "host"
  BY DriverStep, ConstantsAssumption DEF Safe, ConstantsAssumption

\* Where a device that a VM has now comes from.
LEMMA HeldStep ==
    ASSUME TypeOK, Next, NEW v \in VMs, NEW a \in held'[v]
    PROVE  \/ a \in held[v]
           \/ ~up[v] /\ args[v] # None /\ a \in args[v]
           \/ at.pc = "add" /\ a \in at.todo
  <1>1. CASE HostNext
    <2>1. \/ held' = held
          \/ \E b : held' = [w \in VMs |-> held[w] \ {b}]
          \/ \E b : \E w \in VMs : held' = [held EXCEPT ![w] = @ \ {b}]
          \/ \E w \in VMs : held' = [held EXCEPT ![w] = {}]
          \/ \E w \in VMs : /\ ~up[w] /\ args[w] # None
                             /\ held' = [held EXCEPT ![w] = args[w]]
      BY <1>1 DEF HostNext, Plug, Unplug, VmStart, VmStop, LetGo, VmmArgs
    <2> QED BY <2>1 DEF TypeOK
  <1>2. CASE ApiNext \/ OpDone \/ RecNext \/ Crash
    BY <1>2 DEF ApiNext, ApiSelect, ApiPower, Begin, OpDone, RecNext, ReconcileStart,
             ObserveFails, ObserveGone, ObserveDone, Observing, ReconcileResume, Crash
  <1>3. CASE Turns \/ Preflight \/ Compare \/ Record \/ Forget
    BY <1>3 DEF Turns, Skip, BeginAttach, BeginDetach, Turn, Preflight, Compare, Record,
             Forget
  <1>4. ASSUME NEW b \in Addresses, BindVfio(b) PROVE held' = held
    BY <1>4 DEF BindVfio
  <1>5. ASSUME NEW b \in Addresses, VfioAdd(b)
        PROVE  a \in held[v] \/ (at.pc = "add" /\ a \in at.todo)
    <2>1. held' = held \/ held' = Added(b)
      BY <1>5 DEF VfioAdd
    <2>2. at.pc = "add" /\ b \in at.todo
      BY <1>5 DEF VfioAdd, Working, IsLeast
    <2> QED BY <2>1, <2>2 DEF Added, TypeOK
  <1>6. ASSUME NEW b \in Addresses, VfioRemove(b) PROVE a \in held[v]
    <2>1. held' = held \/ held' = [held EXCEPT ![at.vm] = @ \ {b}]
      BY <1>6 DEF VfioRemove
    <2> QED BY <2>1 DEF TypeOK
  <1> QED BY <1>1, <1>2, <1>3, <1>4, <1>5, <1>6 DEF Next, OpNext, Turns

\* The command line of a VM is set by vmm_args, together with the binds.
LEMMA ArgsStep ==
    ASSUME TypeOK, FixedOK, BoundOK, Next, NEW v \in VMs, args'[v] # None
    PROVE  \A a \in args'[v] \ HotPlug : \A b \in Group[a] \ HotPlug : driver'[b] # "host"
  <1> DEFINE D(w) == {a \in Scan : Rule[a].target = w}
             G(w) == UNION {Quarantine(a) : a \in D(w)}
             P(w) == UNION {Passed(a) : a \in D(w)}
             Binds(w) == \/ driver' = Bound(G(w))
                         \/ \E b : driver' = HalfBound(G(w) \ {b}, b)
             Made == \/ args' = args
                     \/ \E w \in VMs : args' = [args EXCEPT ![w] = None]
                     \/ \E w \in VMs : Binds(w) /\ args' = [args EXCEPT ![w] = P(w)]
  <1>1. Made
    <2>1. HostNext => Made
      BY DEF HostNext, Plug, Unplug, VmStart, VmStop, LetGo, VmmArgs
    <2>2. ApiNext \/ OpDone \/ RecNext \/ Crash => args' = args
      BY DEF ApiNext, ApiSelect, ApiPower, Begin, OpDone, RecNext, ReconcileStart,
             ObserveFails, ObserveGone, ObserveDone, Observing, ReconcileResume,
             Crash, hostVars
    <2>3. Turns => args' = args
      BY DEF Turns, Skip, BeginAttach, BeginDetach, Turn, hostVars
    <2>4. InCall => args' = args
      BY DEF InCall, Preflight, Compare, Record, Forget, BindVfio, VfioAdd, VfioRemove,
             Working
    <2> QED BY <2>1, <2>2, <2>3, <2>4 DEF Next, OpNext, Turns, InCall
  <1>2. CASE args'[v] = args[v]
    <2>1. Safe(args[v]) /\ args[v] \in SUBSET Addresses
      BY <1>2 DEF BoundOK, TypeOK
    <2> QED BY <1>2, <2>1, SafeStep
  <1>3. CASE Binds(v) /\ args'[v] = P(v)
    <2> SUFFICES ASSUME NEW c \in P(v) \ HotPlug, NEW b \in Group[c] \ HotPlug
                 PROVE  driver'[b] # "host"
      BY <1>3
    <2>1. PICK a \in D(v) : c \in Passed(a)
      OBVIOUS
    <2>2. a \in Addresses
      BY <2>1 DEF Scan, TypeOK
    <2>3. b \in Quarantine(a) /\ b \in Addresses
      BY <2>1, <2>2, GroupPassed, GroupTyped
    <2>4. b \in G(v)
      BY <2>1, <2>3
    <2> HIDE DEF G
    <2>5. CASE driver' = Bound(G(v))
      BY <2>3, <2>4, <2>5 DEF Bound
    <2>6. ASSUME NEW e, driver' = HalfBound(G(v) \ {e}, e) PROVE driver'[b] # "host"
      <3>1. driver'[b] = IF b \in G(v) \ {e} THEN "vfio" ELSE Unbound({e})[b]
        BY <2>3, <2>6 DEF HalfBound
      <3>2. b = e => Unbound({e})[b] # "host"
        BY <2>3 DEF Unbound
      <3> QED BY <2>4, <3>1, <3>2
    <2> QED BY <1>3, <2>5, <2>6
  <1> HIDE DEF D, G, P, Binds
  <1>4. ASSUME NEW w \in VMs, args' = [args EXCEPT ![w] = None] PROVE args'[v] = args[v]
    BY <1>4 DEF TypeOK
  <1>5. ASSUME NEW w \in VMs, Binds(w), args' = [args EXCEPT ![w] = P(w)]
        PROVE  args'[v] = args[v] \/ (Binds(v) /\ args'[v] = P(v))
    <2>1. CASE w = v
      BY <1>5, <2>1 DEF TypeOK
    <2>2. CASE w # v
      BY <1>5, <2>2 DEF TypeOK
    <2> QED BY <2>1, <2>2
  <1> QED BY <1>1, <1>2, <1>3, <1>4, <1>5

\* Every step is of one of five kinds.
LEMMA Kinds == Next => Aside \/ Locks \/ Turns \/ InCall \/ Crash
  BY DEF Next, OpNext, RecNext, Aside, Locks, Turns, InCall

\* The call: during the binds of the whole group, and after them.
BindOK == at.pc = "bind" => \A a \in at.set \ HotPlug : \A b \in Group[a] \ HotPlug :
                                b \in at.todo \/ driver[b] # "host"
AddOK  == at.pc = "add" => Safe(at.set)

LEMMA BindStep ==
    ASSUME TypeOK, FixedOK, LoopOK, CallOK, MarksOK, BindOK, AddOK, Next
    PROVE  BindOK' /\ AddOK'
  <1>1. \A a \in Addresses : Group[a] \subseteq Addresses
    BY ConstantsAssumption DEF ConstantsAssumption
  <1>2. CASE at'.pc \notin {"bind", "add"}
    BY <1>2 DEF BindOK, AddOK
  <1>3. CASE at' = at
    <2>1. at.pc \in {"bind", "add"} => at.set \in SUBSET Addresses
      BY CallTyped DEF TypeOK, Calls
    <2>2. AddOK'
      BY <1>3, <2>1, SafeStep DEF AddOK, Safe
    <2>3. BindOK'
      BY <1>1, <1>3, <2>1, DriverStep DEF BindOK
    <2> QED BY <2>2, <2>3
  <1>4. CASE InCall
    <2>1. at \in Calls /\ at.dev \in Addresses /\ at.set \in SUBSET Addresses
      BY <1>4, InCallStep DEF Calls
    <2> SUFFICES ASSUME at' # NoFrame PROVE BindOK' /\ AddOK'
      BY <1>2 DEF NoFrame
    <2>2. ~DeviceFailed(op, at.dev) /\ ~DeviceDone
      BY FailedTyped DEF TypeOK, DeviceDone
    <2>3. CASE Preflight
      <3>1. at' = [at EXCEPT !.pc = "bind", !.live = held[at.vm],
                             !.todo = Quarantine(at.dev), !.set = Passed(at.dev)]
        BY <2>2, <2>3 DEF Preflight
      <3>2. /\ at'.pc = "bind" /\ at'.set = Passed(at.dev)
            /\ at'.todo = Quarantine(at.dev)
        BY <2>1, <3>1 DEF Calls
      <3> QED BY <2>1, <3>2, GroupPassed DEF BindOK, AddOK
    <2>4. ASSUME NEW c \in Addresses, BindVfio(c) PROVE BindOK' /\ AddOK'
      <3>1. /\ at' = [at EXCEPT !.todo = @ \ {c}] /\ at.pc = "bind"
            /\ driver' = Bound({c}) \/ (driver[c] # "vfio" /\ driver' = Unbound({c}))
        BY <2>2, <2>4 DEF BindVfio, Working
      <3>2. at'.pc = "bind" /\ at'.set = at.set /\ at'.todo = at.todo \ {c}
        BY <2>1, <3>1 DEF Calls
      <3>3. driver'[c] # "host"
        BY <3>1 DEF Bound, Unbound
      <3>4. ASSUME NEW a \in at.set \ HotPlug, NEW b \in Group[a] \ HotPlug, b \notin at'.todo
            PROVE  driver'[b] # "host"
        <4>1. b \in Addresses \ HotPlug
          BY <1>1, <2>1
        <4>2. b = c \/ driver[b] # "host"
          BY <3>1, <3>2, <3>4 DEF BindOK
        <4> QED BY <3>3, <4>1, <4>2, DriverStep
      <3> QED BY <3>2, <3>4 DEF BindOK, AddOK
    <2>5. CASE Compare
      <3>1. /\ at' = [at EXCEPT !.pc = "add", !.todo = at.set, !.changed = IsNews]
            /\ at.pc = "bind" /\ at.todo = {} /\ driver' = driver
        BY <2>5 DEF Compare, Working
      <3>2. at'.pc = "add" /\ at'.set = at.set
        BY <2>1, <3>1 DEF Calls
      <3> QED BY <3>1, <3>2 DEF BindOK, AddOK, Safe
    <2>6. ASSUME NEW c \in Addresses, VfioAdd(c) PROVE BindOK' /\ AddOK'
      <3>1. /\ \/ at' = [at EXCEPT !.todo = @ \ {c}]
               \/ at' = [at EXCEPT !.todo = @ \ {c}, !.changed = TRUE]
            /\ at.pc = "add" /\ driver' = driver
        BY <2>2, <2>6, Zenon DEF VfioAdd, Working
      <3>2. at'.pc = "add" /\ at'.set = at.set
        BY <2>1, <3>1 DEF Calls
      <3> QED BY <3>1, <3>2 DEF BindOK, AddOK, Safe
    <2>7. ASSUME NEW c \in Addresses, VfioRemove(c) PROVE at'.pc \notin {"bind", "add"}
      <3>1. at' = [at EXCEPT !.todo = @ \ {c}] /\ at.pc = "remove"
        BY <2>2, <2>7 DEF VfioRemove, Working
      <3> QED BY <2>1, <3>1 DEF Calls
    <2>8. ~(Record \/ Forget)
      BY <2>2 DEF Record, Forget
    <2> QED BY <1>2, <1>4, <2>3, <2>4, <2>5, <2>6, <2>7, <2>8 DEF InCall
  <1>5. Aside => at' = at
    BY AsideStep
  <1>6. Locks => at'.pc = "next"
    BY LockStep
  <1>7. Turns => at'.pc \notin {"bind", "add"}
    BY TurnStep
  <1>8. Crash => at'.pc = "next"
    BY DEF Crash, NoFrame
  <1> QED BY <1>2, <1>3, <1>4, <1>5, <1>6, <1>7, <1>8, Kinds

LEMMA QuarantineStep ==
    ASSUME TypeOK, TypeOK', CallOK, BoundOK, GroupQuarantined, Next
    PROVE  GroupQuarantined'
  <1> SUFFICES ASSUME NEW v \in VMs, NEW a \in held'[v] \ HotPlug,
                      NEW b \in Group[a] \ HotPlug
               PROVE  driver'[b] # "host"
    BY DEF GroupQuarantined
  <1>1. a \in Addresses /\ b \in Addresses \ HotPlug
    BY ConstantsAssumption DEF ConstantsAssumption, TypeOK
  <1>2. driver[b] # "host"
    BY HeldStep DEF GroupQuarantined, BoundOK, CallOK, Safe
  <1> QED BY <1>1, <1>2, DriverStep

---------------------------------------------------------------------------
(* The marks.                                                              *)

LEMMA MarksStep ==
    ASSUME TypeOK, LoopOK, CallOK, MarksOK, Next
    PROVE  MarksOK'
  <1>1. CASE Aside
    BY <1>1, AsideStep DEF MarksOK
  <1>2. CASE Locks
    BY <1>2, LockStep DEF MarksOK
  <1>3. CASE Turns
    BY <1>3, TurnStep DEF MarksOK
  <1>4. CASE Crash
    BY <1>4 DEF Crash, MarksOK
  <1>5. CASE Record
    BY <1>5 DEF Record, Working, CallOK, MarksOK
  <1>6. CASE Forget
    BY <1>6 DEF Forget, Working, Marked, CallOK, MarksOK
  <1>7. CASE Preflight \/ Compare
    BY <1>7 DEF Preflight, Compare, MarksOK
  <1>8. ASSUME NEW b \in Addresses, BindVfio(b) \/ VfioAdd(b) \/ VfioRemove(b)
        PROVE  MarksOK'
    BY <1>8 DEF BindVfio, VfioAdd, VfioRemove, MarksOK
  <1> QED BY <1>1, <1>2, <1>3, <1>4, <1>5, <1>6, <1>7, <1>8, Kinds DEF InCall

---------------------------------------------------------------------------

LEMMA StutterIInv == ASSUME IInv, UNCHANGED vars PROVE IInv'
  BY DEF IInv, vars, TypeOK, FixedOK, LoopOK, CallOK, BoundOK, MarksOK, Safe,
         GroupQuarantined

LEMMA NextIInv == ASSUME IInv, Next PROVE IInv'
  <1> USE DEF IInv
  <1>1. TypeOK' /\ FixedOK'
    BY TypeStep, FixedStep
  <1>2. LoopOK' /\ CallOK'
    <2>1. CASE Aside
      BY <2>1, AsideStep DEF LoopOK, CallOK
    <2>2. CASE Locks
      BY <2>2, LockStep DEF CallOK
    <2>3. CASE Turns
      BY <2>3, TurnStep
    <2>4. CASE InCall
      BY <2>4, CallStep
    <2>5. CASE Crash
      BY <2>5 DEF Crash, LoopOK, CallOK, NoOp, NoFrame
    <2> QED BY <2>1, <2>2, <2>3, <2>4, <2>5, Kinds
  <1>3. BoundOK'
    <2>1. BindOK' /\ AddOK'
      BY BindStep DEF BoundOK, BindOK, AddOK
    <2> QED BY <2>1, ArgsStep DEF BoundOK, BindOK, AddOK, Safe
  <1>4. GroupQuarantined'
    BY <1>1, QuarantineStep
  <1>5. MarksOK'
    BY MarksStep
  <1> QED BY <1>1, <1>2, <1>3, <1>4, <1>5

\* The invariant of the PCI half: the types, what a request and its call may
\* be, that everything on its way to a VM is quarantined already, and that an
\* acknowledged mark is in memory and on disk.
THEOREM Invariance == Spec => []IInv
  <1> QED BY InitIInv, NextIInv, StutterIInv, PTL DEF Spec

\* Type correctness of the PCI half of the daemon and of its environment.
THEOREM TypeCorrect == Spec => []TypeOK
  <1>1. IInv => TypeOK
    BY DEF IInv
  <1> QED BY <1>1, Invariance, PTL

\* bind_vfio over the IOMMU group, in attach_one_pci and in vmm_args: no VM
\* ever has a fixed device of whose group another fixed member has a host
\* driver.
THEOREM Quarantined == Spec => []GroupQuarantined
  <1>1. IInv => GroupQuarantined
    BY DEF IInv
  <1> QED BY <1>1, Invariance, PTL

\* No rule takes along a device that another rule, or the same one, routes.
OneRouted == \A a \in Addresses : (Rule[a] # None /\ Rule[a].addAll) =>
                \A b \in Group[a] \ {a} : Rule[b] = None

\* attach_pci, resume_pci and the marks: where no addAll rule takes a routed
\* device along, a device whose permanent detach was acknowledged is not given
\* to a running VM again, through failed saves, crashes and reconciles.
THEOREM StaysDetached == ASSUME OneRouted PROVE Spec => PciStaysDetached
  <1>1. ASSUME IInv, [Next]_vars
        PROVE  [\A v \in VMs, a \in Addresses : Adds(v, a) => a \notin promised]_vars
    <2> SUFFICES ASSUME Next, NEW v \in VMs, NEW a \in Addresses, Adds(v, a)
                 PROVE  a \notin promised
      BY <1>1
    <2>1. at.pc = "add" /\ a \in at.todo
      <3>1. TypeOK /\ up[v]
        BY <1>1 DEF IInv, Adds
      <3> QED BY <3>1, HeldStep DEF Adds
    <2>2. /\ at.dev \notin promised /\ Rule[at.dev] # None /\ at.dev \in Addresses
          /\ a = at.dev \/ (Rule[at.dev].addAll /\ a \in Group[at.dev])
      BY <1>1, <2>1, CallTyped DEF IInv, CallOK, TypeOK, Calls
    <2>3. a # at.dev => Rule[a] = None
      BY <2>2, OneRouted DEF OneRouted
    <2> QED BY <1>1, <2>2, <2>3 DEF IInv, MarksOK
  <1> QED BY <1>1, Invariance, PTL DEF Spec, PciStaysDetached

---------------------------------------------------------------------------
(* The announcements.                                                      *)

\* VFIO gives a device to one VM only, and to a running one.
HeldApart == \A v, w \in VMs : v # w => held[v] \cap held[w] = {}
DownOK == \A v \in VMs : ~up[v] => held[v] = {}

\* What the listeners were told of is in its VM, whole and on record.
ToldOK == \A a \in Addresses : told[a] # None =>
             \A b \in Passed(a) : b \in held[told[a]] /\ pciVms[b] = told[a]

\* The device at b is part of nothing announced with another VM than v.
Free(b, v) == \A a \in Addresses : told[a] \notin {None, v} => b \notin Passed(a)

\* An attach between its preflight and its records: it finds what was announced
\* as announced, and what the VM had, or has been given, was no other VM's.
NewsOK ==
    /\ at.pc \in {"bind", "add"} =>
        /\ told[at.dev] = at.vm => at.set \subseteq at.live /\ at.set \subseteq Passed(at.dev)
        /\ \A b \in at.live : Free(b, at.vm)
    /\ at.pc = "add" =>
        /\ at.changed => told[at.dev] # at.vm
        /\ \A b \in at.set \ at.todo : Free(b, at.vm)

NewsInv == IInv /\ HeldApart /\ DownOK /\ ToldOK /\ NewsOK

LEMMA InGroup == ASSUME NEW a PROVE Passed(a) \subseteq {a} \cup Group[a]
  BY DEF Passed, Quarantine, IommuGroup

LEMMA PassedKept ==
    ASSUME NEW a, NEW c, present' \in {present, present \cup {c}, present \ {c}},
           present' = present \/ c \notin {a} \cup Group[a]
    PROVE  Passed(a)' = Passed(a)
  <1>1. CASE present' = present
    BY <1>1 DEF Passed, Quarantine, IommuGroup
  <1>2. CASE c \notin {a} \cup Group[a]
    <2>1. IommuGroup(a)' = IommuGroup(a)
      BY <1>2 DEF IommuGroup
    <2> QED BY <2>1 DEF Passed, Quarantine
  <1> QED BY <1>1, <1>2

\* What stays announced has no part in what was untold.
LEMMA StillTold ==
    ASSUME NEW S, told' = Untold(S), NEW a \in Addresses, told'[a] # None
    PROVE  told'[a] = told[a] /\ S \cap ({a} \cup Group[a]) = {} /\ S \cap Passed(a) = {}
  BY InGroup DEF Untold

\* What stays announced has lost nothing, in its VM or on record.
Lasts(a) == /\ told'[a] = told[a] /\ Passed(a)' = Passed(a)
            /\ \A b \in Passed(a) : /\ b \in held[told[a]] => b \in held'[told[a]]
                                    /\ pciVms'[b] = pciVms[b]

LEMMA LastsWhole ==
    ASSUME NEW a, UNCHANGED <<present, held, told, pciVms>> PROVE Lasts(a)
  BY PassedKept DEF Lasts

LEMMA ToldHost ==
    ASSUME TypeOK, DownOK, HostNext, NEW a \in Addresses, told'[a] # None
    PROVE  Lasts(a)
  <1> USE DEF daemonVars
  <1>1. told[a] \in VMs \cup {None} /\ held \in [VMs -> SUBSET Addresses]
    BY DEF TypeOK
  <1>2. ASSUME NEW c \in Addresses, Plug(c) PROVE Lasts(a)
    <2>1. told' = Untold({c}) /\ present' = present \cup {c} /\ UNCHANGED <<held, pciVms>>
      BY <1>2 DEF Plug
    <2>2. told'[a] = told[a] /\ c \notin {a} \cup Group[a]
      BY <2>1, StillTold
    <2> QED BY <2>1, <2>2, PassedKept DEF Lasts
  <1>3. ASSUME NEW c \in Addresses, Unplug(c) PROVE Lasts(a)
    <2>1. /\ told' = Untold({c}) /\ present' = present \ {c} /\ pciVms' = pciVms
          /\ held' = [v \in VMs |-> held[v] \ {c}]
      BY <1>3 DEF Unplug
    <2>2. told'[a] = told[a] /\ c \notin {a} \cup Group[a] /\ c \notin Passed(a)
      BY <2>1, StillTold
    <2>3. told[a] \in VMs
      BY <1>1, <2>2
    <2> QED BY <1>1, <2>1, <2>2, <2>3, PassedKept DEF Lasts
  <1>4. ASSUME NEW v \in VMs, VmStart(v) PROVE Lasts(a)
    <2>1. /\ UNCHANGED <<present, told, pciVms>> /\ held[v] = {}
          /\ held' = held \/ held' = [held EXCEPT ![v] = args[v]]
      BY <1>4, Zenon DEF VmStart, DownOK
    <2>2. told[a] \in VMs
      BY <1>1, <2>1
    <2> QED BY <1>1, <2>1, <2>2, PassedKept DEF Lasts
  <1>5. ASSUME NEW v \in VMs, NEW S, told' = Untold(S), UNCHANGED <<present, pciVms>>,
               \A w \in VMs : held[w] \ held'[w] \subseteq S
        PROVE  Lasts(a)
    <2>1. told'[a] = told[a] /\ S \cap Passed(a) = {} /\ told[a] \in VMs
      BY <1>1, <1>5, StillTold
    <2> QED BY <1>5, <2>1, PassedKept DEF Lasts
  <1>6. ASSUME NEW v \in VMs, VmStop(v) PROVE Lasts(a)
    <2>1. /\ told' = Untold(held[v]) /\ UNCHANGED <<present, pciVms>>
          /\ held' = [held EXCEPT ![v] = {}]
      BY <1>6 DEF VmStop
    <2>2. \A w \in VMs : held[w] \ held'[w] \subseteq held[v]
      BY <1>1, <2>1
    <2> QED BY <1>5, <2>1, <2>2
  <1>7. ASSUME NEW v \in VMs, NEW c \in Addresses, LetGo(v, c) PROVE Lasts(a)
    <2>1. /\ told' = Untold({c}) /\ UNCHANGED <<present, pciVms>>
          /\ held' = [held EXCEPT ![v] = @ \ {c}]
      BY <1>7 DEF LetGo
    <2>2. \A w \in VMs : held[w] \ held'[w] \subseteq {c}
      BY <1>1, <2>1
    <2> QED BY <1>5, <2>1, <2>2
  <1>8. ASSUME NEW v \in VMs, NEW r \in BOOLEAN, VmmArgs(v, r) PROVE Lasts(a)
    BY <1>8, LastsWhole DEF VmmArgs
  <1> QED BY <1>2, <1>3, <1>4, <1>6, <1>7, <1>8 DEF HostNext

LEMMA ToldStep ==
    ASSUME TypeOK, DownOK, Next, ~Record, NEW a \in Addresses, told'[a] # None
    PROVE  Lasts(a)
  <1>1. CASE HostNext
    BY <1>1, ToldHost
  <1>2. CASE ApiNext \/ OpDone \/ ReconcileResume
    BY <1>2, LastsWhole DEF ApiNext, ApiSelect, ApiPower, Begin, OpDone, ReconcileResume, hostVars
  <1>3. CASE ReconcileStart \/ ObserveFails \/ ObserveDone
    BY <1>3, LastsWhole DEF ReconcileStart, ObserveFails, ObserveDone, Observing, hostVars
  <1>4. CASE Turns \/ Preflight \/ Compare
    BY <1>4, LastsWhole DEF Turns, Skip, BeginAttach, BeginDetach, Turn, Preflight, Compare,
                            Working, hostVars
  <1>5. ASSUME NEW c \in Addresses, BindVfio(c) PROVE Lasts(a)
    BY <1>5, LastsWhole DEF BindVfio, Working
  <1>6. ASSUME NEW c \in Addresses, VfioAdd(c) PROVE Lasts(a)
    <2>1. UNCHANGED <<present, told, pciVms>> /\ (held' = held \/ held' = Added(c))
      BY <1>6 DEF VfioAdd, Working
    <2>2. told[a] \in VMs
      BY <2>1 DEF TypeOK
    <2>3. held[told[a]] \subseteq held'[told[a]]
      BY <2>1, <2>2 DEF Added, TypeOK
    <2> QED BY <2>1, <2>3, PassedKept DEF Lasts
  <1>7. ASSUME NEW c \in Addresses, VfioRemove(c) PROVE Lasts(a)
    <2>1. CASE UNCHANGED <<held, told>>
      BY <1>7, <2>1, LastsWhole DEF VfioRemove
    <2>2. CASE told' = Untold({c}) /\ held' = [held EXCEPT ![at.vm] = @ \ {c}]
      <3>1. told'[a] = told[a] /\ c \notin Passed(a) /\ told[a] \in VMs
        BY <2>2, StillTold DEF TypeOK
      <3>2. \A b \in held[told[a]] : b = c \/ b \in held'[told[a]]
        BY <2>2, <3>1 DEF TypeOK
      <3>3. UNCHANGED <<present, pciVms>>
        BY <1>7 DEF VfioRemove
      <3> QED BY <3>1, <3>2, <3>3, PassedKept DEF Lasts
    <2> QED BY <1>7, <2>1, <2>2 DEF VfioRemove
  <1>8. CASE Forget
    <2>1. /\ told' = Untold(at.set) /\ UNCHANGED <<present, held>>
          /\ pciVms' = [b \in Addresses |-> IF b \in at.set THEN None ELSE pciVms[b]]
      BY <1>8 DEF Forget, Working
    <2>2. told'[a] = told[a] /\ at.set \cap Passed(a) = {}
      BY <2>1, StillTold
    <2> QED BY <2>1, <2>2, PassedKept, GroupTyped DEF Lasts
  <1>9. ASSUME NEW c \in Addresses, ObserveGone(c) PROVE Lasts(a)
    <2>1. /\ told' = Untold({c}) /\ UNCHANGED <<present, held>>
          /\ pciVms' = [pciVms EXCEPT ![c] = None]
      BY <1>9 DEF ObserveGone, Observing, hostVars
    <2>2. told'[a] = told[a] /\ c \notin Passed(a)
      BY <2>1, StillTold
    <2>3. \A b \in Passed(a) : pciVms'[b] = pciVms[b]
      BY <2>1, <2>2, GroupTyped DEF TypeOK
    <2> QED BY <2>1, <2>2, <2>3, PassedKept DEF Lasts
  <1>10. ~Crash
    BY DEF Crash
  <1> QED BY <1>1, <1>2, <1>3, <1>4, <1>5, <1>6, <1>7, <1>8, <1>9, <1>10
          DEF Next, OpNext, RecNext, Turns

\* VFIO: a VM gets what no other VM has.
LEMMA ApartStep ==
    ASSUME TypeOK, HeldApart, DownOK, Next PROVE HeldApart' /\ DownOK'
  <1> DEFINE Gives(v, S) == /\ held' = [held EXCEPT ![v] = @ \cup S]
                            /\ up'[v] /\ \A b \in S, w \in VMs \ {v} : b \notin held[w]
             Less == \A v \in VMs : held'[v] \subseteq held[v]
                                    /\ (~up'[v] => ~up[v] \/ held'[v] = {})
             Keeps == UNCHANGED <<held, up>>
  <1>1. HostNext => Less \/ \E v \in VMs : \E S : Gives(v, S) /\ \A w \in VMs : up[w] => up'[w]
    <2>1. ASSUME NEW c \in Addresses, Plug(c) \/ Unplug(c) PROVE Less
      BY <2>1 DEF Plug, Unplug, TypeOK
    <2>2. ASSUME NEW v \in VMs, VmStop(v) PROVE Less
      BY <2>2 DEF VmStop, TypeOK
    <2>3. ASSUME NEW v \in VMs, NEW c \in Addresses, LetGo(v, c) PROVE Less
      BY <2>3 DEF LetGo, TypeOK
    <2>4. ASSUME NEW v \in VMs, NEW r \in BOOLEAN, VmmArgs(v, r) PROVE Less
      BY <2>4 DEF VmmArgs
    <2>5. ASSUME NEW v \in VMs, VmStart(v)
          PROVE  Less \/ (Gives(v, args[v]) /\ \A w \in VMs : up[w] => up'[w])
      <3>1. CASE UNCHANGED <<up, held>>
        BY <3>1
      <3>2. CASE /\ \A b \in args[v] : Available(v, b)
                 /\ up' = [up EXCEPT ![v] = TRUE] /\ held' = [held EXCEPT ![v] = args[v]]
        <4>1. held[v] = {}
          BY <2>5 DEF VmStart, DownOK
        <4>2. held' = [held EXCEPT ![v] = @ \cup args[v]]
          BY <3>2, <4>1
        <4>3. up'[v] /\ \A w \in VMs : up[w] => up'[w]
          BY <3>2 DEF TypeOK
        <4>4. \A b \in args[v], w \in VMs \ {v} : b \notin held[w]
          BY <3>2 DEF Available
        <4> QED BY <4>2, <4>3, <4>4
      <3> QED BY <2>5, <3>1, <3>2, Zenon DEF VmStart
    <2> HIDE DEF Less, Gives
    <2> QED BY <2>1, <2>2, <2>3, <2>4, <2>5 DEF HostNext
  <1>2. ApiNext \/ OpDone \/ RecNext \/ Crash => Keeps
    BY DEF ApiNext, ApiSelect, ApiPower, Begin, OpDone, RecNext, ReconcileStart,
           ObserveFails, ObserveGone, ObserveDone, Observing, ReconcileResume, Crash, hostVars
  <1>3. Turns \/ Preflight \/ Compare \/ Record \/ Forget => Keeps
    BY DEF Turns, Skip, BeginAttach, BeginDetach, Turn, Preflight, Compare, Record,
           Forget, Working, hostVars
  <1>4. ASSUME NEW b \in Addresses, BindVfio(b) PROVE Keeps
    BY <1>4 DEF BindVfio, Working
  <1>5. ASSUME NEW b \in Addresses, VfioAdd(b)
        PROVE  Keeps \/ \E v \in VMs : \E S : Gives(v, S) /\ \A w \in VMs : up[w] => up'[w]
    <2>1. at \in Calls /\ at.vm \in VMs /\ up' = up
      BY <1>5, CallTyped DEF VfioAdd, Working, TypeOK, Calls
    <2>2. \/ held' = held
          \/ up[at.vm] /\ held' = Added(b) /\ (b \in held[at.vm] \/ Available(at.vm, b))
      BY <1>5 DEF VfioAdd
    <2>3. CASE up[at.vm] /\ held' = Added(b) /\ (b \in held[at.vm] \/ Available(at.vm, b))
      <3>1. \A w \in VMs \ {at.vm} : b \notin held[w]
        BY <2>1, <2>3 DEF HeldApart, Available
      <3>2. Gives(at.vm, {b})
        BY <2>1, <2>3, <3>1 DEF Added
      <3> QED BY <2>1, <3>2
    <2> QED BY <2>1, <2>2, <2>3
  <1>6. ASSUME NEW b \in Addresses, VfioRemove(b) PROVE Less
    <2>1. up' = up /\ (held' = held \/ held' = [held EXCEPT ![at.vm] = @ \ {b}])
      BY <1>6 DEF VfioRemove
    <2> QED BY <2>1 DEF TypeOK
  <1>7. Less => HeldApart' /\ DownOK'
    BY DEF HeldApart, DownOK
  <1>8. ASSUME NEW v \in VMs, NEW S, Gives(v, S), \A w \in VMs : up[w] => up'[w]
        PROVE  HeldApart' /\ DownOK'
    <2>1. \A w \in VMs \ {v} : held'[w] = held[w]
      BY <1>8 DEF TypeOK
    <2>2. held'[v] = held[v] \cup S
      BY <1>8 DEF TypeOK
    <2>3. \A w \in VMs \ {v} : held'[v] \cap held'[w] = {}
      BY <1>8, <2>1, <2>2 DEF HeldApart
    <2> QED BY <1>8, <2>1, <2>3 DEF HeldApart, DownOK
  <1>9. Keeps => HeldApart' /\ DownOK'
    BY DEF HeldApart, DownOK
  <1> HIDE DEF Less, Gives, Keeps
  <1> QED BY <1>1, <1>2, <1>3, <1>4, <1>5, <1>6, <1>7, <1>8, <1>9 DEF Next, OpNext, Turns

LEMMA ToldOKStep ==
    ASSUME TypeOK, DownOK, ToldOK, NewsOK, Next PROVE ToldOK'
  <1>1. CASE ~Record
    <2> SUFFICES ASSUME NEW a \in Addresses, told'[a] # None, NEW b \in Passed(a)'
                 PROVE  b \in held'[told'[a]] /\ pciVms'[b] = told'[a]
      BY DEF ToldOK
    <2> QED BY <1>1, ToldStep DEF ToldOK, Lasts
  <1>2. CASE Record
    <2>1. /\ at.pc = "add" /\ at.todo = {} /\ UNCHANGED <<present, held>>
          /\ pciVms' = [b \in Addresses |-> IF b \in at.set THEN at.vm ELSE pciVms[b]]
          /\ \/ told' = told
             \/ /\ told' = [told EXCEPT ![at.dev] = at.vm]
                /\ Passed(at.dev) \subseteq at.set /\ at.set \subseteq held[at.vm]
      BY <1>2 DEF Record, Working
    <2>2. \A a \in Addresses : Passed(a)' = Passed(a) /\ Passed(a) \subseteq Addresses
      BY <2>1, PassedKept, GroupTyped
    <2> SUFFICES ASSUME NEW a \in Addresses, told'[a] # None, NEW b \in Passed(a)
                 PROVE  b \in held'[told'[a]] /\ pciVms'[b] = told'[a]
      BY <2>2 DEF ToldOK
    <2>3. CASE told'[a] = told[a]
      <3>1. b \in held[told[a]] /\ pciVms[b] = told[a]
        BY <2>3 DEF ToldOK
      <3>2. b \in at.set => told[a] = at.vm
        BY <2>1, <2>3 DEF NewsOK, Free
      <3> QED BY <2>1, <2>2, <2>3, <3>1, <3>2
    <2>4. CASE told'[a] # told[a]
      <3>1. /\ a = at.dev /\ told'[a] = at.vm
            /\ Passed(a) \subseteq at.set /\ at.set \subseteq held[at.vm]
        BY <2>1, <2>4 DEF TypeOK
      <3> QED BY <2>1, <2>2, <3>1
    <2> QED BY <2>3, <2>4
  <1> QED BY <1>1, <1>2

LEMMA NewsStep ==
    ASSUME TypeOK, FixedOK, LoopOK, CallOK, MarksOK,
           HeldApart, DownOK, ToldOK, NewsOK, Next
    PROVE  NewsOK'
  <1> DEFINE Note(a, v) == told[a] = v => \A b \in Passed(a) : b \in held[v] /\ pciVms[b] = v
  <1>0. None \notin VMs /\ \A a \in Addresses, v \in VMs : Note(a, v)
    BY ConstantsAssumption DEF ConstantsAssumption, ToldOK
  <1> HIDE DEF Note
  <1>1. CASE at'.pc \notin {"bind", "add"}
    BY <1>1 DEF NewsOK
  <1>2. CASE at' = at /\ at.pc \in {"bind", "add"}
    <2>1. at \in Calls /\ at.dev \in Addresses /\ at.vm \in VMs /\ ~Record
      <3>1. at \in Calls
        BY <1>2, CallTyped DEF TypeOK
      <3>2. Record => at'.pc = "next"
        BY FailedTyped DEF Record, DeviceDone, NoFrame, TypeOK
      <3> QED BY <1>2, <3>1, <3>2 DEF Calls
    <2>2. ASSUME NEW b, Free(b, at.vm) PROVE Free(b, at.vm)'
      BY <1>2, <2>1, <2>2, ToldStep DEF Free, Lasts
    <2>3. told'[at.dev] = at.vm => told[at.dev] = at.vm /\ Passed(at.dev)' = Passed(at.dev)
      <3>1. \A a \in Addresses, v \in VMs :
               told'[a] = v => told[a] = v /\ Passed(a)' = Passed(a)
        BY <1>0, <2>1, ToldStep DEF Lasts
      <3>2. \A d \in Addresses : at.dev = d => (Passed(at.dev)' = Passed(d)')
        BY <1>2
      <3> QED BY <2>1, <3>1, <3>2
    <2> QED BY <1>2, <2>2, <2>3 DEF NewsOK
  <1>3. CASE InCall
    <2>1. at \in Calls /\ at.dev \in Addresses /\ at.vm \in VMs
      BY <1>3, InCallStep DEF Calls
    <2> SUFFICES ASSUME at' # NoFrame PROVE NewsOK'
      BY <1>1 DEF NoFrame
    <2>2. ~DeviceFailed(op, at.dev) /\ ~DeviceDone
      BY FailedTyped DEF TypeOK, DeviceDone
    <2>3. ASSUME UNCHANGED <<present, told>>, at'.vm = at.vm, NEW b, Free(b, at.vm)
          PROVE  Free(b, at.vm)'
      BY <2>3, PassedKept DEF Free
    <2>4. CASE Preflight
      <3>1. /\ at' = [at EXCEPT !.pc = "bind", !.live = held[at.vm],
                                !.todo = Quarantine(at.dev), !.set = Passed(at.dev)]
            /\ UNCHANGED <<present, told>>
        BY <2>2, <2>4 DEF Preflight, Working
      <3>2. /\ at'.pc = "bind" /\ at'.set = Passed(at.dev) /\ at'.live = held[at.vm]
            /\ at'.dev = at.dev /\ at'.vm = at.vm
        BY <2>1, <3>1 DEF Calls
      <3>3. told[at.dev] = at.vm => Passed(at.dev) \subseteq held[at.vm]
        BY <1>0, <2>1 DEF Note
      <3>4. ASSUME NEW b \in held[at.vm] PROVE Free(b, at.vm)
        BY <1>0, <2>1, <3>4 DEF Free, ToldOK, HeldApart, TypeOK
      <3>5. Passed(at.dev)' = Passed(at.dev)
        <4>1. \A d \in Addresses : Passed(d)' = Passed(d)
          BY <3>1, PassedKept
        <4> QED BY <2>1, <3>2, <4>1
      <3>6. (told[at.dev] = at.vm)' => at'.set \subseteq at'.live
                                          /\ at'.set \subseteq Passed(at.dev)'
        BY <3>1, <3>2, <3>3, <3>5
      <3>7. \A b \in at'.live : Free(b, at.vm)'
        BY <2>3, <3>1, <3>2, <3>4
      <3> QED BY <3>2, <3>6, <3>7 DEF NewsOK
    <2>5. ASSUME UNCHANGED <<present, told>>, at'.dev = at.dev, at'.vm = at.vm,
                 at'.set = at.set, at'.live = at.live, at.pc \in {"bind", "add"}
          PROVE  /\ (told[at.dev] = at.vm)' => at'.set \subseteq at'.live
                                              /\ at'.set \subseteq Passed(at.dev)'
                 /\ \A b \in at'.live : Free(b, at.vm)'
      <3>1. Passed(at.dev)' = Passed(at.dev)
        <4>1. \A d \in Addresses : Passed(d)' = Passed(d)
          BY <2>5, PassedKept
        <4> QED BY <2>1, <2>5, <4>1
      <3>2. \A b \in at.live : Free(b, at.vm)'
        BY <2>3, <2>5 DEF NewsOK
      <3> QED BY <2>5, <3>1, <3>2 DEF NewsOK
    <2>6. ASSUME NEW c \in Addresses, BindVfio(c) PROVE NewsOK'
      <3>1. /\ at' = [at EXCEPT !.todo = @ \ {c}] /\ at.pc = "bind"
            /\ UNCHANGED <<present, told>>
        BY <2>2, <2>6 DEF BindVfio, Working
      <3>2. /\ at'.pc = "bind" /\ at'.dev = at.dev /\ at'.vm = at.vm
            /\ at'.set = at.set /\ at'.live = at.live
        BY <2>1, <3>1 DEF Calls
      <3> QED BY <2>5, <3>1, <3>2 DEF NewsOK
    <2>7. CASE Compare
      <3>1. /\ at' = [at EXCEPT !.pc = "add", !.todo = at.set, !.changed = IsNews]
            /\ at.pc = "bind" /\ UNCHANGED <<present, told>>
        BY <2>7 DEF Compare, Working
      <3>2. /\ at'.pc = "add" /\ at'.dev = at.dev /\ at'.vm = at.vm /\ at'.todo = at.set
            /\ at'.set = at.set /\ at'.live = at.live /\ at'.changed = IsNews
        BY <2>1, <3>1 DEF Calls
      <3>3. IsNews => told[at.dev] # at.vm
        <4>1. told[at.dev] = at.vm => at.set \subseteq Passed(at.dev)
          BY <3>1 DEF NewsOK
        <4> QED BY <1>0, <2>1, <4>1 DEF IsNews, Note
      <3> QED BY <2>5, <3>1, <3>2, <3>3 DEF NewsOK
    <2>8. ASSUME NEW c \in Addresses, VfioAdd(c) PROVE NewsOK'
      <3>1. /\ at.pc = "add" /\ c \in at.todo /\ UNCHANGED <<present, told>>
            /\ \/ Live(c) /\ at' = [at EXCEPT !.todo = @ \ {c}]
               \/ /\ ~Live(c) /\ (c \in held[at.vm] \/ Available(at.vm, c))
                  /\ at' = [at EXCEPT !.todo = @ \ {c}, !.changed = TRUE]
        BY <2>2, <2>8, Zenon DEF VfioAdd, Working, IsLeast
      <3>2. /\ at'.pc = "add" /\ at'.dev = at.dev /\ at'.vm = at.vm /\ at'.todo = at.todo \ {c}
            /\ at'.set = at.set /\ at'.live = at.live
            /\ at'.changed = at.changed \/ ~Live(c)
        BY <2>1, <3>1 DEF Calls
      <3>3. Free(c, at.vm)
        <4>1. CASE Live(c)
          BY <3>1, <4>1 DEF NewsOK, Live
        <4>2. CASE c \in held[at.vm] \/ Available(at.vm, c)
          <5>1. \A w \in VMs \ {at.vm} : c \notin held[w]
            BY <2>1, <4>2 DEF HeldApart, Available
          <5> QED BY <2>1, <5>1 DEF Free, ToldOK, TypeOK
        <4> QED BY <3>1, <4>1, <4>2
      <3>4. \A b \in at'.set \ at'.todo : Free(b, at.vm)'
        <4>1. \A b \in at'.set \ at'.todo : Free(b, at.vm)
          BY <3>1, <3>2, <3>3 DEF NewsOK
        <4> QED BY <2>3, <3>1, <3>2, <4>1
      <3>5. at'.changed => (told[at.dev] # at.vm)'
        <4>1. c \in at.set
          BY <3>1 DEF CallOK
        <4>2. ~Live(c) => told[at.dev] # at.vm
          BY <3>1, <4>1 DEF NewsOK, Live
        <4>3. at.changed => told[at.dev] # at.vm
          BY <3>1 DEF NewsOK
        <4> QED BY <3>1, <3>2, <4>2, <4>3
      <3> QED BY <2>5, <3>1, <3>2, <3>4, <3>5 DEF NewsOK
    <2>9. ASSUME NEW c \in Addresses, VfioRemove(c) PROVE NewsOK'
      <3>1. at' = [at EXCEPT !.todo = @ \ {c}] /\ at.pc = "remove"
        BY <2>2, <2>9 DEF VfioRemove, Working
      <3> QED BY <1>1, <2>1, <3>1 DEF Calls
    <2>10. ~(Record \/ Forget)
      BY <2>2 DEF Record, Forget
    <2> QED BY <1>3, <2>4, <2>6, <2>7, <2>8, <2>9, <2>10 DEF InCall
  <1>4. Aside => at' = at
    BY AsideStep
  <1>5. Locks => at'.pc = "next"
    BY LockStep
  <1>6. Turns => at'.pc \notin {"bind", "add"}
    BY TurnStep
  <1>7. Crash => at'.pc = "next"
    BY DEF Crash, NoFrame
  <1> QED BY <1>1, <1>2, <1>3, <1>4, <1>5, <1>6, <1>7, Kinds

LEMMA InitNews == Init => NewsInv
  <1>1. Init => HeldApart /\ DownOK /\ ToldOK /\ NewsOK
    BY DEF Init, HeldApart, DownOK, ToldOK, NewsOK, NoFrame
  <1> QED BY <1>1, InitIInv DEF NewsInv

LEMMA NextNews == ASSUME NewsInv, Next PROVE NewsInv'
  BY NextIInv, ApartStep, ToldOKStep, NewsStep DEF NewsInv, IInv

LEMMA StutterNews == ASSUME NewsInv, UNCHANGED vars PROVE NewsInv'
  <1>1. HeldApart' /\ DownOK'
    BY DEF NewsInv, HeldApart, DownOK, vars
  <1>2. \A a : Passed(a)' = Passed(a)
    BY DEF Passed, Quarantine, IommuGroup, vars
  <1>3. ToldOK'
    BY <1>2 DEF NewsInv, ToldOK, vars
  <1>4. NewsOK'
    BY <1>2 DEF NewsInv, NewsOK, Free, vars
  <1> QED BY <1>1, <1>3, <1>4, StutterIInv DEF NewsInv

\* vfio_list before the binds, the records and `changed' in attach_one_pci: a
\* pci_attached event is never of a device that was announced with this VM
\* before and has been there, whole, ever since.
THEOREM NewsIsNew == Spec => PciNews
  <1>1. Spec => []NewsInv
    BY InitNews, NextNews, StutterNews, PTL DEF Spec
  <1>2. NewsInv => [Record /\ NoFault /\ at.changed => told[at.dev] # at.vm]_vars
    BY DEF NewsInv, NewsOK, Record, Working
  <1> QED BY <1>1, <1>2, PTL DEF PciNews

---------------------------------------------------------------------------
(* The pass of the reconcile task.                                         *)

\* A device that comes and goes takes no fixed device along.
WholeGroups == \A a \in HotPlug : (Rule[a] # None /\ Rule[a].addAll) => Group[a] \subseteq HotPlug

\* The device at a and what goes with it for good, and their records.
Part(a) == {a} \cup IF Rule[a].addAll THEN Group[a] \ HotPlug ELSE {}
Settled(a) == a \in mem \/ \A b \in Part(a) : pciVms[b] = Rule[a].target

\* The request of the reconcile task resumes what a rule routes, for no VM in
\* particular, and the task waits for it.
PassOK ==
    op.by = "reconcile" =>
        /\ op.kind = "resume" /\ op.vm = None /\ rec.pc = "resume"
        /\ \A a \in op.scan : Rule[a] # None

\* Each of its calls is for the VM of the rule and touches all that goes along.
AimOK ==
    (op.by = "reconcile" /\ at.pc # "next") =>
        /\ at.vm = Rule[at.dev].target
        /\ at.pc \in {"bind", "add"} => Part(at.dev) \subseteq at.set

\* As long as nothing failed, and nothing was deferred, all but the device in
\* hand and those to come are settled.
QuietOK ==
    (op.by = "reconcile" /\ ~op.failed /\ ~deferred) =>
        \A a \in op.scan \ op.todo : Settled(a) \/ (at.pc # "next" /\ at.dev = a)

PassInv == IInv /\ PassOK /\ AimOK /\ QuietOK

LEMMA FailedNoted ==
    ASSUME op \in Ops, NEW o \in Ops, NEW a, DeviceFailed(o, a)
    PROVE  /\ at' = NoFrame /\ op'.by = o.by /\ op'.kind = o.kind /\ op'.vm = o.vm
           /\ op'.scan = o.scan /\ op'.todo = o.todo
           /\ op'.failed \/ deferred'
  BY DEF DeviceFailed, Ops

\* A call fails, ends with the records, or goes on.
GoesOn == /\ UNCHANGED <<op, deferred, pciVms, mem>>
          /\ at'.pc # "next" /\ at'.dev = at.dev /\ at'.vm = at.vm
          /\ \/ at.pc = "preflight" /\ at'.set = Passed(at.dev)
             \/ at.pc \in {"bind", "add"} /\ at'.set = at.set
             \/ at.pc = "remove" /\ at'.pc = "remove"

LEMMA InCallEnds ==
    ASSUME TypeOK, InCall
    PROVE  DeviceFailed(op, at.dev) \/ Record \/ Forget \/ GoesOn
  <1>1. at \in Calls
    BY InCallStep
  <1> SUFFICES ASSUME ~DeviceFailed(op, at.dev), ~Record, ~Forget PROVE GoesOn
    OBVIOUS
  <1>2. CASE Preflight
    <2>1. /\ at' = [at EXCEPT !.pc = "bind", !.live = held[at.vm],
                            !.todo = Quarantine(at.dev), !.set = Passed(at.dev)]
          /\ UNCHANGED <<op, deferred, pciVms, mem>> /\ at.pc = "preflight"
      BY <1>2 DEF Preflight, Working
    <2> QED BY <1>1, <2>1 DEF Calls, GoesOn
  <1>3. CASE Compare
    BY <1>1, <1>3 DEF Compare, Working, Calls, GoesOn
  <1>4. ASSUME NEW b \in Addresses, BindVfio(b) PROVE GoesOn
    <2>1. /\ at' = [at EXCEPT !.todo = @ \ {b}] /\ at.pc = "bind"
          /\ UNCHANGED <<op, deferred, pciVms, mem>>
      BY <1>4 DEF BindVfio, Working
    <2> QED BY <1>1, <2>1 DEF Calls, GoesOn
  <1>5. ASSUME NEW b \in Addresses, VfioAdd(b) PROVE GoesOn
    <2>1. /\ \/ at' = [at EXCEPT !.todo = @ \ {b}]
             \/ at' = [at EXCEPT !.todo = @ \ {b}, !.changed = TRUE]
          /\ at.pc = "add" /\ UNCHANGED <<op, deferred, pciVms, mem>>
      BY <1>5, Zenon DEF VfioAdd, Working
    <2> QED BY <1>1, <2>1 DEF Calls, GoesOn
  <1>6. ASSUME NEW b \in Addresses, VfioRemove(b) PROVE GoesOn
    <2>1. /\ at' = [at EXCEPT !.todo = @ \ {b}] /\ at.pc = "remove"
          /\ UNCHANGED <<op, deferred, pciVms, mem>>
      BY <1>6 DEF VfioRemove
    <2> QED BY <1>1, <2>1 DEF Calls, GoesOn
  <1> QED BY <1>2, <1>3, <1>4, <1>5, <1>6 DEF InCall

\* While the pass holds the lock only its own steps touch what it relies on.
LEMMA AsideKeeps ==
    ASSUME PassOK, op.by = "reconcile", Aside
    PROVE  UNCHANGED <<op, at, mem, pciVms, deferred, rec>>
  <1>1. UNCHANGED <<op, at, mem>>
    BY AsideStep
  <1>2. rec.pc = "resume"
    BY DEF PassOK
  <1> QED BY <1>1, <1>2 DEF Aside, HostNext, Plug, Unplug, VmStart, VmStop, LetGo, VmmArgs,
             ReconcileStart, ObserveFails, ObserveDone, ObserveGone, Observing, daemonVars

LEMMA PartPassed ==
    ASSUME FixedOK, WholeGroups, NEW a \in Addresses, Rule[a] # None
    PROVE  Part(a) \subseteq Passed(a) /\ Passed(a) \ HotPlug \subseteq Part(a)
  <1>1. a \in Quarantine(a)
    <2>1. Group[a] # {} => a \in Group[a]
      BY ConstantsAssumption DEF ConstantsAssumption
    <2>2. CASE IommuGroup(a) = {}
      BY <2>2 DEF Quarantine
    <2>3. CASE IommuGroup(a) # {}
      <3>1. a \in present /\ Group[a] # {}
        BY <2>3 DEF IommuGroup
      <3> QED BY <2>1, <2>3, <3>1 DEF Quarantine, IommuGroup
    <2> QED BY <2>2, <2>3
  <1>2. Quarantine(a) \subseteq {a} \cup Group[a]
    BY DEF Quarantine, IommuGroup
  <1>3. CASE ~Rule[a].addAll
    BY <1>3 DEF Part, Passed
  <1>4. CASE Rule[a].addAll
    <2>1. CASE a \in HotPlug
      BY <1>1, <1>2, <1>4, <2>1 DEF WholeGroups, Part, Passed
    <2>2. CASE a \notin HotPlug
      <3>1. Group[a] \ HotPlug \subseteq Quarantine(a)
        BY <2>2, ConstantsAssumption DEF FixedOK, ConstantsAssumption, Quarantine, IommuGroup
      <3> QED BY <1>1, <1>2, <1>4, <3>1 DEF Part, Passed
    <2> QED BY <2>1, <2>2
  <1> QED BY <1>3, <1>4

\* No two routed devices share a record.
LEMMA PartsApart ==
    ASSUME OneRouted, NEW a \in Addresses, Rule[a] # None,
           NEW d \in Addresses \ {a}, Rule[d] # None,
           NEW b \in Part(a)
    PROVE  b \notin IF Rule[d].addAll THEN {d} \cup Group[d] ELSE {d}
  <1>1. /\ \A x \in Addresses : Group[x] \subseteq Addresses
        /\ \A x \in Addresses : Group[x] # {} => x \in Group[x]
        /\ \A x \in Addresses : \A y \in Group[x] : Group[y] = Group[x]
    BY ConstantsAssumption DEF ConstantsAssumption
  <1>2. b # d
    BY DEF Part, OneRouted
  <1>3. Rule[d].addAll => b \notin Group[d]
    <2> SUFFICES ASSUME Rule[d].addAll, b \in Group[d] PROVE FALSE
      OBVIOUS
    <2>1. b # a
      BY <1>1 DEF OneRouted
    <2>2. b \in Group[a]
      BY <2>1 DEF Part
    <2>3. Group[d] = Group[a] /\ a \in Group[a]
      BY <1>1, <2>2
    <2> QED BY <2>3 DEF OneRouted
  <1> QED BY <1>2, <1>3

LEMMA PassOKStep ==
    ASSUME TypeOK, PassOK, Next PROVE PassOK'
  <1> SUFFICES ASSUME op'.by = "reconcile"
               PROVE  /\ op'.kind = "resume" /\ op'.vm = None /\ rec'.pc = "resume"
                      /\ \A a \in op'.scan : Rule[a] # None
    BY DEF PassOK
  <1>1. CASE Aside
    BY <1>1, AsideStep, AsideKeeps DEF PassOK
  <1>2. CASE Locks
    <2>1. ReconcileResume
      BY <1>2 DEF Locks, ApiNext, ApiSelect, ApiPower, Begin, OpDone, NoOp
    <2> QED BY <2>1 DEF ReconcileResume, Begin, NoRec, Scan
  <1>3. CASE Turns \/ InCall
    <2>1. /\ op'.by = op.by /\ op'.kind = op.kind /\ op'.vm = op.vm /\ op'.scan = op.scan
          /\ rec' = rec
      <3>1. CASE Turns
        <4> PICK a \in Addresses : Skip(a) \/ BeginAttach(a) \/ BeginDetach(a)
          BY <3>1 DEF Turns
        <4>1. /\ Popped(a) \in Ops /\ Popped(a).by = op.by /\ Popped(a).kind = op.kind
              /\ Popped(a).vm = op.vm /\ Popped(a).scan = op.scan
          BY PoppedTyped DEF Popped, TypeOK, Ops
        <4>2. op' = Popped(a) \/ DeviceFailed(Popped(a), a)
          BY DEF Skip, BeginAttach, BeginDetach
        <4>3. rec' = rec
          BY DEF Skip, BeginAttach, BeginDetach, Turn
        <4> QED BY <4>1, <4>2, <4>3, FailedNoted DEF TypeOK
      <3>2. CASE InCall
        <4>1. op' = op \/ DeviceFailed(op, at.dev)
          BY <3>2, InCallEnds DEF GoesOn, Record, Forget, DeviceDone
        <4>2. rec' = rec
          BY <3>2 DEF InCall, Preflight, Compare, Record, Forget, BindVfio, VfioAdd,
                      VfioRemove, Working
        <4> QED BY <4>1, <4>2, FailedNoted DEF TypeOK
      <3> QED BY <1>3, <3>1, <3>2
    <2> QED BY <2>1 DEF PassOK
  <1>4. ~Crash
    BY DEF Crash, NoOp
  <1> QED BY <1>1, <1>2, <1>3, <1>4, Kinds

\* A turn of the pass skips what is marked, and takes up everything else.
LEMMA PassTurn ==
    ASSUME TypeOK, LoopOK, PassOK, op.by = "reconcile", NEW a \in Addresses,
           Skip(a) \/ BeginAttach(a) \/ BeginDetach(a)
    PROVE  /\ at.pc = "next" /\ op' = Popped(a) /\ UNCHANGED <<mem, pciVms, deferred>>
           /\ \/ at' = at /\ a \in mem
              \/ at' = Frame("preflight", a, Rule[a].target, {})
  <1>1. op.kind = "resume" /\ op.vm = None
    BY DEF PassOK
  <1>2. CASE Skip(a)
    BY <1>1, <1>2 DEF Skip, Turn, InScope, Resumes
  <1>3. CASE BeginAttach(a)
    BY <1>1, <1>3, Zenon DEF BeginAttach, Turn, VmName
  <1>4. ~BeginDetach(a)
    BY <1>1 DEF BeginDetach
  <1> QED BY <1>2, <1>3, <1>4

LEMMA AimStep ==
    ASSUME WholeGroups, TypeOK, FixedOK, LoopOK, CallOK, PassOK, AimOK, Next
    PROVE  AimOK'
  <1> SUFFICES ASSUME op'.by = "reconcile", at'.pc # "next"
               PROVE  /\ at'.vm = Rule[at'.dev].target
                      /\ at'.pc \in {"bind", "add"} => Part(at'.dev) \subseteq at'.set
    BY DEF AimOK, Part
  <1>1. CASE Aside
    BY <1>1, AsideStep DEF AimOK
  <1>2. ~Locks
    BY LockStep
  <1>3. CASE Turns
    <2> PICK a \in Addresses : Skip(a) \/ BeginAttach(a) \/ BeginDetach(a)
      BY <1>3 DEF Turns
    <2>1. op.by = "reconcile"
      <3>1. Popped(a) \in Ops /\ Popped(a).by = op.by
        BY PoppedTyped DEF Popped, TypeOK, Ops
      <3>2. op' = Popped(a) \/ DeviceFailed(Popped(a), a)
        BY DEF Skip, BeginAttach, BeginDetach
      <3> QED BY <3>1, <3>2, FailedNoted DEF TypeOK
    <2>2. at' = Frame("preflight", a, Rule[a].target, {})
      BY <2>1, PassTurn
    <2> QED BY <2>2 DEF Frame
  <1>4. CASE InCall
    <2>1. GoesOn /\ at.dev \in Addresses /\ at.pc # "next"
      <3>1. ~DeviceFailed(op, at.dev) /\ ~Record /\ ~Forget
        BY FailedTyped DEF Record, Forget, DeviceDone, NoFrame, TypeOK
      <3>2. at \in Calls
        BY <1>4, InCallStep
      <3> QED BY <1>4, <3>1, <3>2, InCallEnds DEF Calls, Pcs
    <2>2. Rule[at.dev] # None
      BY <2>1 DEF CallOK
    <2>3. Part(at.dev) \subseteq Passed(at.dev)
      BY <2>1, <2>2, PartPassed
    <2> QED BY <2>1, <2>3 DEF GoesOn, AimOK
  <1>5. ~Crash
    BY DEF Crash, NoOp
  <1> QED BY <1>1, <1>2, <1>3, <1>4, <1>5, Kinds

LEMMA QuietStep ==
    ASSUME OneRouted, TypeOK, LoopOK, CallOK, PassOK, AimOK, QuietOK, Next
    PROVE  QuietOK'
  <1> SUFFICES ASSUME op'.by = "reconcile", ~op'.failed, ~deferred',
                      NEW a \in op'.scan \ op'.todo
               PROVE  Settled(a)' \/ (at'.pc # "next" /\ at'.dev = a)
    BY DEF QuietOK
  <1>1. CASE Aside
    BY <1>1, AsideStep, AsideKeeps DEF QuietOK, Settled
  <1>2. ~Locks
    BY DEF Locks, ApiNext, ApiSelect, ApiPower, Begin, ReconcileResume, OpDone, NoOp
  <1>3. CASE Turns
    <2> PICK c \in Addresses : Skip(c) \/ BeginAttach(c) \/ BeginDetach(c)
      BY <1>3 DEF Turns
    <2>1. /\ Popped(c) \in Ops /\ Popped(c).by = op.by /\ Popped(c).failed = op.failed
          /\ Popped(c).scan = op.scan /\ Popped(c).todo = op.todo \ {c}
      BY PoppedTyped DEF Popped, TypeOK, Ops
    <2>2. op.by = "reconcile"
      <3>1. op' = Popped(c) \/ DeviceFailed(Popped(c), c)
        BY DEF Skip, BeginAttach, BeginDetach
      <3> QED BY <2>1, <3>1, FailedNoted DEF TypeOK
    <2>3. /\ at.pc = "next" /\ op' = Popped(c) /\ UNCHANGED <<mem, pciVms, deferred>>
          /\ \/ at' = at /\ c \in mem
             \/ at' = Frame("preflight", c, Rule[c].target, {})
      BY <2>2, PassTurn
    <2>4. CASE a = c
      BY <2>3, <2>4 DEF Settled, Frame
    <2>5. CASE a # c
      BY <2>1, <2>2, <2>3, <2>5 DEF QuietOK, Settled
    <2> QED BY <2>4, <2>5
  <1>4. CASE InCall
    <2>1. ~DeviceFailed(op, at.dev)
      BY FailedNoted DEF TypeOK
    <2>2. at \in Calls /\ at.dev \in Addresses /\ at.pc # "next"
      BY <1>4, InCallStep DEF Calls, Pcs
    <2>3. op' = op /\ deferred' = deferred
      BY <1>4, <2>1, InCallEnds DEF GoesOn, Record, Forget, DeviceDone
    <2>4. Settled(a) \/ at.dev = a
      BY <2>3 DEF QuietOK
    <2>5. CASE GoesOn
      BY <2>4, <2>5 DEF GoesOn, Settled
    <2>6. CASE Record
      <3>1. /\ at.pc = "add" /\ mem' = mem \ {at.dev}
            /\ pciVms' = [b \in Addresses |-> IF b \in at.set THEN at.vm ELSE pciVms[b]]
        BY <2>6 DEF Record, Working
      <3>2. /\ Part(at.dev) \subseteq at.set /\ at.set \in SUBSET Addresses
            /\ at.vm = Rule[at.dev].target
        BY <2>2, <2>3, <3>1 DEF AimOK, Calls
      <3>3. CASE a = at.dev
        BY <3>1, <3>2, <3>3 DEF Settled
      <3>4. CASE a # at.dev
        <4>1. a \in Addresses /\ Rule[a] # None /\ Rule[at.dev] # None
          BY <2>2, <2>3 DEF PassOK, CallOK, TypeOK, Ops
        <4>2. Part(a) \cap at.set = {}
          BY <2>2, <3>1, <3>4, <4>1, PartsApart DEF CallOK
        <4>3. Part(a) \subseteq Addresses
          BY <4>1, ConstantsAssumption DEF Part, ConstantsAssumption
        <4> QED BY <2>4, <3>1, <3>4, <4>2, <4>3 DEF Settled
      <3> QED BY <3>3, <3>4
    <2>7. ~Forget
      BY <2>2, <2>3 DEF Forget, CallOK, PassOK
    <2> QED BY <1>4, <2>1, <2>5, <2>6, <2>7, InCallEnds
  <1>5. ~Crash
    BY DEF Crash, NoOp
  <1> QED BY <1>1, <1>2, <1>3, <1>4, <1>5, Kinds

LEMMA InitPass == Init => PassInv
  <1>1. Init => PassOK /\ AimOK /\ QuietOK
    BY DEF Init, PassOK, AimOK, QuietOK, NoOp
  <1> QED BY <1>1, InitIInv DEF PassInv

LEMMA NextPass == ASSUME OneRouted, WholeGroups, PassInv, Next PROVE PassInv'
  BY NextIInv, PassOKStep, AimStep, QuietStep DEF PassInv, IInv

LEMMA StutterPass == ASSUME PassInv, UNCHANGED vars PROVE PassInv'
  BY StutterIInv DEF PassInv, PassOK, AimOK, QuietOK, Settled, vars

\* resume_pci under reconcile, and the flag of a deferral: where no addAll rule
\* takes a routed device along, and no device that comes and goes takes a fixed
\* one along, a pass that reports neither a failure nor a deferral has recorded
\* every routed device it found, and the fixed devices that go with it.
THEOREM QuietPass ==
    ASSUME OneRouted, WholeGroups PROVE Spec => PciQuietPassSettles
  <1>1. Spec => []PassInv
    BY InitPass, NextPass, StutterPass, PTL DEF Spec
  <1>2. ASSUME PassInv
        PROVE  [(OpDone /\ op.by = "reconcile" /\ ~op.failed /\ ~deferred) =>
                   \A a \in op.scan \cap Scan :
                      \/ a \in mem
                      \/ \A b \in {a} \cup (Passed(a) \ HotPlug) :
                            pciVms[b] = Rule[a].target]_vars
    <2> SUFFICES ASSUME OpDone, op.by = "reconcile", ~op.failed, ~deferred,
                        NEW a \in op.scan \cap Scan
                 PROVE  \/ a \in mem
                        \/ \A b \in {a} \cup (Passed(a) \ HotPlug) : pciVms[b] = Rule[a].target
      OBVIOUS
    <2>1. Settled(a)
      BY <1>2 DEF PassInv, QuietOK, OpDone
    <2>2. a \in Addresses /\ Rule[a] # None
      BY <1>2 DEF PassInv, IInv, TypeOK, Scan
    <2>3. Passed(a) \ HotPlug \subseteq Part(a) /\ a \in Part(a)
      BY <1>2, <2>2, PartPassed DEF PassInv, IInv, Part
    <2> QED BY <2>1, <2>3 DEF Settled
  <1> QED BY <1>1, <1>2, PTL DEF PciQuietPassSettles
=============================================================================
