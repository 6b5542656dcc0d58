--------------------------- MODULE UsbGateProofs ---------------------------
(***************************************************************************)
(* What the gate and the authorization guard promise, for any number of    *)
(* devices, requests, passes, starts and faults, and how far: where the    *)
(* code passes over a failure, the property excepts what it leaves behind. *)
(***************************************************************************)
EXTENDS UsbGate, FiniteSetTheorems, TLAPS

---------------------------------------------------------------------------
(* The invariant.                                                          *)

\* TypeOK in four parts.
KernelOK ==
    /\ present \subseteq Devices /\ authorized \subseteq present
    /\ configured \subseteq authorized
    /\ driver \in [Devices -> Drivers]
    /\ \A d \in Devices \ configured : driver[d] = "none"

RecordsOK ==
    /\ held \subseteq present /\ known \subseteq present /\ ports \subseteq Devices
    /\ marked \subseteq Ids /\ cache \subseteq Ids
    /\ taken \subseteq present /\ excused \subseteq present

Mains == [pc: MainPcs, spare: SUBSET Devices, todo: SUBSET Devices,
          lost: SUBSET Devices, blind: BOOLEAN]
Recs  == [pc: RecPcs, todo: SUBSET Devices, routed: SUBSET Devices,
          dev: Devices \cup {None}]
Ops   == [pc: OpPcs, kind: OpKinds, by: {"api", "reconcile"}, dev: Devices \cup {None},
          todo: SUBSET Devices, armed: BOOLEAN, gone: SUBSET Devices]

TasksOK == main \in Mains /\ rec \in Recs /\ op \in Ops

CountsOK == /\ autoprobe \in BOOLEAN /\ closed \in BOOLEAN /\ vmUp \in BOOLEAN
            /\ plugs \in Nat /\ faults \in Nat /\ requests \in Nat /\ starts \in Nat

\* A gate pass releases what it routes and probes what it does not.
RecOK ==
    /\ rec.pc = "release" => rec.dev \in rec.routed
    /\ rec.pc = "probe" => rec.dev \in Devices \ rec.routed

\* A request works on routed devices; it has one at hand except between two,
\* and its guard is armed only until Crosvm has answered.
OpOK ==
    /\ op.pc = "idle" => op = NoOp
    /\ op.pc \notin {"idle", "next"} => op.dev \in RoutedDevices \cup Fallback
    /\ op.todo \subseteq RoutedDevices \cup Fallback
    /\ op.armed => op.pc \in {"configure", "release", "crosvm", "rollback"} /\ Authorization
    /\ op.pc = "rollback" => op.armed

\* Nothing runs in a daemon that is not there, and no pass in one that stops;
\* autoprobe is off while the daemon runs; a resume belongs to a pass.
MainOK ==
    /\ main.pc = "off" => op.pc = "idle"
    /\ main.pc # "run" => rec.pc = "idle"
    /\ main.pc \in {"run", "open"} => ~autoprobe
    /\ op.by = "reconcile" => rec.pc = "resume"

\* Without usbAuthorization every device is authorized; with it, none is when
\* it is plugged in, and only with deauthorizeUnmatched does a pass take
\* authorizations.
PolicyOK ==
    /\ closed => Authorization
    /\ main.pc # "off" /\ Authorization => closed
    /\ ~Authorization => authorized = present
    /\ rec.pc = "deauthorize" => Authorization /\ DeauthorizeUnmatched

IInv == TypeOK /\ RecOK /\ OpOK /\ MainOK /\ PolicyOK

\* With these options nothing takes the authorization of a device that is being
\* attached.
AttachKeepsAuthorization ==
    \/ ~Authorization
    \/ ~DeauthorizeUnmatched /\ Hubs \cap (RoutedDevices \cup Fallback) = {}

\* A device still plugged in is authorized and configured on its way to Crosvm.
ConfigOK ==
    /\ op.pc = "configure" /\ Authorization => op.dev \in authorized \cup op.gone
    /\ op.pc \in {"release", "crosvm"} => op.dev \in configured \cup op.gone

\* What was taken from a host driver is not marked, is matched by a rule or
\* remembered, and is routed in the pass under way, unless a twin overrules it.
Settling == {"names", "settle", "release", "probe"}

TakenOK ==
    /\ \A d \in (taken \cup rec.routed) \ Overruled : d \in RoutedDevices \/ Id[d] \in cache
    /\ taken \cap Marked = {}
    /\ rec.pc \in Settling => taken \ Overruled \subseteq rec.routed
    /\ rec.pc \notin Settling \cup {"observe"} => rec.routed = {}

\* What Calm separates: a request has its daemon, its devices and, but for the
\* pass it belongs to, the reconcile task to itself.
CalmOK ==
    /\ op.gone = {}
    /\ main.pc # "run" => op.pc = "idle"
    /\ rec.pc # "idle" /\ op.pc # "idle" => op.by = "reconcile"

\* The device of the attach under way that Crosvm has or may get.
InHand == IF op.armed \/ op.pc = "commit" THEN {op.dev} ELSE {}

StrayOK ==
    Authorization /\ Running =>
        authorized \subseteq Hubs \cup HostAllow \cup known \cup excused \cup InHand

\* The gate reopens with every device a VM holds on record.  What is neither on
\* record nor lost is bound, blocked, or still to be handed back.
StockOK ==
    /\ main.pc \in {"open", "probe"} => held \subseteq known
    /\ main.pc = "open" => main.spare = {}
    /\ main.pc = "probe" =>
          /\ autoprobe
          /\ ~main.blind => known \subseteq main.spare
          /\ \A d \in present \ (known \cup main.lost) :
                \/ d \in main.todo \ main.spare
                \/ Blocked(d) \/ driver[d] # "none"

\* What a VM holds has a binding, is routed, and is not marked once its attach
\* is through.
OwnIds == \A d, e \in Devices : Id[d] = Id[e] => d = e

Undisturbed == /\ Calm /\ OwnIds /\ Fallback \subseteq RoutedDevices
               /\ Faults \cap {"lost", "save"} = {}

Committing == IF op.pc = "commit" THEN {op.dev} ELSE {}

HeldOK ==
    /\ held \subseteq RoutedDevices
    /\ held \ Committing \subseteq ports \ Marked
    /\ held # {} => vmUp
    /\ op.pc = "forget" => op.dev \notin held
    /\ op.pc = "crosvm" => driver[op.dev] # "host"
    /\ op.pc \in {"configure", "release", "crosvm"} /\ Authorization
          => op.dev \in Hubs \cup authorized
    /\ rec.pc \in Settling => held \subseteq rec.routed
    /\ Authorization => held \cap HostAllow \subseteq Hubs \cup authorized
    /\ op.armed => op.dev \notin held \cap HostAllow

LEMMA TypeParts == TypeOK <=> KernelOK /\ RecordsOK /\ TasksOK /\ CountsOK
  BY DEF TypeOK, KernelOK, RecordsOK, TasksOK, CountsOK, Mains, Recs, Ops

LEMMA TypePartsNext == TypeOK' <=> KernelOK' /\ RecordsOK' /\ TasksOK' /\ CountsOK'
  BY DEF TypeOK, KernelOK, RecordsOK, TasksOK, CountsOK, Mains, Recs, Ops

---------------------------------------------------------------------------
(* The kernel.                                                             *)

LEMMA NativeDriver == ASSUME NEW d PROVE Native(d) \in {"hub", "host"}
  BY DEF Native

LEMMA SetAuthorizedTyped ==
    ASSUME KernelOK, present \subseteq present', present' \subseteq Devices,
           NEW on \in SUBSET present', NEW off, SetAuthorized(on, off)
    PROVE  KernelOK'
  BY NativeDriver DEF KernelOK, SetAuthorized, Drivers

LEMMA ProbeDeviceTyped ==
    ASSUME KernelOK, UNCHANGED <<present, authorized>>, NEW d \in Devices, ProbeDevice(d)
    PROVE  KernelOK'
  BY NativeDriver DEF KernelOK, ProbeDevice, Drivers

LEMMA DriverTyped ==
    ASSUME KernelOK, UNCHANGED <<present, authorized, configured>>,
           NEW d \in Devices, NEW e \in Drivers, d \in configured \/ e = "none",
           driver' = [driver EXCEPT ![d] = e]
    PROVE  KernelOK'
  BY DEF KernelOK

LEMMA ReleasedTyped ==
    ASSUME KernelOK, UNCHANGED <<present, authorized, configured>>,
           NEW S, driver' = Released(S)
    PROVE  KernelOK'
  BY DEF KernelOK, Released, Drivers

LEMMA KernelKept ==
    ASSUME KernelOK, UNCHANGED <<present, authorized, configured, driver>>
    PROVE  KernelOK'
  BY DEF KernelOK

LEMMA KernelStep == ASSUME IInv, [Next]_vars PROVE KernelOK'
  <1> USE ConstantsAssumption DEF ConstantsAssumption
  <1>1. KernelOK /\ RecordsOK /\ TasksOK /\ CountsOK /\ OpOK
    BY TypeParts DEF IInv
  <1>r. rec.pc \in {"release", "probe"} => rec.dev \in Devices
    BY <1>1 DEF IInv, RecOK, TasksOK, Recs
  <1>2. CASE HostNext
    <2>1. ASSUME NEW d \in Devices, Plug(d) PROVE KernelOK'
      <3> DEFINE on == IF closed THEN {} ELSE {d}
      <3>1. present' = present \cup {d} /\ SetAuthorized(on, {})
        BY <2>1 DEF Plug
      <3> HIDE DEF on
      <3>2. on \subseteq {d}
        BY DEF on
      <3> QED BY <1>1, <3>1, <3>2, SetAuthorizedTyped DEF KernelOK
    <2>2. ASSUME NEW d \in Devices, Unplug(d) PROVE KernelOK'
      BY <1>1, <2>2 DEF Unplug, KernelOK, Drivers
    <2>3. ASSUME NEW d \in Devices, GuestClaim(d) PROVE KernelOK'
      <3>1. UNCHANGED <<present, authorized, configured>>
        BY <2>3 DEF GuestClaim
      <3>2. d \in configured /\ driver' = [driver EXCEPT ![d] = "usbfs"]
        BY <2>3 DEF GuestClaim
      <3>3. "usbfs" \in Drivers
        BY DEF Drivers
      <3> QED BY <1>1, <3>1, <3>2, <3>3, DriverTyped
    <2>4. CASE (\E d \in Devices : VmDrop(d)) \/ VmStart
      BY <1>1, <2>4, KernelKept DEF VmDrop, VmStart, kernelVars
    <2>5. CASE VmStop
      BY <1>1, <2>5, ReleasedTyped DEF VmStop
    <2> QED BY <1>2, <2>1, <2>2, <2>3, <2>4, <2>5 DEF HostNext
  <1>3. CASE RecNext
    <2>1. CASE RecGate
      BY <1>1, <2>1 DEF RecGate, Pass, KernelOK, HostDevices
    <2>2. ASSUME NEW d \in Devices, RecConfigure(d) PROVE KernelOK'
      <3>1. UNCHANGED <<present, authorized>>
        BY <2>2 DEF RecConfigure, Pass
      <3>2. ProbeDevice(d) \/ UNCHANGED <<configured, driver>>
        BY <2>2 DEF RecConfigure
      <3> QED BY <1>1, <3>1, <3>2, ProbeDeviceTyped, KernelKept
    <2>3. CASE RecSettle
      <3>1. UNCHANGED <<present, authorized, configured>> /\ rec.dev \in Devices
        BY <1>r, <2>3 DEF RecSettle, Pass
      <3>2. CASE driver' = [driver EXCEPT ![rec.dev] = "none"]
        BY <1>1, <3>1, <3>2, DriverTyped DEF Drivers
      <3>3. CASE Driverless(rec.dev) /\ ProbeInterface(rec.dev)
        <4>1. Native(rec.dev) \in Drivers
          BY NativeDriver DEF Drivers
        <4>2. rec.dev \in configured /\ driver' = [driver EXCEPT ![rec.dev] = Native(rec.dev)]
          BY <3>3 DEF Driverless, ProbeInterface
        <4> QED BY <1>1, <3>1, <4>1, <4>2, DriverTyped
      <3>4. CASE UNCHANGED driver
        BY <1>1, <3>1, <3>4, KernelKept
      <3> QED BY <2>3, <3>2, <3>3, <3>4 DEF RecSettle, Settle
    <2>4. CASE RecDeauthorize
      <3>1. UNCHANGED present
        BY <2>4 DEF RecDeauthorize, Pass
      <3>2. CASE UNCHANGED <<authorized, configured, driver>>
        BY <1>1, <3>1, <3>2, KernelKept
      <3>3. ASSUME NEW d, SetAuthorized({}, {d} \cap authorized) PROVE KernelOK'
        BY <1>1, <3>1, <3>3, SetAuthorizedTyped DEF KernelOK
      <3> QED BY <2>4, <3>2, <3>3 DEF RecDeauthorize
    <2>5. CASE \/ RecRoute \/ RecNames \/ RecLoopEnd \/ RecObserve \/ RecResume
               \/ \E d \in Devices : RecRead(d)
      BY <1>1, <2>5, KernelKept
         DEF RecRoute, RecNames, RecLoopEnd, RecObserve, RecResume, RecRead, Pass
    <2> QED BY <1>3, <2>1, <2>2, <2>3, <2>4, <2>5 DEF RecNext
  <1>4. CASE OpNext
    <2>1. ASSUME NEW off, UNCHANGED present, SetAuthorized({}, off) PROVE KernelOK'
      BY <1>1, <2>1, SetAuthorizedTyped DEF KernelOK
    <2>2. ASSUME UNCHANGED present, DeviceFailed PROVE KernelOK'
      BY <1>1, <2>2, KernelKept DEF DeviceFailed
    <2>3. CASE Authorize
      <3>1. UNCHANGED present
        BY <2>3 DEF Authorize, Op
      <3>2. CASE SetAuthorized({}, {}) \/ UNCHANGED <<authorized, configured, driver>>
        BY <1>1, <2>1, <3>1, <3>2, KernelKept
      <3>3. CASE op.dev \in present /\ SetAuthorized({op.dev}, {})
        BY <1>1, <3>1, <3>3, SetAuthorizedTyped DEF KernelOK
      <3> QED BY <2>3, <3>2, <3>3 DEF Authorize
    <2>4. CASE OpConfigure
      <3>1. UNCHANGED present
        BY <2>4 DEF OpConfigure, Op
      <3>2. CASE DeviceFailed
        BY <2>2, <3>1, <3>2
      <3>3. CASE op.dev \in present /\ Configure /\ UNCHANGED authorized
        <4>1. op.dev \in Devices
          BY <1>1, <3>3 DEF KernelOK
        <4> QED BY <1>1, <3>1, <3>3, <4>1, ProbeDeviceTyped DEF Configure
      <3> QED BY <2>4, <3>2, <3>3 DEF OpConfigure
    <2>5. CASE OpRelease
      <3>1. UNCHANGED present
        BY <2>5 DEF OpRelease, Op
      <3>2. CASE DeviceFailed
        BY <2>2, <3>1, <3>2
      <3>3. CASE /\ UNCHANGED <<authorized, configured>>
                 /\ driver' = [driver EXCEPT ![op.dev] = "none"]
        BY <1>1, <3>1, <3>3 DEF KernelOK, Drivers
      <3>4. CASE UNCHANGED <<authorized, configured, driver>>
        BY <1>1, <3>1, <3>4, KernelKept
      <3> QED BY <2>5, <3>2, <3>3, <3>4 DEF OpRelease
    <2>6. CASE OpCrosvm
      <3>1. UNCHANGED present
        BY <2>6 DEF OpCrosvm, Op
      <3>2. DeviceFailed \/ UNCHANGED <<authorized, configured, driver>>
        BY <2>6 DEF OpCrosvm
      <3> QED BY <1>1, <2>2, <3>1, <3>2, KernelKept
    <2>7. CASE OpDetach
      <3>1. UNCHANGED <<present, authorized, configured>>
        BY <2>7 DEF OpDetach, Op
      <3>2. driver' = Released({op.dev}) \/ UNCHANGED driver
        BY <2>7 DEF OpDetach
      <3> QED BY <1>1, <3>1, <3>2, ReleasedTyped, KernelKept
    <2>8. CASE OpForget \/ OpRollback
      <3>1. UNCHANGED present
        BY <2>8 DEF OpForget, OpRollback, Op
      <3>2. (\E off : SetAuthorized({}, off)) \/ UNCHANGED <<authorized, configured, driver>>
        BY <2>8 DEF OpForget, OpRollback
      <3> QED BY <1>1, <2>1, <3>1, <3>2, KernelKept
    <2>9. CASE (\E d \in Devices : OpDevice(d)) \/ OpEnd \/ OpEndOfResume \/ OpCommit
      BY <1>1, <2>9, KernelKept DEF OpDevice, OpEnd, OpEndOfResume, OpCommit, Op, kernelVars
    <2> QED BY <1>4, <2>3, <2>4, <2>5, <2>6, <2>7, <2>8, <2>9 DEF OpNext
  <1>5. CASE MainNext
    <2>1. ASSUME NEW d \in Devices, MainProbe(d) PROVE KernelOK'
      <3>1. UNCHANGED <<present, authorized>>
        BY <2>1 DEF MainProbe
      <3>2. CASE HandBack(d)
        BY <1>1, <3>1, <3>2, NativeDriver DEF HandBack, KernelOK, Drivers
      <3>3. CASE UNCHANGED <<configured, driver>>
        BY <1>1, <3>1, <3>3, KernelKept
      <3> QED BY <2>1, <3>2, <3>3 DEF MainProbe
    <2>2. CASE MainOpen \/ MainGivesUp \/ MainExit
      BY <1>1, <2>2, KernelKept DEF MainOpen, MainGivesUp, MainExit, kernelVars
    <2> QED BY <1>5, <2>1, <2>2 DEF MainNext
  <1>6. CASE MainStart
    <2>1. PICK failed : SetAuthorized((HostDevices \cap Unauthorized) \ failed, {})
      BY <1>6 DEF MainStart
    <2>2. UNCHANGED present /\ (HostDevices \cap Unauthorized) \ failed \subseteq present
      BY <1>6 DEF MainStart, Unauthorized
    <2> QED BY <1>1, <2>1, <2>2, SetAuthorizedTyped DEF KernelOK
  <1>7. CASE MainStop
    <2>1. /\ UNCHANGED present
          /\ SetAuthorized({}, Aborted) \/ UNCHANGED <<authorized, configured, driver>>
      BY <1>7 DEF MainStop
    <2> QED BY <1>1, <2>1, SetAuthorizedTyped, KernelKept DEF KernelOK
  <1>8. CASE (\E k \in OpKinds, d \in Devices : Start(k, d)) \/ Crash \/ UNCHANGED vars
    BY <1>1, <1>8, KernelKept DEF Start, Crash, kernelVars, vars
  <1> QED BY <1>2, <1>3, <1>4, <1>5, <1>6, <1>7, <1>8 DEF Next

---------------------------------------------------------------------------
(* The records, the tasks and the counts.                                  *)

LEMMA RecordsStep == ASSUME IInv, [Next]_vars PROVE RecordsOK'
  <1> USE ConstantsAssumption DEF ConstantsAssumption
  <1>1. KernelOK /\ RecordsOK /\ TasksOK /\ CountsOK /\ OpOK
    BY TypeParts DEF IInv
  <1>2. op.dev \in Devices \cup {None} /\ (op.dev \in Devices => Id[op.dev] \in Ids)
    BY <1>1 DEF TasksOK, Ops
  <1>r. rec.pc \in {"release", "probe"} => rec.dev \in Devices
    BY <1>1 DEF IInv, RecOK, TasksOK, Recs
  <1>3. CASE HostNext
    <2>1. CASE \E d \in Devices : Plug(d)
      BY <1>1, <2>1 DEF Plug, RecordsOK, vmVars, stateVars
    <2>2. CASE \E d \in Devices : Unplug(d)
      BY <1>1, <2>2 DEF Unplug, RecordsOK
    <2>3. CASE (\E d \in Devices : GuestClaim(d) \/ VmDrop(d)) \/ VmStart \/ VmStop
      BY <1>1, <2>3
         DEF GuestClaim, VmDrop, VmStart, VmStop, RecordsOK, kernelVars, vmVars, stateVars
    <2> QED BY <1>3, <2>1, <2>2, <2>3 DEF HostNext
  <1>4. CASE RecNext
    <2>1. CASE RecRoute
      <3>1. UNCHANGED <<present, vmVars, marked, excused, known, ports, taken>>
        BY <2>1 DEF RecRoute, Pass
      <3>2. cache' \subseteq Ids
        <4>0. CASE UNCHANGED cache
          BY <1>1, <4>0 DEF RecordsOK
        <4>1. CASE \E r \in SUBSET (Fallback \cap present) :
                LET matched == {d \in present : Matched(d, r)} IN
                cache' = {Id[d] : d \in {e \in matched :
                      \A x \in present : Id[x] = Id[e] => Rank[x] <= Rank[e]}}
          BY <1>1, <4>1 DEF KernelOK
        <4> QED BY <2>1, <4>0, <4>1 DEF RecRoute
      <3> QED BY <1>1, <3>1, <3>2 DEF RecordsOK, vmVars
    <2>2. CASE RecSettle
      <3>1. UNCHANGED <<present, vmVars, marked, excused, known, ports, cache>>
        BY <2>2 DEF RecSettle, Pass
      <3>2. rec.dev \in Devices
        BY <1>r, <2>2 DEF RecSettle, Pass
      <3>3. taken' \subseteq taken \cup ({rec.dev} \cap present)
        BY <1>1, <2>2, <3>2 DEF RecSettle, Settle, KernelOK
      <3> QED BY <1>1, <3>1, <3>3 DEF RecordsOK, vmVars
    <2>3. CASE RecDeauthorize
      <3>1. UNCHANGED <<present, vmVars, marked, known, ports, cache, taken>>
        BY <2>3 DEF RecDeauthorize, Pass
      <3>2. excused' \subseteq excused
        BY <2>3 DEF RecDeauthorize
      <3> QED BY <1>1, <3>1, <3>2 DEF RecordsOK, vmVars
    <2>4. CASE \/ RecGate \/ RecNames \/ RecLoopEnd \/ RecObserve \/ RecResume
               \/ (\E d \in Devices : RecConfigure(d) \/ RecRead(d))
      BY <1>1, <2>4 DEF RecGate, RecNames, RecLoopEnd, RecObserve, RecResume,
         RecConfigure, RecRead, Pass, RecordsOK, vmVars
    <2> QED BY <1>4, <2>1, <2>2, <2>3, <2>4 DEF RecNext
  <1>5. CASE OpNext
    <2>1. CASE (\E d \in Devices : OpDevice(d)) \/ OpEnd \/ OpEndOfResume
      BY <1>1, <2>1 DEF OpDevice, OpEnd, OpEndOfResume, Op, RecordsOK, vmVars, stateVars, kernelVars
    <2>2. CASE Authorize \/ OpConfigure \/ OpRelease
      BY <1>1, <2>2 DEF Authorize, OpConfigure, OpRelease, Op, RecordsOK, stateVars
    <2>3. CASE OpCrosvm
      <3>1. UNCHANGED <<present, excused, cache, stateVars, taken>>
        BY <2>3 DEF OpCrosvm, Op
      <3>2. held' \subseteq held \cup ({op.dev} \cap present)
        BY <2>3 DEF OpCrosvm, NodeExists
      <3> QED BY <1>1, <3>1, <3>2 DEF RecordsOK, stateVars
    <2>4. CASE OpCommit
      <3>1. UNCHANGED <<present, excused, cache, held, taken>>
        BY <2>4 DEF OpCommit, Op
      <3>2. known' \subseteq known \cup ({op.dev} \cap present) /\ marked' \subseteq marked
        BY <2>4 DEF OpCommit, NodeExists
      <3>3. ports' \subseteq ports \cup ({op.dev} \cap Devices)
        BY <1>1, <1>2, <2>4 DEF OpCommit, Op, OpOK
      <3> QED BY <1>1, <3>1, <3>2, <3>3 DEF RecordsOK
    <2>5. CASE OpDetach
      BY <1>1, <2>5 DEF OpDetach, Op, RecordsOK, stateVars
    <2>6. CASE OpForget
      <3>1. UNCHANGED <<present, cache, held>>
        BY <2>6 DEF OpForget, Op
      <3>2. /\ known' \subseteq known /\ ports' \subseteq ports /\ taken' \subseteq taken
            /\ excused' \subseteq excused \cup authorized
        BY <2>6 DEF OpForget
      <3>3. marked' \subseteq marked \cup {Id[op.dev]} /\ op.dev \in Devices
        BY <1>1, <1>2, <2>6 DEF OpForget, Op, OpOK
      <3> QED BY <1>1, <1>2, <3>1, <3>2, <3>3 DEF RecordsOK, KernelOK
    <2>7. CASE OpRollback
      <3>1. UNCHANGED <<present, cache, held, stateVars, taken>>
        BY <2>7 DEF OpRollback, Op
      <3>2. excused' \subseteq excused \cup authorized
        BY <2>7 DEF OpRollback
      <3> QED BY <1>1, <3>1, <3>2 DEF RecordsOK, KernelOK, stateVars
    <2> QED BY <1>5, <2>1, <2>2, <2>3, <2>4, <2>5, <2>6, <2>7 DEF OpNext
  <1>6. CASE MainNext \/ Crash \/ MainStop
    BY <1>1, <1>6 DEF MainNext, MainOpen, MainGivesUp, MainProbe, MainExit, Crash, MainStop, Exits,
       RecordsOK, kernelVars, vmVars, stateVars
  <1>7. CASE MainStart
    BY <1>1, <1>7 DEF MainStart, RecordsOK, KernelOK, vmVars, stateVars
  <1>8. CASE (\E k \in OpKinds, d \in Devices : Start(k, d)) \/ UNCHANGED vars
    BY <1>1, <1>8 DEF Start, RecordsOK, kernelVars, vmVars, stateVars, vars
  <1> QED BY <1>3, <1>4, <1>5, <1>6, <1>7, <1>8 DEF Next

LEMMA CountsStep == ASSUME IInv, [Next]_vars PROVE CountsOK'
  <1>1. CountsOK
    BY TypeParts DEF IInv
  <1> DEFINE Counted == /\ plugs' \in {plugs, plugs + 1} /\ faults' \in {faults, faults + 1}
                        /\ requests' \in {requests, requests + 1}
                        /\ starts' \in {starts, starts + 1}
             Switched == /\ autoprobe' = autoprobe \/ autoprobe' = TRUE \/ autoprobe' = FALSE
                         /\ closed' = closed \/ closed' = (closed \/ Authorization)
                         /\ vmUp' = vmUp \/ vmUp' = TRUE \/ vmUp' = FALSE
  <1>2. Counted /\ Switched
    <2>1. CASE HostNext
      BY <2>1 DEF HostNext, Plug, Unplug, GuestClaim, VmDrop, VmStart, VmStop,
         kernelVars, vmVars, counts
    <2>2. CASE RecNext
      <3>1. UNCHANGED <<closed, vmUp, plugs, requests, starts>>
        BY <2>2 DEF RecNext, RecGate, RecRoute, RecNames, RecLoopEnd, RecObserve, RecResume,
           RecDeauthorize, RecConfigure, RecRead, RecSettle, Pass, vmVars
      <3>2. autoprobe' = autoprobe \/ autoprobe' = FALSE
        BY <2>2 DEF RecNext, RecGate, RecRoute, RecNames, RecLoopEnd, RecObserve, RecResume,
           RecDeauthorize, RecConfigure, RecRead, RecSettle
      <3>3. faults' = faults \/ faults' = faults + 1
        BY <2>2 DEF RecNext, RecGate, RecRoute, RecNames, RecLoopEnd, RecObserve, RecResume,
           RecDeauthorize, RecConfigure, RecRead, RecSettle, Settle, GateFails, Fault, NoFault
      <3> QED BY <3>1, <3>2, <3>3
    <2>3. CASE OpNext
      <3>1. CASE OpEndOfResume
        BY <3>1 DEF OpEndOfResume, kernelVars, vmVars, counts
      <3>2. CASE OpEnd
        BY <3>2 DEF OpEnd, Op
      <3>3. CASE OpNext /\ ~OpEndOfResume /\ ~OpEnd
        <4>1. UNCHANGED <<autoprobe, closed, vmUp, plugs, requests, starts>>
          BY <3>3 DEF OpNext, OpDevice, Authorize, OpConfigure, OpRelease, OpCrosvm, OpRollback, OpCommit,
             OpDetach, OpForget, Op
        <4>2. faults' = faults \/ faults' = faults + 1
          BY <3>3 DEF OpNext, OpDevice, Authorize, OpConfigure, OpRelease, OpCrosvm, OpRollback, OpCommit,
             OpDetach, OpForget, Fault, NoFault
        <4> QED BY <4>1, <4>2
      <3> QED BY <2>3, <3>1, <3>2, <3>3
    <2>4. CASE MainNext \/ Crash \/ MainStop \/ MainStart
      <3>1. UNCHANGED <<vmUp, plugs, requests>>
        BY <2>4 DEF MainNext, MainOpen, MainGivesUp, MainProbe, MainExit, Crash, MainStop,
           MainStart, vmVars, counts
      <3>2. /\ starts' \in {starts, starts + 1}
            /\ closed' = closed \/ closed' = (closed \/ Authorization)
            /\ autoprobe' = autoprobe \/ autoprobe' = TRUE \/ autoprobe' = FALSE
        BY <2>4 DEF MainNext, MainOpen, MainGivesUp, MainProbe, MainExit, Crash, MainStop,
           MainStart, kernelVars, counts
      <3>3. faults' = faults \/ faults' = faults + 1
        BY <2>4 DEF MainNext, MainOpen, MainGivesUp, MainProbe, MainExit, Crash, MainStop,
           MainStart, Fault, NoFault, counts
      <3> QED BY <3>1, <3>2, <3>3
    <2>5. CASE (\E k \in OpKinds, d \in Devices : Start(k, d)) \/ UNCHANGED vars
      BY <2>5 DEF Start, kernelVars, vmVars, counts, vars
    <2> QED BY <2>1, <2>2, <2>3, <2>4, <2>5 DEF Next
  <1>3. plugs' \in Nat /\ faults' \in Nat /\ requests' \in Nat /\ starts' \in Nat
    BY <1>1, <1>2 DEF CountsOK
  <1>4. autoprobe' \in BOOLEAN /\ closed' \in BOOLEAN /\ vmUp' \in BOOLEAN
    <2> HIDE DEF Counted
    <2>1. Authorization \in BOOLEAN
      BY ConstantsAssumption DEF ConstantsAssumption
    <2> QED BY <1>1, <1>2, <2>1, Zenon DEF CountsOK
  <1> QED BY <1>3, <1>4 DEF CountsOK

\* The results of the updates of a task's record.
LEMMA NoTasks == NoMain \in Mains /\ NoRec \in Recs /\ NoOp \in Ops
  BY ConstantsAssumption
     DEF NoMain, NoRec, NoOp, Mains, Recs, Ops, MainPcs, RecPcs, OpPcs, OpKinds

LEMMA RecTyped ==
    ASSUME rec \in Recs, NEW p \in RecPcs, NEW S \in SUBSET Devices
    PROVE  /\ [rec EXCEPT !.pc = p] \in Recs
           /\ [rec EXCEPT !.todo = S] \in Recs
           /\ [rec EXCEPT !.pc = p, !.todo = S] \in Recs
           /\ [rec EXCEPT !.pc = p, !.routed = S] \in Recs
           /\ \A d \in Devices \cup {None} : /\ [rec EXCEPT !.pc = p, !.dev = d] \in Recs
                                           /\ [rec EXCEPT !.todo = S, !.pc = p, !.dev = d] \in Recs
           /\ [NoRec EXCEPT !.pc = p] \in Recs
           /\ [NoRec EXCEPT !.pc = p, !.todo = S] \in Recs
  BY NoTasks DEF Recs

LEMMA OpTyped ==
    /\ op \in Ops =>
          /\ \A p \in OpPcs : [op EXCEPT !.pc = p] \in Ops
          /\ \A p \in OpPcs, x \in BOOLEAN : [op EXCEPT !.pc = p, !.armed = x] \in Ops
          /\ \A p \in OpPcs, x \in BOOLEAN : [op EXCEPT !.armed = x, !.pc = p] \in Ops
          /\ \A p \in OpPcs, d \in Devices \cup {None}, x \in BOOLEAN :
                [op EXCEPT !.pc = p, !.dev = d, !.armed = x] \in Ops
          /\ \A S \in SUBSET Devices : [op EXCEPT !.todo = S] \in Ops
          /\ \A S \in SUBSET Devices, d \in Devices, p \in OpPcs :
                [[op EXCEPT !.todo = S] EXCEPT !.dev = d, !.pc = p] \in Ops
          /\ \A S \in SUBSET Devices : [op EXCEPT !.gone = S] \in Ops
    /\ \A p \in OpPcs, k \in OpKinds, S \in SUBSET Devices :
          [NoOp EXCEPT !.pc = p, !.kind = k, !.todo = S] \in Ops
    /\ \A p \in OpPcs, k \in OpKinds, S \in SUBSET Devices :
          [NoOp EXCEPT !.pc = p, !.kind = k, !.by = "reconcile", !.todo = S] \in Ops
  BY NoTasks, ZenonT(60) DEF Ops

LEMMA MainTyped == ASSUME IInv, [Next]_vars PROVE main' \in Mains
  <1>1. main \in Mains /\ present \subseteq Devices /\ known \subseteq present
    BY TypeParts DEF IInv, TasksOK, KernelOK, RecordsOK
  <1>2. CASE HostNext \/ RecNext \/ OpNext
    <2>1. UNCHANGED main
      BY <1>2 DEF HostNext, Plug, Unplug, GuestClaim, VmDrop, VmStart, VmStop,
         RecNext, RecGate, RecRoute, RecNames, RecLoopEnd, RecObserve, RecResume,
         RecDeauthorize, RecConfigure, RecRead, RecSettle, Pass,
         OpNext, OpDevice, OpEnd, OpEndOfResume, Authorize, OpConfigure, OpRelease,
         OpCrosvm, OpRollback, OpCommit, OpDetach, OpForget, Op
    <2> QED BY <1>1, <2>1
  <1>3. CASE MainOpen
    <2>1. \/ main' = [main EXCEPT !.pc = "probe", !.todo = present, !.spare = known]
          \/ main' = [main EXCEPT !.pc = "probe", !.todo = present, !.blind = TRUE]
      BY <1>1, <1>3 DEF MainOpen, Spared, Mains
    <2> QED BY <1>1, <2>1 DEF Mains, MainPcs
  <1>4. ASSUME NEW d \in Devices, MainProbe(d) PROVE main' \in Mains
    <2>1. \/ main' = [main EXCEPT !.todo = main.todo \ {d}]
          \/ main' = [main EXCEPT !.todo = main.todo \ {d}, !.lost = main.lost \cup {d}]
      BY <1>4 DEF MainProbe
    <2>2. main.todo \ {d} \in SUBSET Devices /\ main.lost \cup {d} \in SUBSET Devices
      BY <1>1 DEF Mains
    <2>3. \A S, L \in SUBSET Devices : /\ [main EXCEPT !.todo = S] \in Mains
                                      /\ [main EXCEPT !.todo = S, !.lost = L] \in Mains
      BY <1>1 DEF Mains
    <2> QED BY <2>1, <2>2, <2>3
  <1>5. CASE MainExit \/ MainGivesUp \/ Crash \/ MainStart \/ MainStop
    BY <1>1, <1>5, NoTasks DEF MainExit, MainGivesUp, Crash, Exits, MainStart, MainStop, NoMain, Mains, MainPcs
  <1>6. CASE (\E k \in OpKinds, d \in Devices : Start(k, d)) \/ UNCHANGED vars
    BY <1>1, <1>6 DEF Start, vars
  <1> QED BY <1>2, <1>3, <1>4, <1>5, <1>6 DEF Next, MainNext

LEMMA RecStepTyped == ASSUME IInv, [Next]_vars PROVE rec' \in Recs /\ RecOK'
  <1>1. rec \in Recs /\ present \subseteq Devices /\ RecOK
    BY TypeParts DEF IInv, TasksOK, KernelOK
  <1>2. rec.todo \subseteq Devices
    BY <1>1 DEF Recs
  <1>3. CASE UNCHANGED rec
    BY <1>1, <1>3 DEF RecOK
  <1>4. CASE rec' = NoRec
    BY <1>4, NoTasks DEF RecOK, NoRec
  \* a step to a state that has no device at hand
  <1>5. ASSUME NEW p \in RecPcs \ {"release", "probe"}, NEW S \in SUBSET Devices,
               \/ rec' = [rec EXCEPT !.pc = p]
               \/ rec' = [rec EXCEPT !.pc = p, !.todo = S]
               \/ rec' = [rec EXCEPT !.pc = p, !.routed = S]
               \/ rec' = [NoRec EXCEPT !.pc = p]
               \/ rec' = [NoRec EXCEPT !.pc = p, !.todo = S]
        PROVE  rec' \in Recs /\ RecOK'
    <2>1. rec' \in Recs
      <3>1. /\ [rec EXCEPT !.pc = p] \in Recs /\ [rec EXCEPT !.pc = p, !.todo = S] \in Recs
            /\ [rec EXCEPT !.pc = p, !.routed = S] \in Recs
            /\ [NoRec EXCEPT !.pc = p] \in Recs /\ [NoRec EXCEPT !.pc = p, !.todo = S] \in Recs
        BY <1>1, RecTyped
      <3> QED BY <1>5, <3>1
    <2>2. rec'.pc = p
      BY <1>1, <1>5 DEF Recs, NoRec
    <2> QED BY <2>1, <2>2 DEF RecOK
  <1>6. CASE HostNext \/ MainOpen \/ (\E d \in Devices : MainProbe(d))
    BY <1>3, <1>6 DEF HostNext, Plug, Unplug, GuestClaim, VmDrop, VmStart, VmStop,
       MainOpen, MainProbe
  <1>7. CASE RecNext
    <2>1. present \in SUBSET Devices
      BY <1>1
    <2>2. CASE GateFails
      <3>1. rec' = [NoRec EXCEPT !.pc = "observe"] /\ "observe" \in RecPcs \ {"release", "probe"}
        BY <2>2 DEF GateFails, RecPcs
      <3> QED BY <1>5, <2>1, <3>1
    <2>3. CASE RecGate /\ ~GateFails
      <3>1. /\ rec' = [NoRec EXCEPT !.pc = "configure", !.todo = present]
            /\ "configure" \in RecPcs \ {"release", "probe"}
        BY <2>3 DEF RecGate, RecPcs
      <3> QED BY <1>5, <2>1, <3>1
    <2>4. ASSUME NEW d \in Devices, rec' = [rec EXCEPT !.todo = rec.todo \ {d}],
                 rec.pc \notin {"release", "probe"}
          PROVE  rec' \in Recs /\ RecOK'
      <3>1. rec.todo \ {d} \in SUBSET Devices /\ "idle" \in RecPcs
        BY <1>2 DEF RecPcs
      <3>2. rec' \in Recs
        BY <1>1, <2>4, <3>1, RecTyped
      <3>3. rec'.pc = rec.pc
        BY <1>1, <2>4 DEF Recs
      <3> QED BY <2>4, <3>2, <3>3 DEF RecOK
    <2>5. ASSUME NEW d \in Devices, RecConfigure(d) PROVE rec' \in Recs /\ RecOK'
      <3>1. rec' = [rec EXCEPT !.todo = rec.todo \ {d}] /\ rec.pc = "configure"
        BY <2>5 DEF RecConfigure, Pass
      <3> QED BY <2>4, <3>1
    <2>6. ASSUME NEW d \in Devices, RecRead(d) PROVE rec' \in Recs /\ RecOK'
      <3>1. rec.pc = "settle"
        BY <2>6 DEF RecRead, Pass
      <3>2. CASE rec' = [rec EXCEPT !.todo = rec.todo \ {d}]
        BY <2>4, <3>1, <3>2
      <3> DEFINE e == IF Outcome(d) = "settle" THEN None ELSE d
      <3>3. CASE rec' = [rec EXCEPT !.todo = rec.todo \ {d}, !.pc = Outcome(d), !.dev = e]
        <4>1. /\ Outcome(d) \in RecPcs /\ rec.todo \ {d} \in SUBSET Devices
              /\ e \in Devices \cup {None}
          BY <1>2 DEF Outcome, RecPcs
        <4>2. /\ Outcome(d) = "release" => e = d /\ d \in rec.routed
              /\ Outcome(d) = "probe" => e = d /\ d \notin rec.routed
          BY DEF Outcome
        <4> HIDE DEF e
        <4>3. rec' \in Recs
          BY <1>1, <3>3, <4>1, RecTyped
        <4>4. rec'.pc = Outcome(d) /\ rec'.dev = e /\ rec'.routed = rec.routed
          BY <1>1, <3>3 DEF Recs
        <4> QED BY <4>2, <4>3, <4>4 DEF RecOK
      <3> QED BY <2>6, <3>2, <3>3 DEF RecRead
    <2>7. CASE RecSettle
      <3>1. rec' = [rec EXCEPT !.pc = "settle", !.dev = None]
        BY <2>7 DEF RecSettle
      <3>2. "settle" \in RecPcs /\ {} \in SUBSET Devices /\ None \in Devices \cup {None}
        BY DEF RecPcs
      <3>3. rec' \in Recs
        BY <1>1, <3>1, <3>2, RecTyped
      <3>4. rec'.pc = "settle"
        BY <1>1, <3>1 DEF Recs
      <3> QED BY <3>3, <3>4 DEF RecOK
    <2>8. CASE RecRoute /\ ~GateFails
      <3>1. PICK r \in SUBSET (Fallback \cap present) :
               rec' = [rec EXCEPT !.pc = "names",
                                  !.routed = Routed({d \in present : Matched(d, r)})]
        BY <2>8 DEF RecRoute
      <3>2. Routed({d \in present : Matched(d, r)}) \in SUBSET Devices
        BY <1>1 DEF Routed
      <3>3. "names" \in RecPcs \ {"release", "probe"}
        BY DEF RecPcs
      <3> QED BY <1>5, <3>1, <3>2, <3>3
    <2>9. CASE RecNames /\ ~GateFails
      <3>1. /\ rec' = [rec EXCEPT !.pc = "settle", !.todo = present]
            /\ "settle" \in RecPcs \ {"release", "probe"}
        BY <2>9 DEF RecNames, RecPcs
      <3> QED BY <1>5, <2>1, <3>1
    <2>10. CASE RecLoopEnd
      <3>1. rec' = [rec EXCEPT !.pc = "route"] \/ rec' = [rec EXCEPT !.pc = "observe"]
        BY <2>10 DEF RecLoopEnd
      <3>2. {"route", "observe"} \subseteq RecPcs \ {"release", "probe"}
        BY DEF RecPcs
      <3> QED BY <1>5, <2>1, <3>1, <3>2
    <2>11. CASE RecObserve
      <3>1. rec' = [NoRec EXCEPT !.pc = "resume"] \/ rec' = NoRec
        BY <2>11 DEF RecObserve
      <3>2. "resume" \in RecPcs \ {"release", "probe"}
        BY DEF RecPcs
      <3> QED BY <1>4, <1>5, <2>1, <3>1, <3>2
    <2>12. CASE AfterResume
      <3>1. rec' = [rec EXCEPT !.pc = "deauthorize", !.todo = present] \/ rec' = NoRec
        BY <2>12 DEF AfterResume
      <3>2. "deauthorize" \in RecPcs \ {"release", "probe"}
        BY DEF RecPcs
      <3> QED BY <1>4, <1>5, <2>1, <3>1, <3>2
    <2>13. CASE RecResume
      BY <1>3, <2>12, <2>13 DEF RecResume
    <2>14. CASE RecDeauthorize
      <3>1. rec' = NoRec \/ \E d \in rec.todo : rec' = [rec EXCEPT !.todo = rec.todo \ {d}]
        BY <2>14 DEF RecDeauthorize
      <3>2. rec.pc = "deauthorize"
        BY <2>14 DEF RecDeauthorize, Pass
      <3> QED BY <1>2, <1>4, <2>4, <3>1, <3>2
    <2> QED BY <1>7, <2>2, <2>3, <2>5, <2>6, <2>7, <2>8, <2>9, <2>10, <2>11, <2>13, <2>14
            DEF RecNext, RecRoute, RecNames
  <1>8. CASE OpEndOfResume
    <2>1. rec' = [rec EXCEPT !.pc = "deauthorize", !.todo = present] \/ rec' = NoRec
      BY <1>8 DEF OpEndOfResume, AfterResume
    <2>2. "deauthorize" \in RecPcs \ {"release", "probe"} /\ present \in SUBSET Devices
      BY <1>1 DEF RecPcs
    <2> QED BY <1>4, <1>5, <2>1, <2>2
  <1>9. CASE OpNext /\ ~OpEndOfResume
    BY <1>3, <1>9 DEF OpNext, OpDevice, OpEnd, Authorize, OpConfigure, OpRelease,
       OpCrosvm, OpRollback, OpCommit, OpDetach, OpForget, Op
  <1>10. CASE MainExit \/ MainGivesUp \/ Crash \/ MainStop
    BY <1>4, <1>10 DEF MainExit, MainGivesUp, Crash, Exits, MainStop
  <1>11. CASE MainStart \/ (\E k \in OpKinds, d \in Devices : Start(k, d)) \/ UNCHANGED vars
    BY <1>3, <1>11 DEF MainStart, Start, vars
  <1> QED BY <1>6, <1>7, <1>8, <1>9, <1>10, <1>11 DEF Next, MainNext

LEMMA OpStep == ASSUME IInv, [Next]_vars PROVE op' \in Ops /\ OpOK'
  <1> USE ConstantsAssumption DEF ConstantsAssumption
  <1>1. /\ op \in Ops /\ present \subseteq Devices /\ OpOK
        /\ RoutedDevices \cup Fallback \subseteq Devices
    BY TypeParts DEF IInv, TasksOK, KernelOK
  <1>2. op.todo \subseteq Devices /\ op.gone \subseteq Devices
    BY <1>1 DEF Ops
  <1>3. CASE UNCHANGED op
    BY <1>1, <1>3 DEF OpOK
  <1>4. CASE op' = NoOp
    BY <1>4, NoTasks DEF OpOK, NoOp
  <1>5. ASSUME NextDevice, op.pc \notin {"idle", "next"} PROVE op' \in Ops /\ OpOK'
    <2>1. "next" \in OpPcs /\ FALSE \in BOOLEAN
      BY DEF OpPcs
    <2>2. op' \in Ops
      BY <1>1, <1>5, <2>1, OpTyped DEF NextDevice
    <2>3. op'.pc = "next" /\ op'.todo = op.todo /\ op'.armed = FALSE
      BY <1>1, <1>5 DEF NextDevice, Ops
    <2> QED BY <1>1, <2>2, <2>3 DEF OpOK
  <1>f. ASSUME DeviceFailed, op.pc \notin {"idle", "next"} PROVE op' \in Ops /\ OpOK'
    <2>1. CASE op.armed
      <3>1. op' = [op EXCEPT !.pc = "rollback"] /\ "rollback" \in OpPcs
        BY <1>f, <2>1 DEF DeviceFailed, OpPcs
      <3>2. op' \in Ops
        BY <1>1, <3>1, OpTyped
      <3>3. /\ op'.pc = "rollback" /\ op'.dev = op.dev /\ op'.todo = op.todo
            /\ op'.armed = op.armed
        BY <1>1, <3>1 DEF Ops
      <3> QED BY <1>1, <1>f, <2>1, <3>2, <3>3 DEF OpOK
    <2> QED BY <1>5, <1>f, <2>1 DEF DeviceFailed
  <1>6. ASSUME NEW d \in Devices, Unplug(d) PROVE op' \in Ops /\ OpOK'
    <2>1. CASE op.pc # "idle"
      <3>1. op' = [op EXCEPT !.gone = op.gone \cup {d}]
        BY <1>6, <2>1 DEF Unplug
      <3>2. op' \in Ops
        BY <1>1, <1>2, <3>1, OpTyped
      <3>3. /\ op'.pc = op.pc /\ op'.dev = op.dev /\ op'.todo = op.todo
            /\ op'.armed = op.armed
        BY <1>1, <3>1 DEF Ops
      <3> QED BY <1>1, <2>1, <3>2, <3>3 DEF OpOK
    <2> QED BY <1>3, <1>6, <2>1 DEF Unplug
  <1>7. CASE RecResume /\ op' # op
    <2>1. PICK r \in SUBSET (Fallback \cap present) :
             op' = [NoOp EXCEPT !.pc = "next", !.kind = "resume", !.by = "reconcile",
                                !.todo = {d \in present : RuleMatches(d, r)}]
      BY <1>7 DEF RecResume
    <2>2. /\ {d \in present : RuleMatches(d, r)} \in SUBSET Devices
          /\ {d \in present : RuleMatches(d, r)} \subseteq RoutedDevices \cup Fallback
      BY <1>1 DEF RuleMatches
    <2> DEFINE S == {d \in present : RuleMatches(d, r)}
    <2> HIDE DEF S
    <2>3. "next" \in OpPcs /\ "resume" \in OpKinds
      BY DEF OpPcs, OpKinds
    <2>4. S \in SUBSET Devices /\ S \subseteq RoutedDevices \cup Fallback
      BY <2>2 DEF S
    <2>5. op' = [NoOp EXCEPT !.pc = "next", !.kind = "resume", !.by = "reconcile", !.todo = S]
      BY <2>1 DEF S
    <2>6. op' \in Ops
      BY <1>1, <2>3, <2>4, <2>5, OpTyped
    <2>7. op'.pc = "next" /\ op'.todo = S /\ op'.armed = FALSE
      BY <2>5 DEF NoOp
    <2> QED BY <2>4, <2>6, <2>7 DEF OpOK
  <1>8. ASSUME NEW k \in OpKinds, NEW d \in Devices, Start(k, d) PROVE op' \in Ops /\ OpOK'
    <2>1. op' = [NoOp EXCEPT !.pc = "next", !.kind = k, !.todo = {d}]
      BY <1>8 DEF Start
    <2>2. "next" \in OpPcs /\ {d} \in SUBSET Devices
      BY DEF OpPcs
    <2>3. op' \in Ops
      BY <1>1, <2>1, <2>2, OpTyped
    <2>4. op'.pc = "next" /\ op'.todo = {d} /\ op'.armed = FALSE
      BY <2>1 DEF NoOp
    <2> QED BY <1>8, <2>3, <2>4 DEF OpOK, Start
  <1>9. CASE OpNext
    <2>1. ASSUME NEW d \in Devices, OpDevice(d) PROVE op' \in Ops /\ OpOK'
      <3>1. PICK p \in {"authorize", "detach"} :
              \/ op' = [op EXCEPT !.todo = op.todo \ {d}]
              \/ op' = [[op EXCEPT !.todo = op.todo \ {d}] EXCEPT !.dev = d, !.pc = p]
        BY <2>1 DEF OpDevice
      <3>2. p \in OpPcs /\ op.todo \ {d} \in SUBSET Devices
        BY <1>2 DEF OpPcs
      <3>3. CASE op' = [op EXCEPT !.todo = op.todo \ {d}]
        <4>1. op' \in Ops
          BY <1>1, <3>2, <3>3, OpTyped
        <4>2. /\ op'.pc = op.pc /\ op'.dev = op.dev /\ op'.todo = op.todo \ {d}
              /\ op'.armed = op.armed /\ op.pc = "next"
          BY <1>1, <2>1, <3>3 DEF Ops, OpDevice, Op
        <4> QED BY <1>1, <4>1, <4>2 DEF OpOK
      <3>4. CASE op' = [[op EXCEPT !.todo = op.todo \ {d}] EXCEPT !.dev = d, !.pc = p]
        <4>1. op' \in Ops
          BY <1>1, <3>2, <3>4, OpTyped
        <4>2. /\ op'.pc = p /\ op'.dev = d /\ op'.todo = op.todo \ {d}
              /\ op'.armed = op.armed /\ op.pc = "next" /\ d \in op.todo
          BY <1>1, <2>1, <3>4 DEF Ops, OpDevice, Op
        <4> QED BY <1>1, <4>1, <4>2 DEF OpOK
      <3> QED BY <3>1, <3>3, <3>4
    <2>2. CASE OpEnd \/ OpEndOfResume
      BY <1>4, <2>2 DEF OpEnd, OpEndOfResume
    <2>3. CASE Authorize
      <3>1. CASE op' = [op EXCEPT !.pc = "configure", !.armed = Armed]
        <4>1. Armed \in BOOLEAN /\ "configure" \in OpPcs
          BY DEF Armed, OpPcs
        <4>2. op' \in Ops
          BY <1>1, <3>1, <4>1, OpTyped
        <4>3. op'.pc = "configure" /\ op'.dev = op.dev /\ op'.todo = op.todo /\ op'.armed = Armed
          BY <1>1, <3>1 DEF Ops
        <4>4. op.dev \in RoutedDevices \cup Fallback
          BY <1>1, <2>3 DEF Authorize, Op, OpOK
        <4> QED BY <1>1, <4>2, <4>3, <4>4 DEF OpOK, Armed
      <3>2. CASE Armed /\ op' = [op EXCEPT !.pc = "rollback", !.armed = TRUE]
        <4>1. TRUE \in BOOLEAN /\ "rollback" \in OpPcs
          BY DEF OpPcs
        <4>2. op' \in Ops
          BY <1>1, <3>2, <4>1, OpTyped
        <4>3. op'.pc = "rollback" /\ op'.dev = op.dev /\ op'.todo = op.todo /\ op'.armed
          BY <1>1, <3>2 DEF Ops
        <4>4. op.dev \in RoutedDevices \cup Fallback
          BY <1>1, <2>3 DEF Authorize, Op, OpOK
        <4> QED BY <1>1, <3>2, <4>2, <4>3, <4>4 DEF OpOK, Armed
      <3> QED BY <2>3, <3>1, <3>2 DEF Authorize
    <2>4. ASSUME NEW p \in OpPcs \ {"idle", "rollback"}, op.pc \notin {"idle", "next"},
                 op.armed => p \in {"release", "crosvm"}, op' = [op EXCEPT !.pc = p]
          PROVE  op' \in Ops /\ OpOK'
      <3>1. op' \in Ops
        BY <1>1, <2>4, OpTyped
      <3>2. /\ op'.pc = p /\ op'.dev = op.dev /\ op'.todo = op.todo
            /\ op'.armed = op.armed
        BY <1>1, <2>4 DEF Ops
      <3> QED BY <1>1, <2>4, <3>1, <3>2 DEF OpOK
    <2>5. CASE OpConfigure \/ OpRelease
      <3>1. \/ DeviceFailed
            \/ op' = [op EXCEPT !.pc = "release"]
            \/ op' = [op EXCEPT !.pc = "crosvm"]
        BY <2>5 DEF OpConfigure, OpRelease
      <3>2. op.pc \in {"configure", "release"} /\ "release" \in OpPcs /\ "crosvm" \in OpPcs
        BY <2>5 DEF OpConfigure, OpRelease, Op, OpPcs
      <3> QED BY <1>f, <2>4, <3>1, <3>2
    <2>6. CASE OpCrosvm
      <3>1. CASE op' = [op EXCEPT !.armed = FALSE, !.pc = "commit"]
        <4>1. "commit" \in OpPcs /\ FALSE \in BOOLEAN
          BY DEF OpPcs
        <4>2. op' \in Ops
          BY <1>1, <3>1, <4>1, OpTyped
        <4>3. op'.pc = "commit" /\ op'.dev = op.dev /\ op'.todo = op.todo /\ op'.armed = FALSE
          BY <1>1, <3>1 DEF Ops
        <4> QED BY <1>1, <2>6, <4>2, <4>3 DEF OpOK, OpCrosvm, Op
      <3> QED BY <1>f, <2>6, <3>1 DEF OpCrosvm, Op
    <2>7. CASE OpDetach
      <3>1. NextDevice \/ op' = [op EXCEPT !.pc = "forget"]
        BY <2>7 DEF OpDetach
      <3>2. op.pc = "detach" /\ ~op.armed /\ "forget" \in OpPcs
        BY <1>1, <2>7 DEF OpDetach, Op, OpOK, OpPcs
      <3> QED BY <1>5, <2>4, <3>1, <3>2
    <2>8. CASE OpCommit \/ OpForget \/ OpRollback
      BY <1>5, <2>8 DEF OpCommit, OpForget, OpRollback, Op
    <2> QED BY <1>9, <2>1, <2>2, <2>3, <2>5, <2>6, <2>7, <2>8 DEF OpNext
  <1>10. CASE MainExit \/ MainGivesUp \/ Crash \/ MainStop
    BY <1>3, <1>4, <1>10 DEF MainExit, MainGivesUp, Crash, MainStop, Exits
  <1>11. CASE \/ (HostNext /\ ~\E d \in Devices : Unplug(d)) \/ (RecNext /\ ~RecResume)
              \/ MainOpen \/ (\E d \in Devices : MainProbe(d)) \/ MainStart \/ UNCHANGED vars
    BY <1>3, <1>11 DEF HostNext, Plug, GuestClaim, VmDrop, VmStart, VmStop,
       RecNext, RecGate, RecRoute, RecNames, RecLoopEnd, RecObserve, RecDeauthorize,
       RecConfigure, RecRead, RecSettle, MainOpen, MainProbe, MainStart, vars
  <1> QED BY <1>3, <1>6, <1>7, <1>8, <1>9, <1>10, <1>11 DEF Next, HostNext, RecNext, MainNext

---------------------------------------------------------------------------
(* The tasks and the policy.                                               *)

LEMMA MainStep == ASSUME IInv, [Next]_vars PROVE MainOK'
  <1>1. main \in Mains /\ rec \in Recs /\ op \in Ops /\ OpOK /\ MainOK
    BY TypeParts DEF IInv, TasksOK
  <1>2. NoOp.pc = "idle" /\ NoOp.by = "api" /\ NoRec.pc = "idle" /\ NoMain.pc = "off"
    BY DEF NoOp, NoRec, NoMain
  <1>3. op.by = "reconcile" => op.pc # "idle"
    BY <1>1, <1>2 DEF OpOK
  <1>4. CASE HostNext
    <2>1. ASSUME NEW d \in Devices, Unplug(d) PROVE MainOK'
      <3>1. UNCHANGED <<autoprobe, main, rec>>
        BY <2>1 DEF Unplug
      <3>2. op'.pc = op.pc /\ op'.by = op.by
        BY <1>1, <2>1 DEF Unplug, Ops
      <3> QED BY <1>1, <3>1, <3>2 DEF MainOK
    <2>2. CASE HostNext /\ ~\E d \in Devices : Unplug(d)
      <3>1. UNCHANGED <<autoprobe, main, rec, op>>
        BY <2>2 DEF HostNext, Plug, GuestClaim, VmDrop, VmStart, VmStop, kernelVars
      <3> QED BY <1>1, <3>1 DEF MainOK
    <2> QED BY <1>4, <2>1, <2>2
  <1>5. CASE RecNext
    <2>1. UNCHANGED main
      BY <1>5 DEF RecNext, RecGate, RecRoute, RecNames, RecLoopEnd, RecObserve, RecResume,
         RecDeauthorize, RecConfigure, RecRead, RecSettle, Pass
    <2>2. CASE RecGate
      <3>1. rec'.pc \in {"configure", "observe"} /\ autoprobe' = FALSE /\ op' = op
        BY <2>2 DEF RecGate, GateFails, NoRec
      <3>2. main.pc = "run" /\ rec.pc = "idle"
        BY <2>2 DEF RecGate, Pass, Running
      <3> QED BY <1>1, <2>1, <3>1, <3>2 DEF MainOK
    <2>3. CASE RecResume
      <3>1. rec.pc = "resume" /\ op.pc = "idle" /\ autoprobe' = autoprobe
        BY <2>3 DEF RecResume, Pass
      <3>2. CASE op'.pc = "next" /\ rec' = rec
        BY <1>1, <2>1, <3>1, <3>2 DEF MainOK
      <3>3. CASE op' = op
        BY <1>1, <1>3, <2>1, <3>1, <3>3 DEF MainOK
      <3> QED BY <2>3, <3>2, <3>3 DEF RecResume, NoOp
    <2>4. CASE RecNext /\ ~RecGate /\ ~RecResume
      <3>1. UNCHANGED <<autoprobe, op>>
        BY <2>4 DEF RecNext, RecRoute, RecNames, RecLoopEnd, RecObserve,
           RecDeauthorize, RecConfigure, RecRead, RecSettle
      <3>2. rec.pc \notin {"idle", "resume"}
        BY <2>4 DEF RecNext, RecRoute, RecNames, RecLoopEnd, RecObserve,
           RecDeauthorize, RecConfigure, RecRead, RecSettle, Pass
      <3> QED BY <1>1, <1>2, <2>1, <3>1, <3>2 DEF MainOK
    <2> QED BY <1>5, <2>2, <2>3, <2>4
  <1>6. CASE OpNext
    <2>1. CASE OpEndOfResume
      <3>1. UNCHANGED <<autoprobe, main>> /\ op' = NoOp
        BY <2>1 DEF OpEndOfResume, kernelVars
      <3>2. rec.pc = "resume"
        BY <1>1, <2>1 DEF OpEndOfResume, MainOK
      <3> QED BY <1>1, <1>2, <3>1, <3>2 DEF MainOK
    <2>2. CASE OpEnd
      <3>1. UNCHANGED <<autoprobe, main, rec>> /\ op' = NoOp
        BY <2>2 DEF OpEnd, Op
      <3> QED BY <1>1, <1>2, <3>1 DEF MainOK
    <2>3. CASE OpNext /\ ~OpEndOfResume /\ ~OpEnd
      <3>1. UNCHANGED <<autoprobe, main, rec>> /\ op.pc # "idle"
        BY <2>3 DEF OpNext, OpDevice, Authorize, OpConfigure, OpRelease, OpCrosvm,
           OpRollback, OpCommit, OpDetach, OpForget, Op
      <3>2. op'.by = op.by
        <4>1. CASE NextDevice
          BY <1>1, <4>1 DEF NextDevice, Ops
        <4>2. CASE OpNext /\ ~NextDevice /\ ~OpEndOfResume /\ ~OpEnd
          BY <1>1, <4>2 DEF OpNext, OpDevice, Authorize, OpConfigure, OpRelease, OpCrosvm,
             OpRollback, OpCommit, OpDetach, OpForget, DeviceFailed, Ops
        <4> QED BY <2>3, <4>1, <4>2
      <3> QED BY <1>1, <3>1, <3>2 DEF MainOK
    <2> QED BY <1>6, <2>1, <2>2, <2>3
  <1>7. CASE MainNext
    <2>1. CASE MainExit \/ MainGivesUp
      BY <1>2, <2>1 DEF MainExit, MainGivesUp, Exits, MainOK
    <2>2. CASE MainOpen \/ \E d \in Devices : MainProbe(d)
      <3>1. UNCHANGED <<rec, op>> /\ main'.pc = "probe" /\ main.pc \in {"open", "probe"}
        <4>1. CASE MainOpen
          BY <1>1, <4>1 DEF MainOpen, Mains
        <4>2. CASE \E d \in Devices : MainProbe(d)
          BY <1>1, <4>2 DEF MainProbe, Mains
        <4> QED BY <2>2, <4>1, <4>2
      <3> QED BY <1>1, <3>1 DEF MainOK
    <2> QED BY <1>7, <2>1, <2>2 DEF MainNext
  <1>8. CASE Crash
    BY <1>2, <1>8 DEF Crash, Exits, MainOK, kernelVars
  <1>9. CASE MainStart
    <2>1. main'.pc = "run" /\ autoprobe' = FALSE /\ UNCHANGED <<rec, op>>
      BY <1>9 DEF MainStart, NoMain
    <2> QED BY <1>1, <2>1 DEF MainOK
  <1>10. CASE MainStop
    <2>1. main'.pc = "open" /\ rec' = NoRec /\ op'.by # "reconcile" /\ UNCHANGED autoprobe
      BY <1>2, <1>10 DEF MainStop, NoMain
    <2>2. ~autoprobe
      BY <1>1, <1>10 DEF MainStop, Running, MainOK
    <2> QED BY <1>2, <2>1, <2>2 DEF MainOK
  <1>11. ASSUME NEW k \in OpKinds, NEW d \in Devices, Start(k, d) PROVE MainOK'
    <2>1. /\ main.pc # "off" /\ op'.by = "api"
          /\ UNCHANGED <<main, rec, autoprobe>>
      BY <1>11 DEF Start, NoOp, kernelVars
    <2> QED BY <1>1, <2>1 DEF MainOK
  <1>12. CASE UNCHANGED vars
    BY <1>1, <1>12 DEF vars, kernelVars, MainOK
  <1> QED BY <1>4, <1>5, <1>6, <1>7, <1>8, <1>9, <1>10, <1>11, <1>12 DEF Next

LEMMA PolicyStep == ASSUME IInv, [Next]_vars PROVE PolicyOK'
  <1>1. KernelOK /\ MainOK /\ PolicyOK /\ main \in Mains
    BY TypeParts DEF IInv, TasksOK
  <1>2. NoRec.pc = "idle" /\ NoMain.pc = "off"
    BY DEF NoRec, NoMain
  <1>3. CASE MainStart
    <2>1. closed' = (closed \/ Authorization) /\ rec' = rec /\ UNCHANGED present
      BY <1>3 DEF MainStart
    <2>2. ~Authorization => authorized' = authorized
      BY <1>3 DEF MainStart, HostDevices, SetAuthorized
    <2> QED BY <1>1, <2>1, <2>2 DEF PolicyOK
  <1>4. (closed => Authorization) /\ (closed' = closed \/ MainStart)
    BY <1>1 DEF PolicyOK, Next, HostNext, Plug, Unplug, GuestClaim, VmDrop, VmStart, VmStop,
       RecNext, RecGate, RecRoute, RecNames, RecLoopEnd, RecObserve, RecResume,
       RecDeauthorize, RecConfigure, RecRead, RecSettle,
       OpNext, OpDevice, OpEnd, OpEndOfResume, Authorize, OpConfigure, OpRelease,
       OpCrosvm, OpRollback, OpCommit, OpDetach, OpForget, Op,
       MainNext, MainOpen, MainGivesUp, MainExit, MainProbe, Start, MainStop, Crash, vars, kernelVars
  <1>5. main'.pc # "off" => main.pc # "off" \/ MainStart
    BY <1>1, <1>2 DEF Next, HostNext, Plug, Unplug, GuestClaim, VmDrop, VmStart, VmStop,
       RecNext, RecGate, RecRoute, RecNames, RecLoopEnd, RecObserve, RecResume,
       RecDeauthorize, RecConfigure, RecRead, RecSettle, Pass,
       OpNext, OpDevice, OpEnd, OpEndOfResume, Authorize, OpConfigure, OpRelease,
       OpCrosvm, OpRollback, OpCommit, OpDetach, OpForget, Op,
       MainNext, MainOpen, MainGivesUp, MainExit, MainProbe, Exits, Start, MainStop, Running, Crash, vars
  <1>6. ASSUME ~Authorization, ~MainStart
        PROVE  authorized' = present'
    <2>1. authorized = present /\ rec.pc # "deauthorize" /\ ~closed /\ op.armed = FALSE
      BY <1>1, <1>6, TypeParts, Zenon DEF PolicyOK, IInv, TasksOK, OpOK, Ops
    <2>2. Rollback = {} /\ Aborted = {} /\ Revoked = {} /\ ~Armed /\ HostDevices = {}
      BY <1>6, <2>1 DEF Rollback, Aborted, Revoked, Armed, HostDevices
    <2>3. ASSUME SetAuthorized({}, {}) PROVE authorized' = authorized
      BY <2>3 DEF SetAuthorized
    <2>4. CASE HostNext
      <3>1. CASE \E d \in Devices : Plug(d)
        <4>1. PICK d \in Devices : present' = present \cup {d} /\ SetAuthorized({d}, {})
          BY <2>1, <3>1 DEF Plug
        <4>2. authorized' = (authorized \cup {d}) \ {}
          BY <4>1 DEF SetAuthorized
        <4> QED BY <2>1, <4>1, <4>2
      <3>2. CASE \E d \in Devices : Unplug(d)
        BY <2>1, <3>2 DEF Unplug
      <3>3. CASE (\E d \in Devices : GuestClaim(d) \/ VmDrop(d)) \/ VmStart \/ VmStop
        BY <2>1, <3>3 DEF GuestClaim, VmDrop, VmStart, VmStop, kernelVars
      <3> QED BY <2>4, <3>1, <3>2, <3>3 DEF HostNext
    <2>5. CASE RecNext
      <3>1. UNCHANGED <<present, authorized>>
        BY <2>1, <2>2, <2>5 DEF RecNext, RecGate, RecRoute, RecNames, RecLoopEnd, RecObserve,
           RecResume, RecDeauthorize, RecConfigure, RecRead, RecSettle, Pass
      <3> QED BY <2>1, <3>1
    <2>6. CASE OpNext
      <3>1. UNCHANGED present
        BY <2>6 DEF OpNext, OpDevice, OpEnd, OpEndOfResume, Authorize, OpConfigure, OpRelease,
           OpCrosvm, OpRollback, OpCommit, OpDetach, OpForget, Op, kernelVars
      <3>2. UNCHANGED authorized \/ SetAuthorized({}, {})
        <4>1. CASE OpForget \/ OpRollback
          BY <2>2, <4>1 DEF OpForget, OpRollback
        <4>2. CASE OpNext /\ ~OpForget /\ ~OpRollback
          BY <2>2, <4>2 DEF OpNext, OpDevice, OpEnd, OpEndOfResume, Authorize, OpConfigure,
             OpRelease, OpCrosvm, OpCommit, OpDetach, DeviceFailed, kernelVars
        <4> QED BY <2>6, <4>1, <4>2
      <3> QED BY <2>1, <2>3, <3>1, <3>2
    <2>7. CASE MainNext \/ MainStop \/ Crash
      <3>1. UNCHANGED present /\ (UNCHANGED authorized \/ SetAuthorized({}, {}))
        BY <2>2, <2>7 DEF MainNext, MainOpen, MainGivesUp, MainExit, MainProbe, MainStop, Crash, kernelVars
      <3> QED BY <2>1, <2>3, <3>1
    <2>8. CASE (\E k \in OpKinds, d \in Devices : Start(k, d)) \/ UNCHANGED vars
      BY <2>1, <2>8 DEF Start, vars, kernelVars
    <2> QED BY <1>6, <2>4, <2>5, <2>6, <2>7, <2>8 DEF Next
  <1>7. rec'.pc = "deauthorize" => Authorization /\ DeauthorizeUnmatched
    <2>1. (rec.pc = "deauthorize" => Authorization /\ DeauthorizeUnmatched) /\ rec \in Recs
      BY <1>1, TypeParts DEF PolicyOK, IInv, TasksOK
    <2>2. CASE RecNext
      <3>1. CASE RecGate \/ RecRoute \/ RecNames \/ RecLoopEnd \/ RecObserve
        BY <1>2, <2>1, <3>1 DEF RecGate, RecRoute, RecNames, RecLoopEnd, RecObserve, GateFails,
           Recs, NoRec
      <3>2. CASE RecResume \/ RecDeauthorize
        BY <1>2, <2>1, <3>2 DEF RecResume, AfterResume, RecDeauthorize, Pass, Recs
      <3>3. CASE RecSettle \/ \E d \in Devices : RecConfigure(d) \/ RecRead(d)
        BY <2>1, <3>3 DEF RecConfigure, RecRead, Outcome, RecSettle, Pass, Recs
      <3> QED BY <2>2, <3>1, <3>2, <3>3 DEF RecNext
    <2>3. CASE ~RecNext
      BY <1>2, <2>1, <2>3 DEF AfterResume, Next, HostNext, Plug, Unplug, GuestClaim, VmDrop, VmStart,
         VmStop, OpNext, OpDevice, OpEnd, OpEndOfResume, Authorize, OpConfigure, OpRelease,
         OpCrosvm, OpRollback, OpCommit, OpDetach, OpForget, Op, Recs,
         MainNext, MainOpen, MainGivesUp, MainExit, MainProbe, Exits, Start, MainStart, MainStop, Crash, vars
    <2> QED BY <2>2, <2>3
  <1> QED BY <1>1, <1>3, <1>4, <1>5, <1>6, <1>7 DEF PolicyOK

---------------------------------------------------------------------------

LEMMA InitIInv == Init => IInv
  <1> SUFFICES ASSUME Init PROVE IInv OBVIOUS
  <1> USE ConstantsAssumption DEF ConstantsAssumption
  <1>1. KernelOK
    BY NativeDriver DEF Init, KernelOK, Drivers
  <1>2. RecordsOK
    BY DEF Init, RecordsOK
  <1>3. TasksOK
    BY NoTasks DEF Init, TasksOK
  <1>4. CountsOK
    <2>1. autoprobe = TRUE /\ closed = FALSE /\ vmUp \in BOOLEAN
      BY DEF Init
    <2>2. plugs = 0 /\ faults = 0 /\ requests = 0 /\ starts = 0
      BY DEF Init
    <2> QED BY <2>1, <2>2, Zenon DEF CountsOK
  <1>5. RecOK /\ OpOK /\ MainOK /\ PolicyOK
    BY DEF Init, RecOK, OpOK, MainOK, PolicyOK, NoMain, NoRec, NoOp
  <1> QED BY <1>1, <1>2, <1>3, <1>4, <1>5, TypeParts DEF IInv

\* Every step keeps the types, the order of a request, what the daemon's state
\* says of its tasks, and the authorization of every device without
\* usbAuthorization.
LEMMA Invariance == Spec => []IInv
  <1>1. ASSUME IInv, [Next]_vars PROVE IInv'
    <2>1. main' \in Mains /\ rec' \in Recs /\ RecOK' /\ op' \in Ops /\ OpOK'
      BY <1>1, MainTyped, RecStepTyped, OpStep
    <2>2. TypeOK'
      BY <1>1, <2>1, KernelStep, RecordsStep, CountsStep, TypePartsNext DEF TasksOK, Mains, Recs, Ops
    <2> QED BY <1>1, <2>1, <2>2, MainStep, PolicyStep DEF IInv
  <1> QED BY <1>1, InitIInv, PTL DEF Spec

\* The variables keep their types: what is authorized is plugged in, what is
\* configured is authorized, and only what is configured has a driver.
THEOREM TypeCorrect == Spec => []TypeOK
  BY Invariance, PTL DEF IInv

---------------------------------------------------------------------------
(* The gate: what was taken from a driver is not given back.               *)

LEMMA LeastNatural ==
    ASSUME NEW T \in SUBSET Nat, T # {}
    PROVE  \E m \in T : \A k \in T : m <= k
  <1>1. PICK R : IsWellFoundedOn(R, Nat) /\ \A x, y \in Nat : <<y, x>> \in R <=> y < x
    <2>1. \A x, y \in Nat : <<y, x>> \in OpToRel(<, Nat) <=> y < x
      BY DEF OpToRel
    <2> QED BY <2>1, NatLessThanWellFounded
  <1>2. PICK m \in T : \A k \in T : ~ (<<k, m>> \in R)
    BY <1>1, WFMin, Zenon
  <1>3. \A k \in T : ~(k < m) /\ k \in Nat /\ m \in Nat
    BY <1>1, <1>2
  <1> QED BY <1>3

\* Of finitely many devices one is scanned last.
LEMMA LastScanned ==
    ASSUME NEW S \in SUBSET Devices, S # {}
    PROVE  \E t \in S : \A x \in S : Rank[x] <= Rank[t]
  <1> DEFINE Last(T) == \E t \in T : \A x \in T : Rank[x] <= Rank[t]
             Bad == {T \in SUBSET Devices : T # {} /\ ~Last(T)}
  <1>1. \A d \in Devices : Rank[d] \in Nat
    BY ConstantsAssumption DEF ConstantsAssumption
  <1>2. \A T \in SUBSET Devices : IsFiniteSet(T) /\ Cardinality(T) \in Nat
    BY ConstantsAssumption, FS_Subset, FS_CardinalityType DEF ConstantsAssumption
  <1> SUFFICES ASSUME Bad # {} PROVE FALSE
    OBVIOUS
  <1>3. PICK T \in Bad : \A U \in Bad : Cardinality(T) <= Cardinality(U)
    <2> DEFINE Sizes == {Cardinality(U) : U \in Bad}
    <2>1. Sizes \in SUBSET Nat /\ Sizes # {}
      BY <1>2
    <2>2. PICK m \in Sizes : \A k \in Sizes : m <= k
      BY <2>1, LeastNatural
    <2> QED BY <2>2
  <1>4. PICK y : y \in T
    BY <1>3
  <1>5. Cardinality(T \ {y}) = Cardinality(T) - 1
    BY <1>2, <1>3, <1>4, FS_RemoveElement
  <1>6. T \ {y} \notin Bad
    <2>1. Cardinality(T \ {y}) < Cardinality(T)
      BY <1>2, <1>3, <1>5
    <2>2. Cardinality(T \ {y}) \in Nat /\ Cardinality(T) \in Nat
      BY <1>2, <1>3
    <2> HIDE DEF Bad
    <2>3. ASSUME T \ {y} \in Bad PROVE Cardinality(T) <= Cardinality(T \ {y})
      BY <1>3, <2>3
    <2> QED BY <2>1, <2>2, <2>3
  <1>7. CASE T = {y}
    BY <1>1, <1>3, <1>7
  <1>8. CASE T # {y}
    <2>1. PICK t \in T \ {y} : \A x \in T \ {y} : Rank[x] <= Rank[t]
      BY <1>3, <1>4, <1>6, <1>8
    <2>2. Rank[y] <= Rank[t] => Last(T)
      BY <2>1
    <2>3. Rank[t] <= Rank[y] => Last(T)
      BY <1>1, <1>3, <1>4, <2>1
    <2> QED BY <1>1, <1>3, <1>4, <2>1, <2>2, <2>3
  <1> QED BY <1>7, <1>8

\* A verdict that is given, or remembered, is remembered for the next pass,
\* unless a twin overrules it.
LEMMA Remembered ==
    ASSUME present \subseteq Devices, NEW r \in SUBSET Fallback,
           NEW d \in {x \in present : Matched(x, r)} \ Overruled, d \notin RoutedDevices
    PROVE  Id[d] \in {Id[e] : e \in {e \in {x \in present : Matched(x, r)} :
                        \A x \in present : Id[x] = Id[e] => Rank[x] <= Rank[e]}}
  <1> DEFINE Twins == {x \in present : Id[x] = Id[d]}
  <1>1. Twins \in SUBSET Devices /\ d \in Twins
    OBVIOUS
  <1>2. PICK t \in Twins : \A x \in Twins : Rank[x] <= Rank[t]
    BY <1>1, LastScanned
  <1>3. Matched(t, r)
    <2>1. CASE Id[d] \in cache
      BY <1>2, <2>1 DEF Matched
    <2>2. CASE d \in Fallback
      <3>1. t = d \/ t \in RoutedDevices
        BY <1>1, <1>2, <2>2 DEF Overruled
      <3> QED BY <3>1 DEF Matched, RuleMatches
    <2> QED BY <2>1, <2>2 DEF Matched, RuleMatches
  <1> QED BY <1>2, <1>3

LEMMA TakenStep == ASSUME IInv, TakenOK, [Next]_vars PROVE TakenOK'
  <1>1. KernelOK /\ RecordsOK /\ rec \in Recs /\ op \in Ops /\ MainOK
    BY TypeParts DEF IInv, TasksOK
  <1>2. NoRec.pc = "idle" /\ NoRec.routed = {}
    BY DEF NoRec
  <1>3. CASE UNCHANGED <<rec, cache, marked>> /\ taken' \subseteq taken
    BY <1>3 DEF TakenOK, Settling, Marked
  \* a step of the pass outside settling: nothing is routed
  <1>n. ASSUME UNCHANGED <<cache, marked>>, taken' \subseteq taken,
               rec'.pc \notin Settling, rec'.routed \in {rec.routed, {}},
               rec'.pc = "observe" \/ rec'.routed = {}
        PROVE  TakenOK'
    BY <1>n DEF TakenOK, Settling, Marked
  <1>4. CASE HostNext
    <2>1. UNCHANGED <<rec, cache, marked>> /\ taken' \subseteq taken
      BY <1>4 DEF HostNext, Plug, Unplug, GuestClaim, VmDrop, VmStart, VmStop, stateVars
    <2> QED BY <1>3, <2>1
  <1>5. CASE RecNext
    <2>1. UNCHANGED marked
      BY <1>5 DEF RecNext, RecGate, RecRoute, RecNames, RecLoopEnd, RecObserve, RecResume,
         RecDeauthorize, RecConfigure, RecRead, RecSettle, Pass
    <2>f. CASE GateFails /\ UNCHANGED <<cache, taken>>
      <3>1. rec'.pc = "observe" /\ rec'.routed = {}
        BY <2>f DEF GateFails, NoRec
      <3>2. rec'.pc \notin Settling
        BY <3>1 DEF Settling
      <3> QED BY <1>n, <2>1, <2>f, <3>1, <3>2
    <2>2. CASE RecRoute /\ ~GateFails
      <3>1. PICK r \in SUBSET (Fallback \cap present) :
             LET matched == {d \in present : Matched(d, r)} IN
             /\ cache' = {Id[d] : d \in {e \in matched :
                            \A x \in present : Id[x] = Id[e] => Rank[x] <= Rank[e]}}
             /\ rec' = [rec EXCEPT !.pc = "names", !.routed = Routed(matched)]
        BY <2>2 DEF RecRoute
      <3> DEFINE matched == {d \in present : Matched(d, r)}
      <3>2. rec'.pc = "names" /\ rec'.routed = matched \ Marked /\ taken' = taken
        BY <1>1, <2>2, <3>1 DEF Recs, Routed, RecRoute
      <3>3. taken \ Overruled \subseteq matched
        BY <1>1 DEF TakenOK, RecordsOK, Matched, RuleMatches
      <3>4. ASSUME NEW d \in matched \ Overruled, d \notin RoutedDevices PROVE Id[d] \in cache'
        <4>1. r \in SUBSET Fallback /\ present \subseteq Devices
          BY <1>1 DEF KernelOK
        <4>2. Id[d] \in {Id[e] : e \in {e \in {x \in present : Matched(x, r)} :
                        \A x \in present : Id[x] = Id[e] => Rank[x] <= Rank[e]}}
          BY <3>4, <4>1, Remembered
        <4> QED BY <3>1, <4>2
      <3> HIDE DEF matched
      <3> QED BY <2>1, <3>2, <3>3, <3>4 DEF TakenOK, Settling, Marked
    <2>3. CASE RecSettle
      <3>1. /\ rec.pc \in {"release", "probe"} /\ rec'.pc = "settle"
            /\ rec'.routed = rec.routed /\ UNCHANGED cache
        BY <1>1, <2>3 DEF RecSettle, Pass, Recs
      <3>2. \/ taken' = taken
            \/ rec.dev \in rec.routed /\ taken' = taken \cup ({rec.dev} \ Marked)
        BY <1>1, <2>3 DEF RecSettle, Settle, IInv, RecOK
      <3> QED BY <2>1, <3>1, <3>2 DEF TakenOK, Settling, Marked
    <2>4. CASE \/ (RecGate /\ ~GateFails) \/ RecDeauthorize
               \/ (\E d \in Devices : RecConfigure(d))
      <3>1. UNCHANGED <<cache, taken>> /\ rec.pc \in {"idle", "configure", "deauthorize"}
        BY <2>4 DEF RecGate, RecDeauthorize, RecConfigure, Pass
      <3>2. /\ rec'.routed \in {rec.routed, {}}
            /\ rec'.pc \in {"idle", "configure", "deauthorize"}
        BY <1>1, <1>2, <2>4 DEF RecGate, RecDeauthorize, RecConfigure, Pass, Recs, NoRec
      <3> QED BY <2>1, <3>1, <3>2 DEF TakenOK, Settling, Marked
    <2>5. CASE \/ (RecNames /\ ~GateFails) \/ RecLoopEnd \/ RecObserve
               \/ \E d \in Devices : RecRead(d)
      <3>1. UNCHANGED <<cache, taken>>
        BY <2>5 DEF RecNames, RecLoopEnd, RecObserve, RecRead
      <3>2. /\ rec'.routed \in {rec.routed, {}}
            /\ rec'.pc \in {"settle", "release", "probe"} =>
                  rec.pc \in {"names", "settle"} /\ rec'.routed = rec.routed
            /\ rec'.pc \in {"settle", "release", "probe", "route", "observe", "resume", "idle"}
            /\ rec'.pc = "route" => rec.routed = {}
            /\ rec'.pc \in {"resume", "idle"} => rec'.routed = {}
        <4>1. CASE RecNames /\ ~GateFails
          BY <1>1, <4>1 DEF RecNames, Pass, Recs
        <4>2. CASE RecLoopEnd
          BY <1>1, <4>2 DEF RecLoopEnd, Pass, Recs, TakenOK, Settling
        <4>3. CASE RecObserve
          BY <1>2, <4>3 DEF RecObserve, Pass, NoRec
        <4>4. ASSUME NEW d \in Devices, RecRead(d)
              PROVE  /\ rec.pc = "settle" /\ rec'.routed = rec.routed
                     /\ rec'.pc \in {"settle", "release", "probe"}
          BY <1>1, <4>4 DEF RecRead, Pass, Recs, Outcome
        <4> QED BY <2>5, <4>1, <4>2, <4>3, <4>4
      <3> QED BY <2>1, <3>1, <3>2 DEF TakenOK, Settling, Marked
    <2>6. CASE RecResume
      <3>1. UNCHANGED <<cache, taken>> /\ rec.pc = "resume"
        BY <2>6 DEF RecResume, Pass
      <3>2. rec'.pc \in {"resume", "idle", "deauthorize"} /\ rec'.routed \in {rec.routed, {}}
        BY <1>1, <1>2, <2>6, <3>1 DEF RecResume, AfterResume, Recs
      <3> QED BY <2>1, <3>1, <3>2 DEF TakenOK, Settling, Marked
    <2>7. CASE (RecGate \/ RecRoute \/ RecNames) /\ GateFails
      <3>1. rec'.pc = "observe"
        BY <2>7 DEF GateFails, NoRec
      <3>2. UNCHANGED <<cache, taken>>
        BY <1>1, <2>7, <3>1 DEF RecGate, RecRoute, RecNames, Recs
      <3> QED BY <2>f, <2>7, <3>2
    <2> QED BY <1>5, <2>2, <2>3, <2>4, <2>5, <2>6, <2>7 DEF RecNext
  <1>6. CASE OpNext
    <2>1. CASE OpEndOfResume
      <3>1. rec.pc = "resume" \/ op.by = "api"
        BY <1>1, <2>1 DEF MainOK, Ops
      <3>2. /\ UNCHANGED <<cache, taken, marked>> /\ rec.pc = "resume"
            /\ rec'.pc \in {"idle", "deauthorize"} /\ rec'.routed \in {rec.routed, {}}
        BY <1>1, <1>2, <2>1, <3>1 DEF OpEndOfResume, AfterResume, stateVars, Recs
      <3> QED BY <3>2 DEF TakenOK, Settling, Marked
    <2>2. CASE OpCommit
      <3>1. UNCHANGED <<rec, cache, taken>> /\ marked' \subseteq marked
        BY <2>2 DEF OpCommit, Op
      <3> QED BY <3>1 DEF TakenOK, Settling, Marked
    <2>3. CASE OpForget
      <3>1. UNCHANGED <<rec, cache>> /\ taken' = taken \ Marked'
        BY <2>3 DEF OpForget, Op
      <3> QED BY <3>1 DEF TakenOK, Settling
    <2>4. CASE OpNext /\ ~OpEndOfResume /\ ~OpCommit /\ ~OpForget
      <3>1. UNCHANGED <<rec, cache, taken, marked>>
        BY <2>4 DEF OpNext, OpDevice, OpEnd, Authorize, OpConfigure, OpRelease, OpCrosvm,
           OpRollback, OpDetach, Op, stateVars
      <3> QED BY <1>3, <3>1
    <2> QED BY <1>6, <2>1, <2>2, <2>3, <2>4
  <1>7. CASE MainExit \/ MainGivesUp \/ Crash
    <2>1. rec' = NoRec /\ taken' = {}
      BY <1>7 DEF MainExit, MainGivesUp, Crash, Exits
    <2> QED BY <1>2, <2>1 DEF TakenOK, Settling
  <1>8. CASE MainStop
    <2>1. rec' = NoRec /\ UNCHANGED <<cache, taken, marked>>
      BY <1>8 DEF MainStop, stateVars
    <2> QED BY <1>2, <2>1 DEF TakenOK, Settling, Marked
  <1>9. CASE \/ MainOpen \/ (\E d \in Devices : MainProbe(d)) \/ MainStart \/ UNCHANGED vars
             \/ (\E k \in OpKinds, d \in Devices : Start(k, d))
    <2>1. UNCHANGED <<rec, cache, marked, taken>>
      BY <1>9 DEF MainOpen, MainProbe, MainStart, Start, vars, stateVars
    <2> QED BY <1>3, <2>1
  <1> QED BY <1>4, <1>5, <1>6, <1>7, <1>8, <1>9 DEF Next, MainNext

\* A gate pass never binds a host driver to a device an earlier pass took off
\* one: what the rules, or the remembered verdict, routed then is routed now,
\* whatever can be read of it, unless its mark says otherwise.  Overruled is
\* left out: a twin scanned later, which no rule matches, makes the scan forget
\* the verdict (VerdictsRemembered).
THEOREM TakenStaysFree == Spec => NoBindCycle
  <1>1. Init => TakenOK
    BY DEF Init, TakenOK, Settling, NoRec
  <1>2. ASSUME IInv, TakenOK, NEW d \in taken \ Overruled, RecSettle
        PROVE  driver'[d] \in {driver[d], "none"}
    <2>1. d \in rec.routed
      BY <1>2 DEF RecSettle, Pass, TakenOK, Settling
    <2>2. driver \in [Devices -> Drivers] /\ d \in Devices
      BY <1>2, TypeParts DEF IInv, KernelOK, RecordsOK
    <2>3. CASE rec.pc = "release"
      BY <1>2, <2>2, <2>3 DEF RecSettle, Settle
    <2>4. CASE rec.pc = "probe"
      <3>1. rec.dev # d
        BY <1>2, <2>1, <2>4 DEF IInv, RecOK
      <3> QED BY <1>2, <2>2, <2>4, <3>1 DEF RecSettle, Settle, ProbeInterface
    <2> QED BY <1>2, <2>3, <2>4 DEF RecSettle, Pass
  <1>3. ASSUME IInv, TakenOK, [Next]_vars
        PROVE  [\A d \in taken \ Overruled :
                   RecSettle => driver'[d] \in {driver[d], "none"}]_vars
    BY <1>2, <1>3
  <1>4. ASSUME IInv, TakenOK, [Next]_vars PROVE TakenOK'
    BY <1>4, TakenStep
  <1> QED BY <1>1, <1>3, <1>4, Invariance, PTL DEF Spec, NoBindCycle

---------------------------------------------------------------------------
(* Requests: what Crosvm gets is configured.                               *)

\* What a step of an attach leaves of the device it works on.
LEMMA ConfigStep ==
    ASSUME IInv, ConfigOK, AttachKeepsAuthorization, [Next]_vars PROVE ConfigOK'
  <1> USE ConstantsAssumption DEF ConstantsAssumption
  <1>1. /\ KernelOK /\ RecordsOK /\ rec \in Recs /\ op \in Ops /\ OpOK /\ MainOK /\ PolicyOK
        /\ authorized \subseteq present /\ configured \subseteq authorized
    BY TypeParts DEF IInv, TasksOK, KernelOK
  <1>2. ASSUME UNCHANGED op, authorized \subseteq authorized', configured \subseteq configured'
        PROVE  ConfigOK'
    BY <1>2 DEF ConfigOK
  <1>3. ASSUME op'.pc \notin {"configure", "release", "crosvm"} PROVE ConfigOK'
    BY <1>3 DEF ConfigOK
  <1>4. NoOp.pc = "idle"
    BY DEF NoOp
  <1>5. ASSUME NextDevice \/ DeviceFailed PROVE ConfigOK'
    BY <1>1, <1>3, <1>5 DEF NextDevice, DeviceFailed, Ops
  <1>6. CASE HostNext
    <2>1. ASSUME NEW d \in Devices, Plug(d) PROVE ConfigOK'
      BY <1>2, <2>1 DEF Plug, SetAuthorized
    <2>2. ASSUME NEW d \in Devices, Unplug(d) PROVE ConfigOK'
      <3>1. CASE op.pc = "idle"
        BY <1>3, <2>2, <3>1 DEF Unplug
      <3>2. CASE op.pc # "idle"
        <4>1. /\ op'.pc = op.pc /\ op'.dev = op.dev /\ op'.gone = op.gone \cup {d}
              /\ authorized' = authorized \ {d} /\ configured' = configured \ {d}
          BY <1>1, <2>2, <3>2 DEF Unplug, Ops
        <4> QED BY <4>1 DEF ConfigOK
      <3> QED BY <3>1, <3>2
    <2>3. CASE (\E d \in Devices : GuestClaim(d) \/ VmDrop(d)) \/ VmStart \/ VmStop
      BY <1>2, <2>3 DEF GuestClaim, VmDrop, VmStart, VmStop, kernelVars
    <2> QED BY <1>6, <2>1, <2>2, <2>3 DEF HostNext
  <1>7. CASE RecNext
    <2>1. CASE RecDeauthorize
      BY <1>1, <2>1 DEF RecDeauthorize, Pass, PolicyOK, AttachKeepsAuthorization
    <2>2. CASE RecResume
      BY <1>2, <1>3, <2>2 DEF RecResume, NoOp
    <2>3. CASE RecNext /\ ~RecDeauthorize /\ ~RecResume
      <3>1. UNCHANGED op /\ authorized \subseteq authorized' /\ configured \subseteq configured'
        BY <2>3 DEF RecNext, RecGate, RecRoute, RecNames, RecLoopEnd, RecObserve,
           RecConfigure, RecRead, RecSettle, ProbeDevice
      <3> QED BY <1>2, <3>1
    <2> QED BY <1>7, <2>1, <2>2, <2>3
  <1>8. CASE OpNext
    <2>1. CASE (\E d \in Devices : OpDevice(d)) \/ OpEnd \/ OpEndOfResume
      <3>1. op.pc = "next"
        BY <2>1 DEF OpDevice, OpEnd, OpEndOfResume, Op
      <3>2. op'.pc \in {"idle", "next", "authorize", "detach"}
        BY <1>1, <1>4, <2>1, <3>1 DEF OpDevice, OpEnd, OpEndOfResume, Ops
      <3> QED BY <1>3, <3>2
    <2>2. CASE Authorize
      <3>1. CASE /\ SetAuthorized(IF Armed THEN {op.dev} ELSE {}, {})
                 /\ op'.pc = "configure" /\ op'.dev = op.dev /\ op'.gone = op.gone
        <4>1. op.dev \in RoutedDevices \cup Fallback
          BY <1>1, <2>2 DEF Authorize, Op, OpOK
        <4>2. Authorization => op.dev \in authorized'
          BY <3>1, <4>1 DEF Armed, SetAuthorized, AttachKeepsAuthorization
        <4> QED BY <3>1, <4>2 DEF ConfigOK
      <3>2. CASE op'.pc = "rollback"
        BY <1>3, <3>2
      <3> QED BY <1>1, <2>2, <3>1, <3>2 DEF Authorize, Ops
    <2>3. CASE OpConfigure
      <3>1. CASE op.dev \in present /\ Configure /\ op' = [op EXCEPT !.pc = "release"]
        <4>1. op'.pc = "release" /\ op'.dev = op.dev /\ op'.gone = op.gone
          BY <1>1, <3>1 DEF Ops
        <4>2. op.dev \in authorized \cup op.gone
          BY <1>1, <2>3, <3>1 DEF OpConfigure, Op, ConfigOK, PolicyOK
        <4>3. configured' = configured \cup ({op.dev} \cap authorized)
          BY <3>1 DEF Configure, ProbeDevice
        <4> QED BY <4>1, <4>2, <4>3 DEF ConfigOK
      <3> QED BY <1>5, <2>3, <3>1 DEF OpConfigure
    <2>4. CASE OpRelease
      <3>1. CASE /\ op' = [op EXCEPT !.pc = "crosvm"]
                 /\ UNCHANGED <<authorized, configured>>
        <4>1. op'.pc = "crosvm" /\ op'.dev = op.dev /\ op'.gone = op.gone /\ op.pc = "release"
          BY <1>1, <2>4, <3>1 DEF Ops, OpRelease, Op
        <4> QED BY <3>1, <4>1 DEF ConfigOK
      <3> QED BY <1>5, <2>4, <3>1 DEF OpRelease
    <2>5. CASE OpCrosvm \/ OpRollback \/ OpCommit \/ OpDetach \/ OpForget
      BY <1>1, <1>3, <1>5, <2>5 DEF OpCrosvm, OpRollback, OpCommit, OpDetach, OpForget, Ops
    <2> QED BY <1>8, <2>1, <2>2, <2>3, <2>4, <2>5 DEF OpNext
  <1>9. CASE MainNext
    <2>1. ASSUME NEW d \in Devices, MainProbe(d) PROVE ConfigOK'
      BY <1>2, <2>1 DEF MainProbe, HandBack
    <2>2. CASE MainOpen \/ MainGivesUp \/ MainExit
      BY <1>2, <1>3, <1>4, <2>2 DEF MainOpen, MainGivesUp, MainExit, Exits
    <2> QED BY <1>9, <2>1, <2>2 DEF MainNext
  <1>10. CASE MainStart
    BY <1>2, <1>10 DEF MainStart, SetAuthorized
  <1>11. CASE MainStop
    <2>1. CASE op.by = "reconcile"
      BY <1>3, <1>4, <1>11, <2>1 DEF MainStop
    <2>2. CASE op.by # "reconcile"
      BY <1>2, <1>11, <2>2 DEF MainStop, Aborted, SetAuthorized
    <2> QED BY <2>1, <2>2
  <1>12. CASE Crash \/ (\E k \in OpKinds, d \in Devices : Start(k, d))
    BY <1>3, <1>4, <1>12 DEF Crash, Exits, Start, NoOp
  <1>13. CASE UNCHANGED vars
    BY <1>2, <1>13 DEF vars, kernelVars
  <1> QED BY <1>6, <1>7, <1>8, <1>9, <1>10, <1>11, <1>12, <1>13 DEF Next

\* What a step of an attach gives to a VM is configured, a device that
\* enumerates after the gate's scan, or is replugged, included: without
\* usbAuthorization always, and with it if nothing takes authorizations from
\* devices that are being attached.
THEOREM AttachesConfigured == AttachKeepsAuthorization /\ Spec => AttachedConfigured
  <1> SUFFICES ASSUME AttachKeepsAuthorization PROVE Spec => AttachedConfigured
    OBVIOUS
  <1>1. Init => ConfigOK
    BY DEF Init, ConfigOK, NoOp
  <1>2. ASSUME ConfigOK, OpCrosvm, held' # held PROVE op.dev \in configured
    BY <1>2 DEF ConfigOK, OpCrosvm, Op, NodeExists
  <1>3. ASSUME IInv, ConfigOK, [Next]_vars PROVE ConfigOK'
    BY <1>3, ConfigStep
  <1>4. ASSUME ConfigOK PROVE [OpCrosvm /\ held' # held => op.dev \in configured]_vars
    BY <1>2, <1>4
  <1> QED BY <1>1, <1>3, <1>4, Invariance, PTL DEF Spec, AttachedConfigured

---------------------------------------------------------------------------
(* Calm: a request has the daemon and its devices to itself.               *)

LEMMA CalmStep == ASSUME IInv, CalmOK, Calm, [Next]_vars PROVE CalmOK'
  <1>1. /\ main \in Mains /\ rec \in Recs /\ op \in Ops /\ OpOK /\ MainOK
    BY TypeParts DEF IInv, TasksOK
  <1>2. NoOp.pc = "idle" /\ NoOp.gone = {} /\ NoRec.pc = "idle" /\ NoMain.pc = "off"
    BY DEF NoOp, NoRec, NoMain
  <1>3. CASE HostNext
    <2>1. UNCHANGED <<main, rec, op>>
      BY <1>3 DEF HostNext, Plug, Unplug, GuestClaim, VmDrop, VmStart, VmStop
    <2> QED BY <2>1 DEF CalmOK
  <1>4. CASE RecNext
    <2>1. UNCHANGED main
      BY <1>4 DEF RecNext, RecGate, RecRoute, RecNames, RecLoopEnd, RecObserve, RecResume,
         RecDeauthorize, RecConfigure, RecRead, RecSettle, Pass
    <2>2. CASE RecResume
      <3>1. op.pc = "idle" /\ main.pc = "run"
        BY <1>1, <2>2 DEF RecResume, Pass, MainOK
      <3>2. op' = op \/ (op'.gone = {} /\ op'.by = "reconcile")
        BY <2>2 DEF RecResume, NoOp
      <3> QED BY <2>1, <3>1, <3>2 DEF CalmOK
    <2>3. CASE RecGate
      BY <2>1, <2>3 DEF RecGate, CalmOK
    <2>4. CASE RecNext /\ ~RecResume /\ ~RecGate
      <3>1. UNCHANGED op /\ rec.pc # "idle"
        BY <2>4 DEF RecNext, RecRoute, RecNames, RecLoopEnd, RecObserve,
           RecDeauthorize, RecConfigure, RecRead, RecSettle, Pass
      <3> QED BY <2>1, <3>1 DEF CalmOK
    <2> QED BY <1>4, <2>2, <2>3, <2>4
  <1>5. CASE OpNext
    <2>1. UNCHANGED main
      BY <1>5 DEF OpNext, OpDevice, OpEnd, OpEndOfResume, Authorize, OpConfigure, OpRelease,
         OpCrosvm, OpRollback, OpCommit, OpDetach, OpForget, Op
    <2>2. CASE OpEnd \/ OpEndOfResume
      BY <1>2, <2>1, <2>2 DEF OpEnd, OpEndOfResume, CalmOK
    <2>3. CASE OpNext /\ ~OpEnd /\ ~OpEndOfResume
      <3>1. UNCHANGED rec /\ op.pc # "idle"
        BY <2>3 DEF OpNext, OpDevice, Authorize, OpConfigure, OpRelease,
           OpCrosvm, OpRollback, OpCommit, OpDetach, OpForget, Op
      <3>2. op'.gone = op.gone /\ op'.by = op.by
        <4>1. CASE NextDevice
          BY <1>1, <4>1 DEF NextDevice, Ops
        <4>2. CASE OpNext /\ ~NextDevice /\ ~OpEndOfResume /\ ~OpEnd
          BY <1>1, <4>2 DEF OpNext, OpDevice, Authorize, OpConfigure, OpRelease, OpCrosvm,
             OpRollback, OpCommit, OpDetach, OpForget, DeviceFailed, Ops
        <4> QED BY <2>3, <4>1, <4>2
      <3> QED BY <2>1, <3>1, <3>2 DEF CalmOK
    <2> QED BY <1>5, <2>2, <2>3
  <1>6. CASE MainNext \/ Crash
    <2>1. op' = op \/ op' = NoOp
      BY <1>6 DEF MainNext, MainOpen, MainGivesUp, MainExit, MainProbe, Crash, Exits
    <2>2. op'.pc = "idle"
      <3>1. op.pc = "idle" \/ op' = NoOp
        BY <1>1, <1>6 DEF CalmOK, MainNext, MainOpen, MainGivesUp, MainExit, MainProbe, Crash, Exits
      <3> QED BY <1>2, <2>1, <3>1
    <2> QED BY <1>2, <2>1, <2>2 DEF CalmOK
  <1>7. CASE MainStart \/ MainStop
    <2>1. op' = op \/ op' = NoOp
      BY <1>7 DEF MainStart, MainStop
    <2>2. op.pc = "idle"
      BY <1>7 DEF CalmOK, MainStart, MainStop, MayStop
    <2> QED BY <1>2, <2>1, <2>2 DEF CalmOK
  <1>8. ASSUME NEW k \in OpKinds, NEW d \in Devices, Start(k, d) PROVE CalmOK'
    <2>1. op'.gone = {} /\ main' = main /\ rec' = rec /\ rec.pc = "idle" /\ main.pc = "run"
      BY <1>8 DEF Start, NoOp, Running
    <2> QED BY <2>1 DEF CalmOK
  <1>9. CASE UNCHANGED vars
    BY <1>9 DEF vars, CalmOK
  <1> QED BY <1>3, <1>4, <1>5, <1>6, <1>7, <1>8, <1>9 DEF Next

---------------------------------------------------------------------------
(* The authorization guard.                                                *)

LEMMA StrayStep == ASSUME IInv, CalmOK, StrayOK, Calm, [Next]_vars PROVE StrayOK'
  <1> USE ConstantsAssumption DEF ConstantsAssumption
  <1>1. /\ authorized \subseteq present /\ main \in Mains /\ rec \in Recs /\ op \in Ops
        /\ OpOK /\ MainOK /\ PolicyOK
    BY TypeParts DEF IInv, TasksOK, KernelOK
  <1> SUFFICES ASSUME Authorization, main'.pc = "run"
               PROVE  authorized' \subseteq Hubs \cup HostAllow \cup known' \cup excused' \cup InHand'
    BY DEF StrayOK, Running
  <1> DEFINE Base == Hubs \cup HostAllow \cup known \cup excused
  <1>2. main.pc = "run" => authorized \subseteq Base \cup InHand
    BY DEF StrayOK, Running
  <1>3. NoOp.pc = "idle" /\ NoMain.pc = "off" /\ NoOp.armed = FALSE
    BY DEF NoOp, NoMain
  <1>4. op.pc \in {"idle", "next"} => InHand = {}
    BY <1>1 DEF InHand, OpOK
  <1>5. ASSUME main.pc = "run", known' = known, authorized' \cap excused \subseteq excused',
               authorized' \subseteq authorized,
               InHand \cap authorized' \subseteq InHand'
        PROVE  authorized' \subseteq Hubs \cup HostAllow \cup known' \cup excused' \cup InHand'
    BY <1>2, <1>5
  <1>6. CASE HostNext
    <2>1. UNCHANGED main
      BY <1>6 DEF HostNext, Plug, Unplug, GuestClaim, VmDrop, VmStart, VmStop
    <2>2. ASSUME NEW d \in Devices, Plug(d)
          PROVE  authorized' \subseteq Hubs \cup HostAllow \cup known' \cup excused' \cup InHand'
      <3>1. closed
        BY <1>1, <2>1 DEF PolicyOK
      <3>2. SetAuthorized({}, {}) /\ UNCHANGED <<known, excused, op>>
        BY <2>2, <3>1 DEF Plug, stateVars
      <3>3. authorized' = authorized /\ InHand' = InHand
        BY <3>2 DEF SetAuthorized, InHand
      <3> QED BY <1>5, <2>1, <3>2, <3>3
    <2>3. ASSUME NEW d \in Devices, Unplug(d)
          PROVE  authorized' \subseteq Hubs \cup HostAllow \cup known' \cup excused' \cup InHand'
      <3>1. op.pc = "idle" /\ InHand = {}
        BY <1>4, <2>3 DEF Unplug
      <3>2. authorized \subseteq Base
        BY <1>2, <2>1, <3>1
      <3> QED BY <2>3, <3>2 DEF Unplug
    <2>4. CASE (\E d \in Devices : GuestClaim(d) \/ VmDrop(d)) \/ VmStart \/ VmStop
      <3>1. UNCHANGED <<authorized, known, excused, op>>
        BY <2>4 DEF GuestClaim, VmDrop, VmStart, VmStop, kernelVars, stateVars
      <3>2. InHand' = InHand
        BY <3>1 DEF InHand
      <3> QED BY <1>5, <2>1, <3>1, <3>2
    <2> QED BY <1>6, <2>2, <2>3, <2>4 DEF HostNext
  <1>7. CASE RecNext
    <2>1. UNCHANGED <<main, known>>
      BY <1>7 DEF RecNext, RecGate, RecRoute, RecNames, RecLoopEnd, RecObserve, RecResume,
         RecDeauthorize, RecConfigure, RecRead, RecSettle, Pass
    <2>2. CASE RecResume
      <3>1. op.pc = "idle" /\ UNCHANGED <<authorized, excused>>
        BY <2>2 DEF RecResume
      <3> QED BY <1>4, <1>5, <2>1, <3>1
    <2>d. CASE RecDeauthorize
      <3>1. UNCHANGED op
        BY <2>d DEF RecDeauthorize
      <3>2. InHand' = InHand
        BY <3>1 DEF InHand
      <3>3. authorized' \subseteq authorized /\ authorized' \cap excused \subseteq excused'
        BY <1>1, <2>d DEF RecDeauthorize, SetAuthorized
      <3> QED BY <1>5, <2>1, <3>2, <3>3
    <2>3. CASE RecNext /\ ~RecResume /\ ~RecDeauthorize
      <3>1. UNCHANGED <<op, excused>>
        BY <2>3 DEF RecNext, RecGate, RecRoute, RecNames, RecLoopEnd, RecObserve,
           RecConfigure, RecRead, RecSettle
      <3>2. authorized' \subseteq authorized \cup Hubs \cup HostAllow
        BY <2>3 DEF RecNext, RecGate, RecRoute, RecNames, RecLoopEnd, RecObserve,
           RecConfigure, RecRead, RecSettle, HostDevices
      <3>3. InHand' = InHand
        BY <3>1 DEF InHand
      <3> QED BY <1>2, <2>1, <3>1, <3>2, <3>3
    <2> QED BY <1>7, <2>2, <2>d, <2>3
  <1>8. CASE OpNext
    <2>1. main.pc = "run"
      BY <1>8 DEF OpNext, OpDevice, OpEnd, OpEndOfResume, Authorize, OpConfigure, OpRelease,
         OpCrosvm, OpRollback, OpCommit, OpDetach, OpForget, Op
    <2>2. CASE (\E d \in Devices : OpDevice(d)) \/ OpEnd \/ OpEndOfResume
      <3>1. InHand = {}
        BY <1>4, <2>2 DEF OpDevice, OpEnd, OpEndOfResume, Op
      <3>2. UNCHANGED <<authorized, known, excused>>
        BY <2>2 DEF OpDevice, OpEnd, OpEndOfResume, Op, stateVars, kernelVars
      <3> QED BY <1>5, <2>1, <3>1, <3>2
    <2>3. ASSUME DeviceFailed, UNCHANGED <<known, excused>>, op.pc # "commit"
          PROVE  authorized' \subseteq Hubs \cup HostAllow \cup known' \cup excused' \cup InHand'
      <3>1. UNCHANGED authorized
        BY <2>3 DEF DeviceFailed
      <3>2. CASE op.armed
        <4>1. op'.armed = op.armed /\ op'.dev = op.dev
          BY <1>1, <2>3, <3>2 DEF DeviceFailed, Ops
        <4> QED BY <1>5, <2>1, <2>3, <3>1, <3>2, <4>1 DEF InHand
      <3>3. CASE ~op.armed
        <4>1. InHand = {}
          BY <2>3, <3>3 DEF InHand
        <4> QED BY <1>5, <2>1, <2>3, <3>1, <4>1
      <3> QED BY <3>2, <3>3
    <2>4. CASE Authorize
      <3>1. UNCHANGED <<known, excused>> /\ InHand = {}
        BY <1>1, <2>4 DEF Authorize, Op, stateVars, InHand, OpOK
      <3>2. CASE SetAuthorized(IF Armed THEN {op.dev} ELSE {}, {})
                 /\ op' = [op EXCEPT !.pc = "configure", !.armed = Armed]
        <4>1. op'.armed = Armed /\ op'.dev = op.dev
          BY <1>1, <3>2 DEF Ops
        <4>2. authorized' \subseteq authorized \cup (IF Armed THEN {op.dev} ELSE {})
          BY <3>2 DEF SetAuthorized
        <4>3. (IF Armed THEN {op.dev} ELSE {}) \subseteq InHand'
          BY <4>1 DEF InHand
        <4> QED BY <1>2, <2>1, <3>1, <4>2, <4>3
      <3>3. CASE UNCHANGED authorized
        BY <1>5, <2>1, <3>1, <3>3
      <3> QED BY <2>4, <3>2, <3>3 DEF Authorize
    <2>5. CASE OpConfigure \/ OpRelease
      <3>1. UNCHANGED <<known, excused>> /\ op.pc \in {"configure", "release"}
        BY <2>5 DEF OpConfigure, OpRelease, Op, stateVars
      <3>2. \/ DeviceFailed
            \/ /\ UNCHANGED authorized
               /\ \E p \in {"release", "crosvm"} : op' = [op EXCEPT !.pc = p]
        BY <2>5 DEF OpConfigure, OpRelease
      <3>3. CASE \E p \in {"release", "crosvm"} : op' = [op EXCEPT !.pc = p]
        <4>1. op'.armed = op.armed /\ op'.dev = op.dev
          BY <1>1, <3>3 DEF Ops
        <4> QED BY <1>5, <2>1, <2>3, <3>1, <3>2, <4>1 DEF InHand
      <3> QED BY <2>3, <3>1, <3>2, <3>3
    <2>6. CASE OpCrosvm
      <3>1. UNCHANGED <<known, excused>> /\ op.pc = "crosvm"
        BY <2>6 DEF OpCrosvm, Op, stateVars
      <3>2. \/ DeviceFailed
            \/ UNCHANGED authorized /\ op' = [op EXCEPT !.armed = FALSE, !.pc = "commit"]
        BY <2>6 DEF OpCrosvm
      <3>3. CASE UNCHANGED authorized /\ op' = [op EXCEPT !.armed = FALSE, !.pc = "commit"]
        <4>1. op'.pc = "commit" /\ op'.dev = op.dev
          BY <1>1, <3>3 DEF Ops
        <4>2. InHand \subseteq InHand'
          BY <4>1 DEF InHand
        <4> QED BY <1>5, <2>1, <3>1, <3>3, <4>2
      <3> QED BY <2>3, <3>1, <3>2, <3>3
    <2>7. CASE OpCommit
      <3>1. UNCHANGED <<authorized, excused>> /\ op.pc = "commit" /\ InHand = {op.dev}
        BY <2>7 DEF OpCommit, Op, InHand
      <3>2. op.gone = {}
        BY DEF CalmOK
      <3>3. (op.dev \in present => op.dev \in known') /\ known \subseteq known'
        BY <2>7, <3>2 DEF OpCommit, NodeExists
      <3> QED BY <1>1, <1>2, <2>1, <3>1, <3>3
    <2>8. CASE OpDetach
      <3>1. UNCHANGED <<authorized, known, excused>> /\ InHand = {}
        BY <1>1, <2>8 DEF OpDetach, Op, stateVars, InHand, OpOK
      <3> QED BY <1>5, <2>1, <3>1
    <2>9. CASE OpForget
      <3>1. InHand = {} /\ known \ {op.dev} \subseteq known'
        BY <1>1, <2>9 DEF OpForget, Op, InHand, OpOK
      <3>2. Revoked = {op.dev} \cap (present \ Hubs)
        BY DEF Revoked
      <3>3. \/ authorized' = authorized \ Revoked /\ excused' = excused \ Revoked
            \/ authorized' = authorized /\ excused' = excused \cup (Revoked \cap authorized)
        BY <2>9 DEF OpForget, SetAuthorized
      <3> QED BY <1>1, <1>2, <2>1, <3>1, <3>2, <3>3
    <2>10. CASE OpRollback
      <3>1. op.pc = "rollback" /\ op.armed /\ known' = known
        BY <1>1, <2>10 DEF OpRollback, Op, OpOK, stateVars
      <3>2. InHand = {op.dev} /\ Rollback = {op.dev} \cap present
        BY <3>1 DEF InHand, Rollback
      <3>3. \/ authorized' = authorized \ Rollback /\ excused' = excused \ {op.dev}
            \/ authorized' = authorized /\ excused' = excused \cup ({op.dev} \cap authorized)
        BY <2>10 DEF OpRollback, SetAuthorized
      <3> QED BY <1>1, <1>2, <2>1, <3>1, <3>2, <3>3
    <2> QED BY <1>8, <2>2, <2>4, <2>5, <2>6, <2>7, <2>8, <2>9, <2>10 DEF OpNext
  <1>9. CASE MainStart
    <2>1. op.pc = "idle" /\ excused' = excused \cup authorized
      BY <1>9 DEF MainStart, CalmOK
    <2>2. authorized' \subseteq authorized \cup Hubs \cup HostAllow
      BY <1>9 DEF MainStart, SetAuthorized, HostDevices
    <2> QED BY <2>1, <2>2
  <1>10. CASE MainNext \/ Crash \/ MainStop
    <2>1. main'.pc # "run"
      <3>1. CASE MainOpen
        BY <1>1, <3>1 DEF MainOpen, Mains
      <3>2. CASE \E d \in Devices : MainProbe(d)
        BY <1>1, <3>2 DEF MainProbe, Mains
      <3>3. CASE MainGivesUp \/ MainExit \/ Crash \/ MainStop
        BY <3>3 DEF MainGivesUp, MainExit, Crash, MainStop, Exits, NoMain
      <3> QED BY <1>10, <3>1, <3>2, <3>3 DEF MainNext
    <2> QED BY <2>1
  <1>11. ASSUME NEW k \in OpKinds, NEW d \in Devices, Start(k, d)
         PROVE  authorized' \subseteq Hubs \cup HostAllow \cup known' \cup excused' \cup InHand'
    <2>1. UNCHANGED <<authorized, known, excused, main>> /\ op.pc = "idle"
      BY <1>11 DEF Start, kernelVars, stateVars
    <2> QED BY <1>4, <1>5, <2>1
  <1>12. CASE UNCHANGED vars
    <2>1. UNCHANGED <<authorized, known, excused, main, op>>
      BY <1>12 DEF vars, kernelVars, stateVars
    <2> QED BY <1>5, <2>1 DEF InHand
  <1> QED BY <1>6, <1>7, <1>8, <1>9, <1>10, <1>11, <1>12 DEF Next

\* While requests, passes, stops and unplugging do not overlap, every device a
\* running daemon leaves authorized has a reason: it is a hub, host-allowed, on
\* record as a VM's, or excused: authorized before the daemon started, or
\* because the write that was to take its authorization back failed.  No other
\* fault, of Crosvm, the state file, a listing or another write, leaves the
\* authorization of a failed attach or of a detach behind.
THEOREM AuthorizationAccounted == Calm /\ Spec => []NoStrayAuthorization
  <1> SUFFICES ASSUME Calm PROVE Spec => []NoStrayAuthorization
    OBVIOUS
  <1>1. Init => CalmOK /\ StrayOK
    BY DEF Init, CalmOK, StrayOK, Running, NoMain, NoOp
  <1>2. ASSUME IInv, CalmOK, StrayOK, [Next]_vars PROVE CalmOK' /\ StrayOK'
    BY <1>2, CalmStep, StrayStep
  <1>3. ASSUME IInv, StrayOK PROVE NoStrayAuthorization
    <2>1. op.pc \in {"idle", "next"} => InHand = {}
      BY <1>3 DEF IInv, OpOK, InHand
    <2> QED BY <1>3, <2>1 DEF StrayOK, NoStrayAuthorization
  <1> QED BY <1>1, <1>2, <1>3, Invariance, PTL DEF Spec

---------------------------------------------------------------------------
(* The reopening of the gate.                                              *)

LEMMA StockStep == ASSUME IInv, CalmOK, StockOK, Calm, [Next]_vars PROVE StockOK'
  <1> USE ConstantsAssumption DEF ConstantsAssumption
  <1>1. /\ KernelOK /\ RecordsOK /\ main \in Mains /\ rec \in Recs /\ op \in Ops
        /\ MainOK /\ PolicyOK
    BY TypeParts DEF IInv, TasksOK
  <1>2. \A d \in Devices : Native(d) # "none"
    BY NativeDriver
  <1>3. NoMain.pc = "off"
    BY DEF NoMain
  <1>4. CASE main'.pc \notin {"open", "probe"}
    BY <1>4 DEF StockOK
  <1>5. CASE HostNext
    <2>1. UNCHANGED <<autoprobe, main>>
      BY <1>5 DEF HostNext, Plug, Unplug, GuestClaim, VmDrop, VmStart, VmStop, kernelVars
    <2>2. ASSUME NEW d \in Devices, Plug(d) PROVE StockOK'
      <3>1. /\ d \notin present /\ present' = present \cup {d} /\ UNCHANGED <<held, known>>
            /\ SetAuthorized(IF closed THEN {} ELSE {d}, {})
        BY <2>2 DEF Plug, vmVars, stateVars
      <3>2. CASE main.pc = "probe"
        <4>1. autoprobe
          BY <3>2 DEF StockOK
        <4>2. ASSUME NEW x \in present' \ (known \cup main.lost), x \notin main.todo \ main.spare
              PROVE  Blocked(x)' \/ driver'[x] # "none"
          <5>1. CASE x # d
            <6>1. Blocked(x) \/ driver[x] # "none"
              BY <2>1, <3>1, <3>2, <4>2, <5>1 DEF StockOK
            <6>2. (x \in authorized' => x \in authorized) /\ driver'[x] = driver[x]
              BY <1>1, <3>1, <4>2, <5>1 DEF SetAuthorized, KernelOK
            <6> QED BY <6>1, <6>2 DEF Blocked
          <5>2. CASE x = d /\ closed
            <6>1. Authorization /\ d \notin authorized
              BY <1>1, <3>1, <5>2 DEF PolicyOK, KernelOK
            <6>2. authorized' = authorized
              BY <3>1, <5>2 DEF SetAuthorized
            <6> QED BY <5>2, <6>1, <6>2 DEF Blocked
          <5>3. CASE x = d /\ ~closed
            <6>1. driver'[d] = Native(d)
              BY <3>1, <4>1, <5>3 DEF SetAuthorized
            <6> QED BY <1>2, <5>3, <6>1
          <5> QED BY <5>1, <5>2, <5>3
        <4> QED BY <2>1, <3>1, <3>2, <4>1, <4>2 DEF StockOK
      <3> QED BY <2>1, <3>1, <3>2 DEF StockOK
    <2>3. ASSUME NEW d \in Devices, Unplug(d) PROVE StockOK'
      <3>1. /\ present' = present \ {d} /\ authorized' = authorized \ {d}
            /\ driver' = [driver EXCEPT ![d] = "none"]
            /\ held' = held \ {d} /\ known' = known \ {d}
        BY <2>3 DEF Unplug
      <3>2. \A x \in present' : driver'[x] = driver[x] /\ (Blocked(x) => Blocked(x)')
        BY <1>1, <3>1 DEF KernelOK, Blocked
      <3> QED BY <2>1, <3>1, <3>2 DEF StockOK
    <2>4. ASSUME NEW d \in Devices, GuestClaim(d) PROVE StockOK'
      <3>1. UNCHANGED <<present, authorized, held, known>>
        BY <2>4 DEF GuestClaim, vmVars, stateVars
      <3>2. \A x \in present : driver[x] # "none" => driver'[x] # "none"
        BY <1>1, <2>4 DEF GuestClaim, KernelOK
      <3> QED BY <2>1, <3>1, <3>2 DEF StockOK, Blocked
    <2>5. CASE (\E d \in Devices : VmDrop(d)) \/ VmStart
      <3>1. UNCHANGED <<present, authorized, driver, held, known>>
        BY <2>5 DEF VmDrop, VmStart, kernelVars, vmVars, stateVars
      <3> QED BY <2>1, <3>1 DEF StockOK, Blocked
    <2>6. CASE VmStop
      <3>1. UNCHANGED <<present, authorized, known>> /\ held' = {} /\ driver' = Released(held)
        BY <2>6 DEF VmStop
      <3>2. \A x \in present \ held : driver'[x] = driver[x]
        BY <1>1, <3>1 DEF Released, KernelOK
      <3>3. main.pc = "probe" => held \subseteq known
        BY DEF StockOK
      <3> QED BY <2>1, <3>1, <3>2, <3>3 DEF StockOK, Blocked
    <2> QED BY <1>5, <2>2, <2>3, <2>4, <2>5, <2>6 DEF HostNext
  <1>6. CASE RecNext
    \* no pass runs in a daemon that stops
    <2>1. CASE rec.pc = "idle"
      BY <1>4, <1>6, <2>1 DEF RecNext, RecGate, RecRoute, RecNames, RecLoopEnd, RecObserve,
         RecResume, RecDeauthorize, RecConfigure, RecRead, RecSettle, Pass, Running
    <2>2. CASE rec.pc # "idle"
      <3>1. main.pc = "run"
        BY <1>1, <2>2 DEF MainOK
      <3>2. UNCHANGED main
        BY <1>6 DEF RecNext, RecGate, RecRoute, RecNames, RecLoopEnd, RecObserve,
           RecResume, RecDeauthorize, RecConfigure, RecRead, RecSettle, Pass
      <3> QED BY <1>4, <3>1, <3>2
    <2> QED BY <2>1, <2>2
  <1>7. CASE OpNext
    \* nor does a request
    <2>1. op.pc # "idle"
      BY <1>7 DEF OpNext, OpDevice, OpEnd, OpEndOfResume, Authorize, OpConfigure, OpRelease,
         OpCrosvm, OpRollback, OpCommit, OpDetach, OpForget, Op
    <2>2. UNCHANGED main
      BY <1>7 DEF OpNext, OpDevice, OpEnd, OpEndOfResume, Authorize, OpConfigure, OpRelease,
         OpCrosvm, OpRollback, OpCommit, OpDetach, OpForget, Op
    <2> QED BY <1>4, <2>1, <2>2 DEF CalmOK
  <1>8. CASE MainOpen
    <2>1. /\ autoprobe' = TRUE /\ UNCHANGED <<present, held, known>>
          /\ main.pc = "open" /\ held \subseteq known /\ main.spare = {}
      BY <1>8 DEF MainOpen, vmVars, stateVars, StockOK
    <2>2. main'.pc = "probe" /\ main'.todo = present
      BY <1>1, <1>8 DEF MainOpen, Mains
    <2>3. main'.spare = known \/ (main'.spare = {} /\ main'.blind)
      BY <1>1, <1>8, <2>1 DEF MainOpen, Spared, Mains
    <2> QED BY <2>1, <2>2, <2>3 DEF StockOK
  <1>9. ASSUME NEW d \in Devices, MainProbe(d) PROVE StockOK'
    <2>1. /\ main.pc = "probe" /\ d \in main.todo
          /\ UNCHANGED <<autoprobe, present, authorized, held, known>>
      BY <1>9 DEF MainProbe, vmVars, stateVars
    <2> DEFINE Does == IF HandsBack(d) THEN HandBack(d) ELSE UNCHANGED <<configured, driver>>
    <2>6. \/ Does /\ main' = [main EXCEPT !.todo = @ \ {d}]
          \/ main' = [main EXCEPT !.todo = @ \ {d}, !.lost = @ \cup {d}]
      BY <1>9 DEF MainProbe
    <2> HIDE DEF Does
    <2>7. main \in Mains
      BY <1>1
    <2>2. /\ main'.pc = "probe" /\ main'.spare = main.spare /\ main'.blind = main.blind
          /\ main'.todo = main.todo \ {d} /\ main.lost \subseteq main'.lost
          /\ Does \/ d \in main'.lost
      BY <2>1, <2>6, <2>7 DEF Mains
    <2>3. \A x \in present \ {d} : driver'[x] = driver[x]
      BY <1>1, <1>9 DEF MainProbe, HandBack, KernelOK
    <2>4. ASSUME d \in present \ (known \cup main'.lost), ~Blocked(d) PROVE driver'[d] # "none"
      <3>1. MainProbe(d) /\ d \notin main'.lost
        BY <1>9, <2>4
      <3>2. IF HandsBack(d) THEN HandBack(d) ELSE UNCHANGED <<configured, driver>>
        BY <2>2, <3>1 DEF Does
      <3>3. d \in Devices /\ d \in authorized
        BY <1>1, <2>4 DEF Blocked, PolicyOK
      <3>4. CASE HandsBack(d)
        BY <1>1, <1>2, <3>2, <3>3, <3>4 DEF HandBack, KernelOK
      <3>5. CASE ~HandsBack(d)
        <4>1. d \notin main.todo \ main.spare
          BY <2>4, <3>5 DEF HandsBack
        <4>2. driver[d] # "none"
          BY <2>1, <2>2, <2>4, <4>1 DEF StockOK
        <4> QED BY <3>2, <3>5, <4>2
      <3> QED BY <3>4, <3>5
    <2>5. ASSUME NEW x \in present \ (known \cup main'.lost)
          PROVE  \/ x \in main'.todo \ main'.spare
                 \/ Blocked(x) \/ driver'[x] # "none"
      <3>1. CASE x = d
        BY <2>4, <2>5, <3>1
      <3>2. CASE x # d
        BY <2>1, <2>2, <2>3, <2>5, <3>2 DEF StockOK
      <3> QED BY <3>1, <3>2
    <2> QED BY <2>1, <2>2, <2>5 DEF StockOK, Blocked
  <1>10. CASE MainStop
    <2>1. /\ main'.pc = "open" /\ main'.spare = {}
          /\ held \subseteq known /\ UNCHANGED <<held, known>>
      BY <1>10 DEF MainStop, MayStop, NoMain, vmVars, stateVars
    <2> QED BY <2>1 DEF StockOK
  <1>11. CASE MainExit \/ MainGivesUp \/ Crash \/ MainStart
    BY <1>3, <1>4, <1>11 DEF MainExit, MainGivesUp, Crash, Exits, MainStart, NoMain
  <1>12. CASE (\E k \in OpKinds, d \in Devices : Start(k, d)) \/ UNCHANGED vars
    <2>1. UNCHANGED <<autoprobe, present, authorized, driver, held, known, main>>
      BY <1>12 DEF Start, vars, kernelVars, vmVars, stateVars
    <2> QED BY <2>1 DEF StockOK, Blocked
  <1> QED BY <1>5, <1>6, <1>7, <1>8, <1>9, <1>10, <1>11, <1>12 DEF Next, MainNext

\* If the stop overlaps no request and no pass, and finds on record what the VM
\* holds, then once the gate has been reopened hotplug is the kernel's again, and
\* every device the daemon did not have on record as a VM's has a host driver,
\* waits for authorization, or is one whose own handing back failed: whatever
\* else fails, the others are handed back.
THEOREM StockRestored == Calm /\ Spec => StockAfterStop
  <1> SUFFICES ASSUME Calm PROVE Spec => StockAfterStop
    OBVIOUS
  <1>1. Init => CalmOK /\ StockOK
    BY DEF Init, CalmOK, StockOK, Running, NoMain, NoOp
  <1>2. ASSUME IInv, CalmOK, StockOK, [Next]_vars PROVE CalmOK' /\ StockOK'
    BY <1>2, CalmStep, StockStep
  <1>3. ASSUME StockOK, MainExit
        PROVE  /\ autoprobe
               /\ \A d \in present \ (known \cup main.lost) : Blocked(d) \/ driver[d] # "none"
    BY <1>3 DEF StockOK, MainExit
  <1>4. ASSUME StockOK
        PROVE  [MainExit =>
                 /\ autoprobe
                 /\ \A d \in present \ (known \cup main.lost) :
                       Blocked(d) \/ driver[d] # "none"]_vars
    BY <1>3, <1>4
  <1> QED BY <1>1, <1>2, <1>4, Invariance, PTL DEF Spec, StockAfterStop

---------------------------------------------------------------------------
(* What a VM holds and the host's drivers.                                 *)

\* With one device to an identity, a mark concerns that device only.
LEMMA MarksOwn ==
    ASSUME OwnIds, NEW d \in Devices, NEW e \in Devices, d # e,
           marked' \in {marked, marked \cup {Id[d]}, marked \ {Id[d]}}
    PROVE  e \in Marked' <=> e \in Marked
  BY DEF OwnIds, Marked

LEMMA HeldStep ==
    ASSUME IInv, CalmOK, HeldOK, Undisturbed, [Next]_vars PROVE HeldOK'
  <1> USE ConstantsAssumption DEF ConstantsAssumption
  <1>1. /\ KernelOK /\ RecordsOK /\ rec \in Recs /\ op \in Ops /\ main \in Mains
        /\ OpOK /\ MainOK /\ PolicyOK /\ held \subseteq Devices
    BY TypeParts DEF IInv, TasksOK, KernelOK, RecordsOK
  <1>2. /\ Calm /\ OwnIds /\ Fallback \subseteq RoutedDevices
        /\ "lost" \notin Faults /\ "save" \notin Faults
    BY DEF Undisturbed
  <1>3. NoOp.pc = "idle" /\ NoOp.armed = FALSE /\ NoRec.pc = "idle"
    BY DEF NoOp, NoRec
  <1>4. /\ held \subseteq RoutedDevices /\ held \ Committing \subseteq ports \ Marked
        /\ held # {} => vmUp
        /\ Authorization => held \cap HostAllow \subseteq Hubs \cup authorized
    BY DEF HeldOK
  \* a step between two devices, or without a request
  <1>5. ASSUME UNCHANGED <<held, vmUp, marked>>, held \subseteq ports',
               op'.pc \in {"idle", "next", "authorize", "detach", "rollback"},
               op'.armed => op'.dev \notin held \cap HostAllow,
               held \cap Marked = {},
               rec'.pc \in Settling => held \subseteq rec'.routed,
               Authorization => held \cap HostAllow \subseteq Hubs \cup authorized'
        PROVE  HeldOK'
    BY <1>4, <1>5 DEF HeldOK, Committing, Marked
  <1>6. CASE HostNext
    <2>1. ASSUME NEW d \in Devices, Unplug(d) PROVE HeldOK'
      <3>1. /\ held' = held \ {d} /\ authorized' = authorized \ {d}
            /\ UNCHANGED <<vmUp, ports, marked, rec, op>> /\ op.pc = "idle"
        BY <1>2, <2>1 DEF Unplug
      <3> QED BY <1>1, <3>1 DEF HeldOK, Committing, Marked, OpOK
    <2>2. CASE VmStop
      <3>1. held' = {} /\ UNCHANGED <<op, rec, authorized>> /\ driver' = Released(held)
        BY <2>2 DEF VmStop
      <3>2. op.pc = "crosvm" => driver'[op.dev] # "host"
        BY <1>1, <1>2, <3>1 DEF HeldOK, Released, KernelOK, OpOK
      <3> QED BY <3>1, <3>2 DEF HeldOK
    <2>3. ASSUME NEW d \in Devices, GuestClaim(d) PROVE HeldOK'
      <3>1. /\ UNCHANGED <<held, vmUp, marked, ports, rec, op, authorized>>
            /\ driver' = [driver EXCEPT ![d] = "usbfs"]
        BY <2>3 DEF GuestClaim, vmVars, stateVars
      <3>2. op.pc = "crosvm" => driver'[op.dev] # "host"
        BY <1>1, <1>2, <3>1 DEF HeldOK, KernelOK, OpOK
      <3> QED BY <3>1, <3>2 DEF HeldOK, Committing, Marked
    <2>4. ASSUME NEW d \in Devices, VmDrop(d) PROVE HeldOK'
      <3>1. /\ UNCHANGED <<held, vmUp, marked, rec, op, authorized, driver>>
            /\ ports' = ports \ {d} /\ d \notin held
        BY <2>4 DEF VmDrop, vmVars, kernelVars
      <3> QED BY <3>1 DEF HeldOK, Committing, Marked
    <2>5. ASSUME NEW d \in Devices, Plug(d) PROVE HeldOK'
      <3>1. /\ UNCHANGED <<held, vmUp, marked, ports, rec, op>> /\ d \notin present
            /\ SetAuthorized(IF closed THEN {} ELSE {d}, {})
        BY <2>5 DEF Plug, vmVars, stateVars
      <3>2. authorized \subseteq authorized'
        BY <3>1 DEF SetAuthorized
      <3>3. op.pc = "crosvm" => driver'[op.dev] # "host"
        <4>1. CASE op.pc = "crosvm"
          <5>1. ~autoprobe /\ op.dev \in Devices
            BY <1>1, <4>1 DEF MainOK, OpOK, CalmOK
          <5>2. driver'[op.dev] = driver[op.dev]
            BY <3>1, <5>1 DEF SetAuthorized
          <5> QED BY <4>1, <5>2 DEF HeldOK
        <4> QED BY <4>1
      <3> QED BY <3>1, <3>2, <3>3 DEF HeldOK, Committing, Marked
    <2>6. CASE VmStart
      BY <2>6 DEF VmStart, HeldOK, Committing, Marked, kernelVars, stateVars
    <2> QED BY <1>6, <2>1, <2>2, <2>3, <2>4, <2>5, <2>6 DEF HostNext
  <1>7. CASE RecNext
    <2>1. UNCHANGED <<held, vmUp, marked, main, present>>
      BY <1>7 DEF RecNext, RecGate, RecRoute, RecNames, RecLoopEnd, RecObserve, RecResume,
         RecDeauthorize, RecConfigure, RecRead, RecSettle, Pass, vmVars
    <2>2. op.pc = "idle" /\ ~op.armed /\ held \subseteq ports /\ held \cap Marked = {}
      <3>1. op.pc = "idle"
        <4>1. CASE rec.pc = "idle" \/ rec.pc = "resume"
          BY <1>2, <1>7, <4>1 DEF RecNext, RecGate, RecRoute, RecNames, RecLoopEnd, RecObserve,
             RecResume, RecDeauthorize, RecConfigure, RecRead, RecSettle, Pass
        <4>2. CASE rec.pc \notin {"idle", "resume"}
          BY <1>1, <4>2 DEF CalmOK, MainOK
        <4> QED BY <4>1, <4>2
      <3> QED BY <1>1, <1>4, <3>1 DEF OpOK, Committing
    <2>f. CASE GateFails /\ UNCHANGED <<ports, op>> /\ authorized \subseteq authorized'
      <3>1. rec'.pc \notin Settling
        BY <2>f DEF GateFails, NoRec, Settling
      <3> QED BY <1>4, <1>5, <2>1, <2>2, <2>f, <3>1
    <2>3. CASE RecRoute /\ ~GateFails
      <3>1. UNCHANGED <<authorized, ports, op>>
        BY <2>3 DEF RecRoute
      <3>2. held \subseteq rec'.routed
        <4>1. PICK r \in SUBSET (Fallback \cap present) :
                rec' = [rec EXCEPT !.pc = "names",
                                   !.routed = Routed({d \in present : Matched(d, r)})]
          BY <2>3 DEF RecRoute
        <4>2. rec'.routed = {d \in present : Matched(d, r)} \ Marked
          BY <1>1, <4>1 DEF Recs, Routed
        <4> QED BY <1>1, <1>4, <2>2, <4>2 DEF RecordsOK, Matched, RuleMatches
      <3> QED BY <1>4, <1>5, <2>1, <2>2, <3>1, <3>2
    <2>4. CASE RecResume
      <3>1. UNCHANGED <<authorized, ports>> /\ op'.pc \in {"idle", "next"} /\ ~op'.armed
        BY <2>2, <2>4 DEF RecResume, NoOp
      <3>2. rec'.pc \notin Settling
        BY <1>1, <1>3, <2>4 DEF RecResume, Pass, AfterResume, Recs, Settling
      <3> QED BY <1>4, <1>5, <2>1, <2>2, <3>1, <3>2
    <2>5. CASE RecDeauthorize
      <3>1. UNCHANGED <<ports, op>> /\ rec'.pc \in {"deauthorize", "idle"}
        BY <1>1, <1>3, <2>5 DEF RecDeauthorize, Pass, Recs
      <3>2. HostAllow \cap authorized \subseteq authorized'
        BY <2>5 DEF RecDeauthorize, Unmatched, SetAuthorized
      <3> QED BY <1>4, <1>5, <2>1, <2>2, <3>1, <3>2 DEF Settling
    <2>6. CASE RecObserve
      <3>1. /\ UNCHANGED <<authorized, op>> /\ (ports' = ports \cap present \/ ports' = ports)
            /\ rec'.pc \in {"resume", "idle"}
        BY <1>3, <2>6 DEF RecObserve, NoRec
      <3> QED BY <1>1, <1>4, <1>5, <2>1, <2>2, <3>1 DEF RecordsOK, Settling
    <2>7. CASE /\ RecNext
               /\ ~RecRoute /\ ~RecResume /\ ~RecDeauthorize /\ ~RecObserve /\ ~GateFails
      <3>1. UNCHANGED <<ports, op>> /\ authorized \subseteq authorized'
        BY <2>7 DEF RecNext, RecGate, RecNames, RecLoopEnd, RecConfigure, RecRead, RecSettle
      <3>2. rec'.pc \in Settling => rec.pc \in Settling /\ rec'.routed = rec.routed
        <4>1. CASE RecGate \/ RecNames \/ RecLoopEnd
          BY <1>1, <2>7, <4>1 DEF RecGate, RecNames, RecLoopEnd, Pass, Recs, NoRec, Settling
        <4>2. CASE RecSettle \/ \E d \in Devices : RecConfigure(d) \/ RecRead(d)
          BY <1>1, <4>2 DEF RecConfigure, RecRead, RecSettle, Pass, Recs, Settling
        <4> QED BY <2>7, <4>1, <4>2 DEF RecNext
      <3>3. rec'.pc \in Settling => held \subseteq rec'.routed
        BY <3>2 DEF HeldOK
      <3> QED BY <1>4, <1>5, <2>1, <2>2, <3>1, <3>3
    <2>8. CASE RecNext /\ GateFails
      <3>1. \/ UNCHANGED <<ports, op>> /\ authorized \subseteq authorized'
            \/ RecResume \/ RecDeauthorize \/ RecObserve
        BY <2>8 DEF RecNext, RecGate, RecRoute, RecNames, RecLoopEnd, RecConfigure, RecRead,
           RecSettle
      <3> QED BY <2>f, <2>4, <2>5, <2>6, <2>8, <3>1
    <2> QED BY <1>7, <2>3, <2>4, <2>5, <2>6, <2>7, <2>8
  <1>8. CASE OpNext
    <2>1. op.pc # "idle" /\ UNCHANGED <<main, present, autoprobe, vmUp>>
      BY <1>8 DEF OpNext, OpDevice, OpEnd, OpEndOfResume, Authorize, OpConfigure, OpRelease,
         OpCrosvm, OpRollback, OpCommit, OpDetach, OpForget, Op, kernelVars, vmVars
    <2>2. rec.pc \in {"idle", "resume"} /\ op.gone = {}
      BY <1>1, <2>1 DEF CalmOK, MainOK
    <2>3. op.pc # "commit" => held \subseteq ports /\ held \cap Marked = {}
      BY <1>4 DEF Committing
    <2>4. CASE (\E d \in Devices : OpDevice(d)) \/ OpEnd \/ OpEndOfResume
      <3>1. UNCHANGED <<held, marked, ports, authorized>> /\ op.pc = "next" /\ ~op.armed
        BY <1>1, <2>4 DEF OpDevice, OpEnd, OpEndOfResume, Op, OpOK, kernelVars, vmVars,
           stateVars
      <3>2. op'.pc \in {"idle", "next", "authorize", "detach"} /\ ~op'.armed
        BY <1>1, <1>3, <2>4, <3>1 DEF OpDevice, OpEnd, OpEndOfResume, Ops
      <3>3. rec'.pc \in {"idle", "resume", "deauthorize"}
        BY <1>1, <1>3, <2>2, <2>4 DEF OpDevice, OpEnd, OpEndOfResume, AfterResume, Op, Recs
      <3>4. rec'.pc \notin Settling
        BY <3>3 DEF Settling
      <3> QED BY <1>4, <1>5, <2>1, <2>3, <3>1, <3>2, <3>4
    <2>5. ASSUME DeviceFailed, UNCHANGED <<held, marked, ports, rec>>, op.pc # "commit"
          PROVE  HeldOK'
      <3>1. /\ op'.pc \in {"next", "rollback"} /\ authorized' = authorized
            /\ op'.armed => op.armed /\ op'.dev = op.dev
        BY <1>1, <2>5 DEF DeviceFailed, NextDevice, Ops
      <3>2. op'.armed => op'.dev \notin held \cap HostAllow
        BY <3>1 DEF HeldOK
      <3>3. rec'.pc \notin Settling
        BY <2>2, <2>5 DEF Settling
      <3> QED BY <1>4, <1>5, <2>1, <2>3, <2>5, <3>1, <3>2, <3>3
    <2>6. CASE Authorize
      <3>1. UNCHANGED <<held, marked, ports, rec>> /\ op.pc = "authorize"
        BY <2>6 DEF Authorize, Op, stateVars
      <3>2. CASE /\ SetAuthorized(IF Armed THEN {op.dev} ELSE {}, {})
                 /\ op' = [op EXCEPT !.pc = "configure", !.armed = Armed]
        <4>1. op'.pc = "configure" /\ op'.dev = op.dev /\ op'.armed = Armed
          BY <1>1, <3>2 DEF Ops
        <4>2. /\ authorized \subseteq authorized'
              /\ Authorization => op.dev \in Hubs \cup authorized'
          BY <3>2 DEF SetAuthorized, Armed
        <4>3. Armed => op.dev \notin held \cap HostAllow
          BY <1>4 DEF Armed
        <4> QED BY <1>4, <2>1, <2>2, <2>3, <3>1, <4>1, <4>2, <4>3 DEF HeldOK, Committing, Marked
      <3>3. CASE Armed /\ UNCHANGED authorized /\ op' = [op EXCEPT !.pc = "rollback", !.armed = TRUE]
        <4>1. op'.pc = "rollback" /\ op'.dev = op.dev
          BY <1>1, <3>3 DEF Ops
        <4>2. op.dev \notin held \cap HostAllow
          BY <1>4, <3>3 DEF Armed
        <4>3. rec'.pc \notin Settling
          BY <2>2, <3>1 DEF Settling
        <4> QED BY <1>4, <1>5, <2>1, <2>3, <3>1, <3>3, <4>1, <4>2, <4>3
      <3> QED BY <2>6, <3>2, <3>3 DEF Authorize
    <2>r. CASE OpRollback
      <3>1. UNCHANGED <<held, marked, ports, rec>> /\ op.pc = "rollback" /\ op.armed
        BY <1>1, <2>r DEF OpRollback, Op, stateVars, OpOK
      <3>2. op'.pc = "next" /\ ~op'.armed
        BY <1>1, <2>r DEF OpRollback, NextDevice, Ops
      <3>3. authorized \ {op.dev} \subseteq authorized'
        BY <2>r DEF OpRollback, SetAuthorized, Rollback
      <3>4. op.dev \notin held \cap HostAllow /\ rec'.pc \notin Settling
        BY <2>2, <3>1 DEF HeldOK, Settling
      <3> QED BY <1>4, <1>5, <2>1, <2>3, <3>1, <3>2, <3>3, <3>4
    <2>7. CASE OpConfigure \/ OpRelease
      <3>1. UNCHANGED <<held, marked, ports, rec>> /\ op.pc \in {"configure", "release"}
        BY <2>7 DEF OpConfigure, OpRelease, Op, stateVars
      <3>2. CASE UNCHANGED authorized /\ op' = [op EXCEPT !.pc = "release"]
        <4>1. op'.pc = "release" /\ op'.dev = op.dev /\ op'.armed = op.armed
          BY <1>1, <3>2 DEF Ops
        <4> QED BY <1>4, <2>1, <2>2, <2>3, <3>1, <3>2, <4>1 DEF HeldOK, Committing, Marked
      <3>3. CASE OpRelease /\ UNCHANGED authorized /\ op' = [op EXCEPT !.pc = "crosvm"]
        <4>1. op'.pc = "crosvm" /\ op'.dev = op.dev /\ op'.armed = op.armed
          BY <1>1, <3>3 DEF Ops
        <4>2. driver'[op.dev] # "host"
          <5>1. op.dev \in Devices
            BY <1>1, <3>1 DEF OpOK
          <5>2. driver' = IF driver[op.dev] = "host"
                          THEN [driver EXCEPT ![op.dev] = "none"] ELSE driver
            <6>1. op'.pc \notin {"next", "rollback"}
              BY <4>1
            <6>2. ~DeviceFailed
              BY <1>1, <6>1 DEF DeviceFailed, NextDevice, Ops
            <6> QED BY <3>3, <6>2 DEF OpRelease
          <5> QED BY <1>1, <5>1, <5>2 DEF KernelOK
        <4> QED BY <1>4, <2>1, <2>2, <2>3, <3>1, <3>3, <4>1, <4>2 DEF HeldOK, Committing, Marked
      <3> QED BY <2>5, <2>7, <3>1, <3>2, <3>3 DEF OpConfigure, OpRelease
    <2>8. CASE OpCrosvm
      <3>1. UNCHANGED <<marked, ports, rec>> /\ op.pc = "crosvm"
        BY <2>8 DEF OpCrosvm, Op, stateVars
      <3>2. CASE /\ vmUp /\ held' \subseteq held \cup {op.dev}
                 /\ UNCHANGED authorized
                 /\ op' = [op EXCEPT !.armed = FALSE, !.pc = "commit"]
        <4>1. op'.pc = "commit" /\ op'.dev = op.dev /\ op'.armed = FALSE
          BY <1>1, <3>2 DEF Ops
        <4>2. op.dev \in RoutedDevices /\ (Authorization => op.dev \in Hubs \cup authorized)
          BY <1>1, <1>2, <3>1 DEF OpOK, HeldOK
        <4> QED BY <1>4, <2>1, <2>2, <2>3, <3>1, <3>2, <4>1, <4>2
                DEF HeldOK, Committing, Marked, Settling
      <3>3. \/ DeviceFailed /\ UNCHANGED held
            \/ /\ vmUp /\ held' \subseteq held \cup {op.dev}
               /\ UNCHANGED authorized
               /\ op' = [op EXCEPT !.armed = FALSE, !.pc = "commit"]
        BY <1>2, <2>8 DEF OpCrosvm, Fault
      <3> QED BY <2>5, <3>1, <3>2, <3>3
    <2>9. CASE OpCommit
      <3>1. /\ UNCHANGED <<authorized, held, rec>> /\ op.pc = "commit"
            /\ marked' = marked \ {Id[op.dev]}
            /\ ports' = IF vmUp THEN ports \cup {op.dev} ELSE ports
        BY <1>2, <2>9 DEF OpCommit, Op, Fault
      <3>2. op'.pc = "next" /\ ~op'.armed
        BY <1>1, <2>9 DEF OpCommit, NextDevice, Ops
      <3>3. held \subseteq ports' /\ held \cap Marked' = {}
        BY <1>1, <1>2, <1>4, <3>1 DEF Committing, Marked, OwnIds
      <3> QED BY <1>4, <2>1, <2>2, <3>1, <3>2, <3>3 DEF HeldOK, Committing, Settling
    <2>10. CASE OpDetach
      <3>1. UNCHANGED <<authorized, marked, ports, rec>> /\ op.pc = "detach" /\ ~op.armed
        BY <1>1, <2>10 DEF OpDetach, Op, stateVars, OpOK
      <3>2. CASE op' = [op EXCEPT !.pc = "forget"]
        <4>1. op'.pc = "forget" /\ op'.dev = op.dev /\ ~op'.armed
          BY <1>1, <3>1, <3>2 DEF Ops
        <4>2. held' \subseteq held /\ op.dev \notin held'
          <5>1. op.dev \in held => vmUp /\ op.dev \in ports
            BY <1>4, <2>3, <3>1
          <5>2. op'.pc # "next"
            BY <4>1
          <5> QED BY <1>1, <2>10, <5>1, <5>2 DEF OpDetach, NextDevice, Ops
        <4> QED BY <1>4, <2>1, <2>2, <2>3, <3>1, <4>1, <4>2 DEF HeldOK, Committing, Marked
      <3>3. CASE NextDevice /\ UNCHANGED held
        <4>1. op'.pc = "next" /\ ~op'.armed /\ rec'.pc \notin Settling
          BY <1>1, <2>2, <3>1, <3>3 DEF NextDevice, Ops, Settling
        <4> QED BY <1>4, <1>5, <2>1, <2>3, <3>1, <3>3, <4>1
      <3> QED BY <2>10, <3>2, <3>3 DEF OpDetach
    <2>11. CASE OpForget
      <3>1. /\ UNCHANGED <<held, rec>> /\ op.pc = "forget" /\ ports' = ports \ {op.dev}
            /\ marked' \in {marked \cup {Id[op.dev]}, marked \ {Id[op.dev]}}
        BY <2>11 DEF OpForget, Op
      <3>2. op'.pc = "next" /\ ~op'.armed
        BY <1>1, <2>11 DEF OpForget, NextDevice, Ops
      <3>3. op.dev \notin held /\ op.dev \in Devices
        BY <1>1, <3>1 DEF HeldOK, OpOK
      <3>4. held \subseteq ports' /\ held \cap Marked' = {}
        BY <1>1, <1>2, <2>3, <3>1, <3>3 DEF Marked, OwnIds
      <3>5. authorized \ {op.dev} \subseteq authorized'
        BY <2>11 DEF OpForget, Revoked, SetAuthorized
      <3> QED BY <1>4, <2>1, <2>2, <3>1, <3>2, <3>3, <3>4, <3>5 DEF HeldOK, Committing, Settling
    <2> QED BY <1>8, <2>4, <2>6, <2>r, <2>7, <2>8, <2>9, <2>10, <2>11 DEF OpNext
  <1>9. CASE MainNext \/ MainStart \/ MainStop \/ Crash
    <2>1. UNCHANGED <<held, vmUp, marked, ports>>
      BY <1>9 DEF MainNext, MainOpen, MainGivesUp, MainExit, MainProbe, MainStart, MainStop, Crash,
         vmVars, stateVars
    <2>2. op.pc = "idle"
      BY <1>1, <1>2, <1>9 DEF CalmOK, MainNext, MainOpen, MainGivesUp, MainExit, MainProbe, MainStart,
         MainStop, MayStop, Crash
    <2>3. op' \in {op, NoOp} /\ rec' \in {rec, NoRec}
      BY <1>9 DEF MainNext, MainOpen, MainGivesUp, MainExit, MainProbe, MainStart, MainStop, Crash, Exits
    <2>4. op'.pc = "idle" /\ ~op'.armed
      BY <1>1, <1>3, <2>2, <2>3 DEF OpOK
    <2>5. authorized \subseteq authorized'
      <3>1. op.by = "api"
        BY <1>1, <2>2 DEF OpOK, NoOp
      <3> QED BY <1>9, <3>1 DEF MainNext, MainOpen, MainGivesUp, MainExit, MainProbe, MainStart, MainStop,
            Crash, kernelVars, SetAuthorized, Aborted
    <2>6. held \subseteq ports /\ held \cap Marked = {}
      BY <1>4, <2>2 DEF Committing
    <2>7. rec'.pc \in Settling => held \subseteq rec'.routed
      BY <1>3, <2>3 DEF HeldOK, Settling
    <2> QED BY <1>4, <1>5, <2>1, <2>4, <2>5, <2>6, <2>7
  <1>10. ASSUME NEW k \in OpKinds, NEW d \in Devices, Start(k, d) PROVE HeldOK'
    <2>1. UNCHANGED <<held, vmUp, marked, ports, rec, authorized>> /\ op.pc = "idle"
      BY <1>10 DEF Start, kernelVars, vmVars, stateVars
    <2>2. op'.pc = "next" /\ ~op'.armed
      BY <1>10 DEF Start, NoOp
    <2>3. held \subseteq ports /\ held \cap Marked = {}
      BY <1>4, <2>1 DEF Committing
    <2> QED BY <1>4, <1>5, <2>1, <2>2, <2>3 DEF HeldOK
  <1>11. CASE UNCHANGED vars
    <2>1. UNCHANGED <<held, vmUp, marked, ports, rec, op, authorized, driver>>
      BY <1>11 DEF vars, kernelVars, vmVars, stateVars
    <2> QED BY <2>1 DEF HeldOK, Committing, Marked
  <1> QED BY <1>6, <1>7, <1>8, <1>9, <1>10, <1>11 DEF Next

KeepsApart == \A d \in held' : driver'[d] = "host" =>
                  \/ d \in held /\ driver[d] = "host"
                  \/ main.blind /\ MainProbe(d)

LEMMA ApartStep ==
    ASSUME IInv, CalmOK, StockOK, HeldOK, Undisturbed, [Next]_vars PROVE KeepsApart
  <1> USE ConstantsAssumption DEF ConstantsAssumption
  <1>1. /\ KernelOK /\ RecordsOK /\ rec \in Recs /\ op \in Ops /\ main \in Mains
        /\ OpOK /\ MainOK /\ PolicyOK /\ held \subseteq present /\ present \subseteq Devices
    BY TypeParts DEF IInv, TasksOK, KernelOK, RecordsOK
  <1>2. Calm /\ "lost" \notin Faults
    BY DEF Undisturbed
  <1>3. ASSUME held' \subseteq held,
               \A d \in held : driver'[d] # "host" \/ driver'[d] = driver[d]
        PROVE  KeepsApart
    BY <1>3 DEF KeepsApart
  \* with autoprobe off an authorization binds nothing
  <1>4. ASSUME NEW on, NEW off, SetAuthorized(on, off), ~autoprobe, held' \subseteq held
        PROVE  KeepsApart
    BY <1>1, <1>3, <1>4 DEF SetAuthorized
  <1>5. main.pc = "run" => ~autoprobe
    BY <1>1 DEF MainOK
  <1>6. CASE HostNext
    <2>1. ASSUME NEW d \in Devices, Plug(d) PROVE KeepsApart
      <3>1. held' = held /\ d \notin held
        BY <1>1, <2>1 DEF Plug, vmVars
      <3>2. \A x \in Devices \ {d} : driver'[x] = driver[x]
        BY <2>1 DEF Plug, SetAuthorized
      <3> QED BY <1>1, <1>3, <3>1, <3>2
    <2>2. ASSUME NEW d \in Devices, Unplug(d) PROVE KeepsApart
      BY <1>1, <1>3, <2>2 DEF Unplug, KernelOK
    <2>3. ASSUME NEW d \in Devices, GuestClaim(d) PROVE KeepsApart
      BY <1>1, <1>3, <2>3 DEF GuestClaim, vmVars, KernelOK
    <2>4. CASE (\E d \in Devices : VmDrop(d)) \/ VmStart
      <3>1. UNCHANGED <<held, driver>>
        BY <2>4 DEF VmDrop, VmStart, kernelVars, vmVars
      <3> QED BY <1>3, <3>1
    <2>5. CASE VmStop
      BY <2>5 DEF VmStop, KeepsApart
    <2> QED BY <1>6, <2>1, <2>2, <2>3, <2>4, <2>5 DEF HostNext
  <1>7. CASE RecNext
    <2>1. UNCHANGED held
      BY <1>7 DEF RecNext, RecGate, RecRoute, RecNames, RecLoopEnd, RecObserve, RecResume,
         RecDeauthorize, RecConfigure, RecRead, RecSettle, Pass, vmVars
    <2>2. ~autoprobe
      <3>1. main.pc = "run"
        BY <1>1, <1>7 DEF RecNext, RecGate, RecRoute, RecNames, RecLoopEnd, RecObserve,
           RecResume, RecDeauthorize, RecConfigure, RecRead, RecSettle, Pass, Running, MainOK
      <3> QED BY <1>5, <3>1
    <2>3. ASSUME NEW d \in Devices, RecConfigure(d) PROVE KeepsApart
      <3>1. driver' = driver
        BY <2>2, <2>3 DEF RecConfigure, ProbeDevice
      <3> QED BY <1>3, <2>1, <3>1
    <2>4. CASE RecSettle
      <3>1. held \subseteq rec.routed
        BY <2>4 DEF RecSettle, Pass, HeldOK, Settling
      <3>2. \A x \in held : driver'[x] = driver[x] \/ driver'[x] = "none"
        <4>1. CASE rec.pc = "release"
          BY <1>1, <2>4, <4>1 DEF RecSettle, Settle, KernelOK
        <4>2. CASE rec.pc = "probe"
          <5>1. rec.dev \notin held
            BY <3>1, <4>2 DEF IInv, RecOK
          <5> QED BY <1>1, <2>4, <4>2, <5>1 DEF RecSettle, Settle, ProbeInterface, KernelOK
        <4> QED BY <2>4, <4>1, <4>2 DEF RecSettle, Pass
      <3> QED BY <1>3, <2>1, <3>2
    <2>5. CASE RecDeauthorize
      <3>1. UNCHANGED driver \/ \E d : SetAuthorized({}, {d} \cap authorized)
        BY <2>5 DEF RecDeauthorize
      <3> QED BY <1>3, <1>4, <2>1, <2>2, <3>1
    <2>6. CASE \/ RecGate \/ RecRoute \/ RecNames \/ RecLoopEnd \/ RecObserve \/ RecResume
               \/ \E d \in Devices : RecRead(d)
      <3>1. UNCHANGED driver
        BY <2>6 DEF RecGate, RecRoute, RecNames, RecLoopEnd, RecObserve, RecResume, RecRead
      <3> QED BY <1>3, <2>1, <3>1
    <2> QED BY <1>7, <2>3, <2>4, <2>5, <2>6 DEF RecNext
  <1>8. CASE OpNext
    <2>1. ~autoprobe
      <3>1. op.pc # "idle"
        BY <1>8 DEF OpNext, OpDevice, OpEnd, OpEndOfResume, Authorize, OpConfigure, OpRelease,
           OpCrosvm, OpRollback, OpCommit, OpDetach, OpForget, Op
      <3> QED BY <1>5, <3>1 DEF CalmOK
    <2>2. ASSUME DeviceFailed, UNCHANGED held PROVE KeepsApart
      BY <1>3, <2>2 DEF DeviceFailed
    <2>3. CASE (\E d \in Devices : OpDevice(d)) \/ OpEnd \/ OpEndOfResume \/ OpCommit
      <3>1. UNCHANGED <<held, driver>>
        BY <2>3 DEF OpDevice, OpEnd, OpEndOfResume, OpCommit, Op, kernelVars, vmVars
      <3> QED BY <1>3, <3>1
    <2>4. CASE Authorize
      <3>1. UNCHANGED held /\ (UNCHANGED driver \/ \E on : SetAuthorized(on, {}))
        BY <2>4 DEF Authorize
      <3> QED BY <1>3, <1>4, <2>1, <3>1
    <2>5. CASE OpConfigure
      <3>1. UNCHANGED held /\ (DeviceFailed \/ ProbeDevice(op.dev))
        BY <2>5 DEF OpConfigure, Configure
      <3>2. CASE ProbeDevice(op.dev)
        BY <1>3, <2>1, <3>1, <3>2 DEF ProbeDevice
      <3> QED BY <2>2, <3>1, <3>2
    <2>6. CASE OpRelease
      <3>1. /\ UNCHANGED held
            /\ \/ DeviceFailed \/ UNCHANGED driver
               \/ driver' = [driver EXCEPT ![op.dev] = "none"]
        BY <2>6 DEF OpRelease
      <3>2. CASE driver' = [driver EXCEPT ![op.dev] = "none"]
        BY <1>1, <1>3, <3>1, <3>2 DEF KernelOK
      <3> QED BY <1>3, <2>2, <3>1, <3>2
    <2>7. CASE OpCrosvm
      <3>1. \/ DeviceFailed /\ UNCHANGED held
            \/ held' \subseteq held \cup {op.dev} /\ UNCHANGED driver
        BY <1>2, <2>7 DEF OpCrosvm, Fault
      <3>2. driver[op.dev] # "host"
        BY <2>7 DEF OpCrosvm, Op, HeldOK
      <3> QED BY <2>2, <3>1, <3>2 DEF KeepsApart
    <2>8. CASE OpDetach
      <3>1. held' \subseteq held /\ (UNCHANGED driver \/ driver' = Released({op.dev}))
        BY <2>8 DEF OpDetach
      <3> QED BY <1>1, <1>3, <3>1 DEF Released
    <2>9. CASE OpForget \/ OpRollback
      <3>1. UNCHANGED held /\ (UNCHANGED driver \/ \E off : SetAuthorized({}, off))
        BY <2>9 DEF OpForget, OpRollback
      <3> QED BY <1>3, <1>4, <2>1, <3>1
    <2> QED BY <1>8, <2>3, <2>4, <2>5, <2>6, <2>7, <2>8, <2>9 DEF OpNext
  <1>9. CASE MainNext
    <2>1. UNCHANGED held
      BY <1>9 DEF MainNext, MainOpen, MainGivesUp, MainExit, MainProbe, vmVars
    <2>2. ASSUME NEW d \in Devices, MainProbe(d) PROVE KeepsApart
      \* everything held was on record when the gate reopened, if that could be seen
      <3>1. ~main.blind => held \subseteq main.spare
        BY <2>2 DEF MainProbe, StockOK
      <3>2. CASE ~main.blind /\ d \in held
        <4>1. UNCHANGED driver
          BY <2>2, <3>1, <3>2 DEF MainProbe, HandsBack
        <4> QED BY <1>3, <2>1, <4>1
      <3>3. CASE main.blind \/ d \notin held
        <4>1. \A x \in Devices \ {d} : driver'[x] = driver[x]
          BY <1>1, <2>2 DEF MainProbe, HandBack, KernelOK
        <4> QED BY <1>1, <2>1, <2>2, <3>3, <4>1 DEF KeepsApart
      <3> QED BY <3>2, <3>3
    <2>3. CASE MainOpen \/ MainGivesUp \/ MainExit
      BY <1>3, <2>1, <2>3 DEF MainOpen, MainGivesUp, MainExit, kernelVars
    <2> QED BY <1>9, <2>2, <2>3 DEF MainNext
  <1>10. CASE MainStart
    \* a held device that is host-allowed is a hub, or authorized already
    <2>1. PICK failed : SetAuthorized((HostDevices \cap Unauthorized) \ failed, {})
      BY <1>10 DEF MainStart
    <2>f. held' = held
      BY <1>10 DEF MainStart, vmVars
    <2>2. held \cap HostDevices \cap Unauthorized \subseteq Hubs
      BY DEF HostDevices, Unauthorized, HeldOK
    <2>3. ASSUME NEW d \in held PROVE driver'[d] # "host" \/ driver'[d] = driver[d]
      <3>1. CASE d \in (HostDevices \cap Unauthorized) \ failed
        BY <1>1, <2>1, <2>2, <3>1 DEF SetAuthorized, Native
      <3>2. CASE d \notin (HostDevices \cap Unauthorized) \ failed
        BY <1>1, <2>1, <3>2 DEF SetAuthorized
      <3> QED BY <3>1, <3>2
    <2> QED BY <1>3, <2>f, <2>3
  <1>11. CASE MainStop
    <2>1. UNCHANGED held /\ (SetAuthorized({}, Aborted) \/ UNCHANGED driver) /\ ~autoprobe
      BY <1>5, <1>11 DEF MainStop, Running, vmVars
    <2> QED BY <1>3, <1>4, <2>1
  <1>12. CASE Crash \/ (\E k \in OpKinds, d \in Devices : Start(k, d)) \/ UNCHANGED vars
    BY <1>3, <1>12 DEF Crash, Start, vars, kernelVars, vmVars
  <1> QED BY <1>6, <1>7, <1>8, <1>9, <1>10, <1>11, <1>12 DEF Next

\* No host driver gets onto a device a VM holds, through any number of passes,
\* requests, stops, crashes and restarts, but at a reopening that cannot list
\* the devices to spare.  It takes all of Undisturbed: a save that fails, or a
\* lost answer, leaves a mark on a device the VM has; so does a mark on a twin;
\* after a restart a device known only by its driverPath is not recognized; and
\* a request that overlaps a pass or a stop is not seen by it.
THEOREM HeldApart == Undisturbed /\ Spec => Apart
  <1> SUFFICES ASSUME Undisturbed PROVE Spec => Apart
    OBVIOUS
  <1>1. Init => CalmOK /\ StockOK /\ HeldOK
    BY DEF Init, CalmOK, StockOK, HeldOK, Settling, NoMain, NoOp, NoRec, Committing
  <1>2. ASSUME IInv, CalmOK, StockOK, HeldOK, [Next]_vars
        PROVE  CalmOK' /\ StockOK' /\ HeldOK'
    <2>1. Calm
      BY DEF Undisturbed
    <2> QED BY <1>2, <2>1, CalmStep, StockStep, HeldStep
  <1>3. ASSUME IInv, CalmOK, StockOK, HeldOK, [Next]_vars
        PROVE  [\A d \in held' : driver'[d] = "host" =>
                    \/ d \in held /\ driver[d] = "host"
                    \/ main.blind /\ MainProbe(d)]_vars
    BY <1>3, ApartStep DEF KeepsApart
  <1> QED BY <1>1, <1>2, <1>3, Invariance, PTL DEF Spec, Apart
=============================================================================
