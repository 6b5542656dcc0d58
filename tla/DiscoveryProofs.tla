--------------------------- MODULE DiscoveryProofs -------------------------
(* What holds of the scan for every host and every configuration: a disk     *)
(* that shows a use all the while is spared, the verdicts are the rules'      *)
(* whatever modprobe is asked by others, unless two of them asked at once,    *)
(* and the PCI list is in order.                                              *)
EXTENDS Discovery, RulesProofs

---------------------------------------------------------------------------
(* The invariant.                                                           *)

\* A set of blocks that has with a block all that is made of it.
Closed(S) == \A y \in Blocks : Parts[y] \cap S # {} => y \in S
\* What can rest on b, through any number of layers.
Top(b) == {x \in Blocks : \A S \in SUBSET Blocks : b \in S /\ Closed(S) => x \in S}

Reads == UNION {[S -> [slaves : SUBSET Blocks, held : BOOLEAN]] : S \in SUBSET Blocks}

\* Functions on part of a set.
Partial(All, V) == UNION {[S -> V] : S \in SUBSET All}

\* Devices, each with the drivers that were bound to it.
Lefts == Partial(Devices, SUBSET Bindable)

\* Answers of modprobe at places of the configuration.
AllModules == UNION {Modules[m] : m \in Modaliases}
Answerings == Partial(Places(config.usb), SUBSET AllModules)

\* The records of the scan and of what has used the device.
ShapeOK ==
    /\ scan \in [pc : {"idle", "next", "resolve", "blocks", "excluded", "offered"},
                 todo : SUBSET DOMAIN Order, dev : Devices \cup {None},
                 active : SUBSET Blocks, unread : SUBSET Blocks, read : Reads, found : Lefts]
    /\ since \in [always : SUBSET Blocks, never : BOOLEAN]

\* The task that scans has no device left from the scan before.
WaitOK == scan.pc # "idle" => search[Scanner] = Idle

\* All that a task has been told of the device it judges is what the cache says
\* of it, unless the answers to two tasks differed.
SearchOK ==
    /\ search \in [Askers -> [left : Lefts, answers : Answerings, asking : BOOLEAN]]
    /\ \A k \in Askers : \A d \in Devices :
            IsFirst(d, DOMAIN search[k].left) /\ Modalias[d] \notin raced =>
                \A place \in DOMAIN search[k].answers :
                    /\ known[Modalias[d]] # None
                    /\ search[k].answers[place] = known[Modalias[d]]

\* What is in use is there, and so is what it is made of.
StackOK ==
    /\ \A b \in mounted : Exists(b)
    /\ \A h \in mapped : \A s \in Parts[h] : Exists(s)

\* What has shown a use of the device since the first read still does, and the
\* mounts that were read tell of the disks themselves.
SinceOK ==
    scan.dev # None =>
        /\ since.always \subseteq Uses(scan.dev, Shown, mapped)
        /\ since.never => Uses(scan.dev, Shown, mapped) = {}
        /\ \A x \in since.always : Parts[x] = {} => x \in scan.active
        /\ since.never => scan.active \cap DisksOf(scan.dev) = {}

\* A disk under something that has been in use all the while is still to be
\* read, or was read with a holder or mounted itself; and no disk of a device
\* that nothing has used was read with a holder or as a slave.
ReadOK ==
    scan.pc = "blocks" =>
        /\ \A x \in since.always : \A b \in DisksOf(scan.dev) : x \in Top(b) =>
                /\ b \in scan.unread \cup DOMAIN scan.read
                /\ b \in DOMAIN scan.read => (x = b /\ b \in scan.active) \/ scan.read[b].held
        /\ since.never => \A b \in DOMAIN scan.read :
                /\ scan.read[b].slaves \cap DisksOf(scan.dev) = {}
                /\ b \in DisksOf(scan.dev) => ~scan.read[b].held

\* The answers by which d got its rule: the search was at its end with them, and
\* they are what the cache says now.
Decided(d, answers) ==
    LET device == Seen(d, verdict[d].drivers) IN
    /\ DOMAIN answers \subseteq Places(config.usb)
    /\ Open(config.usb, device, answers) = {}
    /\ verdict[d].rule = UsbRule(config.usb, device, answers)
    /\ \A place \in DOMAIN answers : /\ known[Modalias[d]] # None
                                     /\ answers[place] = known[Modalias[d]]

VerdictOK == \A d \in Devices :
                verdict[d] # None /\ Modalias[d] \notin raced => \E answers : Decided(d, answers)

\* A list of PCI devices is the one that the configuration gives.
ListOK == pciList \in {<<>>, PciListing(config.pci)}

IInv == /\ TypeOK /\ ShapeOK /\ StackOK /\ SinceOK /\ ReadOK /\ StorageSpared
        /\ WaitOK /\ SearchOK /\ VerdictOK /\ ListOK

---------------------------------------------------------------------------
(* What rests on what.                                                      *)

Grown(less, slaves) == less \cup {b \in DOMAIN slaves : slaves[b] \cap less # {}}

\* The loop of usb_backs_active_storage, step by step.
LEMMA RestingSteps ==
    ASSUME NEW start, NEW slaves, IsFiniteSet(DOMAIN slaves)
    PROVE  /\ Cardinality(DOMAIN slaves) \in Nat
           /\ \E f : /\ f[0] = start
                     /\ \A n \in 1..Cardinality(DOMAIN slaves) : f[n] = Grown(f[n - 1], slaves)
                     /\ Resting(start, slaves) = f[Cardinality(DOMAIN slaves)]
  <1> DEFINE N == Cardinality(DOMAIN slaves)
             All == SUBSET (start \cup DOMAIN slaves)
             step == [n \in 1..N |-> [less \in All |-> Grown(less, slaves)]]
             Grows(g) == g = [n \in 0..N |->
                            IF n = 0 THEN start
                            ELSE g[n - 1] \cup {b \in DOMAIN slaves : slaves[b] \cap g[n - 1] # {}}]
             grow == CHOOSE g : Grows(g)
  <1>1. N \in Nat
    BY FS_CardinalityType
  <1>2. Resting(start, slaves) = grow[N]
    BY Zenon DEF Resting
  <1>3. \A less \in All : Grown(less, slaves) \in All
    BY DEF Grown
  <1>4. \E f : Runs(N, All, start, step, f)
    <2>1. \A n \in 1..N : \A less \in All : step[n][less] \in All
      BY <1>3
    <2>2. start \in All
      OBVIOUS
    <2> HIDE DEF N, All, step
    <2> QED BY <1>1, <2>1, <2>2, Recursion
  <1>5. PICK f : Runs(N, All, start, step, f)
    BY <1>4
  <1>6. f \in [0..N -> All] /\ f[0] = start
    BY <1>5 DEF Runs
  <1>7. \A n \in 1..N : f[n] = Grown(f[n - 1], slaves)
    <2> TAKE n \in 1..N
    <2>1. f[n] = step[n][f[n - 1]]
      BY <1>5 DEF Runs
    <2>2. f[n - 1] \in All
      <3>1. n - 1 \in 0..N
        BY <1>1
      <3> HIDE DEF N, All
      <3> QED BY <1>6, <3>1
    <2> HIDE DEF N, All
    <2> QED BY <2>1, <2>2 DEF step
  <1> HIDE DEF N, All, step
  <1>8. Grows(f)
    <2>1. \A n \in 0..N : f[n] = IF n = 0 THEN start
                ELSE f[n - 1] \cup {b \in DOMAIN slaves : slaves[b] \cap f[n - 1] # {}}
      BY <1>1, <1>6, <1>7 DEF Grown
    <2> QED BY <1>6, <2>1
  <1>9. Grows(grow)
    <2> HIDE DEF Grows
    <2> QED BY <1>8, Zenon
  <1>10. grow[0] = start
    <2>1. 0 \in 0..N
      BY <1>1
    <2> HIDE DEF grow
    <2> QED BY <1>9, <2>1
  <1>11. \A n \in 1..N : grow[n] = Grown(grow[n - 1], slaves)
    <2> TAKE n \in 1..N
    <2>1. n \in 0..N /\ n # 0
      BY <1>1
    <2> HIDE DEF grow
    <2> QED BY <1>9, <2>1 DEF Grown
  <1> HIDE DEF grow
  <1> QED BY <1>1, <1>2, <1>10, <1>11 DEF N

\* It finds what it starts from and what that carries.
LEMMA RestingExtends ==
    ASSUME NEW start, NEW slaves, IsFiniteSet(DOMAIN slaves)
    PROVE  Grown(start, slaves) \subseteq Resting(start, slaves)
  <1> DEFINE N == Cardinality(DOMAIN slaves)
  <1>1. PICK f : /\ f[0] = start
                 /\ \A n \in 1..N : f[n] = Grown(f[n - 1], slaves)
                 /\ Resting(start, slaves) = f[N]
    BY RestingSteps
  <1>2. N \in Nat
    BY RestingSteps
  <1>3. CASE N = 0
    <2>1. DOMAIN slaves = {}
      BY <1>3, FS_EmptySet
    <2> QED BY <1>1, <1>3, <2>1 DEF Grown
  <1>4. CASE N # 0
    <2> DEFINE T == {n \in 0..N : n # 0 => Grown(start, slaves) \subseteq f[n]}
    <2> HIDE DEF N
    <2>1. 0 \in T
      BY <1>2
    <2>2. ASSUME NEW n \in 0..(N - 1), n \in T PROVE n + 1 \in T
      <3>1. n + 1 \in 1..N /\ (n + 1) - 1 = n /\ n + 1 \in 0..N
        BY <1>2
      <3>2. f[n + 1] = Grown(f[n], slaves)
        BY <1>1, <3>1
      <3>3. CASE n = 0
        BY <1>1, <3>1, <3>2, <3>3
      <3>4. CASE n # 0
        <4>1. Grown(start, slaves) \subseteq f[n]
          BY <2>2, <3>4
        <4> QED BY <3>1, <3>2, <4>1 DEF Grown
      <3> QED BY <3>3, <3>4
    <2>3. \A n \in 0..N : n \in T
      <3> HIDE DEF T
      <3>1. \A n \in 0..(N - 1) : n \in T => n + 1 \in T
        BY <2>2
      <3> QED BY <1>2, <2>1, <3>1, NumbersUpTo
    <2>4. N \in 0..N
      BY <1>2
    <2> QED BY <1>1, <1>4, <2>3, <2>4
  <1> QED BY <1>3, <1>4

\* It finds nothing else: no set that has the start and all that rests on
\* what is in it leaves anything out.
LEMMA RestingLeast ==
    ASSUME NEW start, NEW slaves, IsFiniteSet(DOMAIN slaves),
           NEW S, start \subseteq S,
           \A b \in DOMAIN slaves : slaves[b] \cap S # {} => b \in S
    PROVE  Resting(start, slaves) \subseteq S
  <1> DEFINE N == Cardinality(DOMAIN slaves)
  <1>1. PICK f : /\ f[0] = start
                 /\ \A n \in 1..N : f[n] = Grown(f[n - 1], slaves)
                 /\ Resting(start, slaves) = f[N]
    BY RestingSteps
  <1>2. N \in Nat
    BY RestingSteps
  <1> DEFINE T == {n \in 0..N : f[n] \subseteq S}
  <1> HIDE DEF N
  <1>3. 0 \in T
    BY <1>1, <1>2
  <1>4. ASSUME NEW n \in 0..(N - 1), n \in T PROVE n + 1 \in T
    <2>1. n + 1 \in 1..N /\ (n + 1) - 1 = n /\ n + 1 \in 0..N
      BY <1>2
    <2>2. f[n + 1] = Grown(f[n], slaves)
      BY <1>1, <2>1
    <2>3. \A b \in Grown(f[n], slaves) : b \in S
      BY <1>4 DEF Grown
    <2> QED BY <2>1, <2>2, <2>3
  <1>5. \A n \in 0..N : n \in T
    <2> HIDE DEF T
    <2>1. \A n \in 0..(N - 1) : n \in T => n + 1 \in T
      BY <1>4
    <2> QED BY <1>2, <1>3, <2>1, NumbersUpTo
  <1>6. N \in 0..N
    BY <1>2
  <1> QED BY <1>1, <1>5, <1>6

---------------------------------------------------------------------------
(* Uses of a device.                                                        *)

LEMMA BlocksKnown ==
    /\ IsFiniteSet(Blocks)
    /\ \A b \in Blocks : Parts[b] \subseteq Blocks /\ (Home[b] = None <=> Parts[b] # {})
    /\ \A d \in Devices : Below[d] \subseteq Devices /\ d \in Below[d]
    /\ \A d \in Devices : \A b \in DisksOf(d) : b \in Blocks /\ Home[b] # None /\ Parts[b] = {}
  <1>1. /\ IsFiniteSet(Blocks)
        /\ \A b \in Blocks : Parts[b] \subseteq Blocks /\ (Home[b] = None <=> Parts[b] # {})
        /\ \A d \in Devices : Below[d] \subseteq Devices /\ d \in Below[d]
        /\ None \notin Devices
    BY ConstantsAssumption DEF ConstantsAssumption
  <1> QED BY <1>1 DEF DisksOf

\* What uses a device is mounted or mapped, and rests on a disk of the device.
LEMMA UsesOnTop ==
    ASSUME NEW d \in Devices, NEW mounts, NEW maps \in SUBSET Blocks,
           NEW x \in Uses(d, mounts, maps)
    PROVE  x \in mounts \cup maps /\ \E b \in DisksOf(d) : x \in Top(b)
  <1> DEFINE slaves == [b \in maps |-> Parts[b]]
             S == {y \in Blocks : \E b \in DisksOf(d) : y \in Top(b)}
  <1>1. DOMAIN slaves = maps /\ IsFiniteSet(DOMAIN slaves)
    BY BlocksKnown, FS_Subset
  <1>2. DisksOf(d) \subseteq S
    BY BlocksKnown DEF Top
  <1>3. ASSUME NEW y \in DOMAIN slaves, slaves[y] \cap S # {} PROVE y \in S
    <2>1. PICK s \in Parts[y] : s \in S
      BY <1>1, <1>3
    <2>2. PICK b \in DisksOf(d) : s \in Top(b)
      BY <2>1
    <2>3. y \in Blocks
      BY <1>1
    <2>4. ASSUME NEW U \in SUBSET Blocks, b \in U, Closed(U) PROVE y \in U
      <3>1. s \in U
        BY <2>2, <2>4 DEF Top
      <3> QED BY <2>1, <2>3, <2>4, <3>1 DEF Closed
    <2>5. y \in Top(b)
      BY <2>3, <2>4 DEF Top
    <2> QED BY <2>2, <2>3, <2>5
  <1>4. Resting(DisksOf(d), slaves) \subseteq S
    <2> HIDE DEF S, slaves
    <2> QED BY <1>1, <1>2, <1>3, RestingLeast
  <1>5. x \in mounts \cup maps /\ x \in Resting(DisksOf(d), slaves)
    BY DEF Uses
  <1> HIDE DEF slaves
  <1> QED BY <1>4, <1>5

\* Conversely a disk that is mounted is a use of its device, and so is what is
\* mapped right onto it.
LEMMA UsesOfDisk ==
    ASSUME NEW d \in Devices, NEW mounts, NEW maps \in SUBSET Blocks, NEW b \in DisksOf(d)
    PROVE  /\ b \in mounts => b \in Uses(d, mounts, maps)
           /\ \A h \in maps : b \in Parts[h] => h \in Uses(d, mounts, maps)
  <1> DEFINE slaves == [y \in maps |-> Parts[y]]
  <1>1. DOMAIN slaves = maps /\ IsFiniteSet(DOMAIN slaves)
    BY BlocksKnown, FS_Subset
  <1>2. Grown(DisksOf(d), slaves) \subseteq Resting(DisksOf(d), slaves)
    BY <1>1, RestingExtends
  <1>3. b \in Grown(DisksOf(d), slaves)
    BY DEF Grown
  <1>4. \A h \in maps : b \in Parts[h] => h \in Grown(DisksOf(d), slaves)
    BY DEF Grown
  <1> QED BY <1>2, <1>3, <1>4 DEF Uses

\* Only virtual devices rest on another block.
LEMMA TopVirtual ==
    ASSUME NEW b \in Blocks, NEW x \in Top(b), x # b
    PROVE  x \in Blocks /\ Parts[x] # {}
  <1> DEFINE S == {b} \cup {y \in Blocks : Parts[y] # {}}
  <1>1. S \in SUBSET Blocks /\ b \in S /\ Closed(S)
    BY DEF Closed
  <1>2. x \in Blocks /\ x \in S
    <2> HIDE DEF S
    <2> QED BY <1>1 DEF Top
  <1> QED BY <1>2

\* What uses a device through one of its disks keeps that disk there, and shows
\* at the disk itself: it is mounted, or it has a holder.
LEMMA UseShows ==
    ASSUME TypeOK, StackOK, NEW d \in Devices, NEW b \in DisksOf(d),
           NEW x \in Uses(d, Shown, mapped), x \in Top(b)
    PROVE  /\ Exists(b)
           /\ (x = b /\ Parts[x] = {}) \/ Holders(b) # {}
  <1>1. mounted \subseteq Blocks /\ mapped \subseteq Blocks /\ \A h \in mapped : Parts[h] # {}
    BY DEF TypeOK
  <1>2. x \in mounted \cup mapped
    BY <1>1, UsesOnTop DEF Shown
  <1>3. b \in Blocks /\ Home[b] # None /\ Parts[b] = {}
    BY BlocksKnown
  <1>4. CASE x = b
    <2>1. b \in mounted
      BY <1>1, <1>2, <1>3, <1>4
    <2> QED BY <1>3, <1>4, <2>1 DEF StackOK
  <1>5. CASE x # b
    <2>1. x \in Blocks /\ Parts[x] # {} /\ Home[x] = None
      BY <1>3, <1>5, TopVirtual, BlocksKnown
    <2>2. x \in mapped
      BY <1>2, <2>1 DEF StackOK, Exists
    <2>3. ASSUME Holders(b) = {} PROVE FALSE
      <3> DEFINE S == {b} \cup {y \in Blocks : Parts[y] # {} /\ y \notin mapped}
      <3>1. S \in SUBSET Blocks /\ b \in S
        BY <1>3
      <3>2. ASSUME NEW y \in Blocks, Parts[y] \cap S # {}, y \notin S PROVE FALSE
        <4>1. PICK s \in Parts[y] : s \in S
          BY <3>2
        <4>2. y \in mapped
          BY <3>2
        <4>3. s # b
          BY <2>3, <4>1, <4>2 DEF Holders
        <4>4. s \in Blocks /\ Home[s] = None /\ s \notin mapped
          BY <4>1, <4>3, BlocksKnown
        <4> QED BY <4>1, <4>2, <4>4 DEF StackOK, Exists
      <3>3. Closed(S)
        BY <3>2 DEF Closed
      <3>4. x \in S
        <4> HIDE DEF S
        <4> QED BY <3>1, <3>3 DEF Top
      <3> QED BY <1>5, <2>2, <3>4
    <2>4. PICK h \in mapped : b \in Parts[h]
      BY <2>3 DEF Holders
    <2>5. Exists(b)
      BY <2>4 DEF StackOK
    <2> QED BY <2>3, <2>5
  <1> QED BY <1>4, <1>5

---------------------------------------------------------------------------
(* The initial states, and what the host does.                              *)

LEMMA ReadsKnown ==
    /\ <<>> \in Reads
    /\ \A read \in Reads : /\ DOMAIN read \subseteq Blocks
                           /\ \A b \in DOMAIN read : read[b].slaves \subseteq Blocks /\ read[b].held \in BOOLEAN
  <1> DEFINE Entry == [slaves : SUBSET Blocks, held : BOOLEAN]
  <1>1. <<>> \in [{} -> Entry] /\ {} \in SUBSET Blocks
    OBVIOUS
  <1>2. \A e \in Entry : e.slaves \subseteq Blocks /\ e.held \in BOOLEAN
    OBVIOUS
  <1>3. Reads = UNION {[S -> Entry] : S \in SUBSET Blocks}
    BY DEF Reads
  <1> HIDE DEF Entry
  <1>4. <<>> \in Reads
    BY <1>1, <1>3, Zenon
  <1>5. ASSUME NEW read \in Reads
        PROVE  DOMAIN read \subseteq Blocks /\ \A b \in DOMAIN read : read[b] \in Entry
    <2>1. PICK S \in SUBSET Blocks : read \in [S -> Entry]
      BY <1>3, Zenon
    <2> QED BY <2>1
  <1> QED BY <1>2, <1>4, <1>5

LEMMA PartialFunctions ==
    ASSUME NEW All, NEW V
    PROVE  /\ <<>> \in Partial(All, V)
           /\ \A f \in Partial(All, V) : DOMAIN f \subseteq All /\ \A x \in DOMAIN f : f[x] \in V
           /\ \A f \in Partial(All, V) : \A x \in All : \A v \in V :
                [y \in DOMAIN f \cup {x} |-> IF y = x THEN v ELSE f[y]] \in Partial(All, V)
           /\ \A f \in Partial(All, V) : \A x : [y \in DOMAIN f \ {x} |-> f[y]] \in Partial(All, V)
           /\ \A S \in SUBSET All : \A f \in [S -> V] : f \in Partial(All, V)
  <1> DEFINE Fs == Partial(All, V)
  <1>0. Fs = UNION {[S -> V] : S \in SUBSET All}
    BY DEF Partial
  <1> HIDE DEF Fs
  <1>1. \A S \in SUBSET All : \A f \in [S -> V] : f \in Fs
    BY <1>0, Zenon
  <1>2. \A f \in Fs : \E S \in SUBSET All : f \in [S -> V]
    BY <1>0, Zenon
  <1>3. <<>> \in Fs
    <2>1. <<>> \in [{} -> V] /\ {} \in SUBSET All
      OBVIOUS
    <2> QED BY <1>1, <2>1
  <1>4. ASSUME NEW f \in Fs
        PROVE  DOMAIN f \in SUBSET All /\ \A x \in DOMAIN f : f[x] \in V
    <2>1. PICK S \in SUBSET All : f \in [S -> V]
      BY <1>2
    <2> QED BY <2>1
  <1>5. ASSUME NEW f \in Fs, NEW x \in All, NEW v \in V
        PROVE  [y \in DOMAIN f \cup {x} |-> IF y = x THEN v ELSE f[y]] \in Fs
    <2>1. DOMAIN f \cup {x} \in SUBSET All
      BY <1>4
    <2>2. [y \in DOMAIN f \cup {x} |-> IF y = x THEN v ELSE f[y]] \in [DOMAIN f \cup {x} -> V]
      BY <1>4
    <2> QED BY <1>1, <2>1, <2>2
  <1>6. ASSUME NEW f \in Fs, NEW x PROVE [y \in DOMAIN f \ {x} |-> f[y]] \in Fs
    <2>1. DOMAIN f \ {x} \in SUBSET All
      BY <1>4
    <2>2. [y \in DOMAIN f \ {x} |-> f[y]] \in [DOMAIN f \ {x} -> V]
      BY <1>4
    <2> QED BY <1>1, <2>1, <2>2
  <1> QED BY <1>1, <1>3, <1>4, <1>5, <1>6 DEF Fs

LEMMA LeftsKnown ==
    /\ <<>> \in Lefts
    /\ \A left \in Lefts : DOMAIN left \subseteq Devices /\ \A d \in DOMAIN left : left[d] \in SUBSET Bindable
    /\ \A left \in Lefts : \A d \in Devices : \A S \in SUBSET Bindable :
            [e \in DOMAIN left \cup {d} |-> IF e = d THEN S ELSE left[e]] \in Lefts
    /\ \A left \in Lefts : \A d : [e \in DOMAIN left \ {d} |-> left[e]] \in Lefts
  BY PartialFunctions, Zenon DEF Lefts

LEMMA AnsweringsKnown ==
    /\ <<>> \in Answerings
    /\ \A answers \in Answerings : DOMAIN answers \subseteq Places(config.usb)
    /\ \A answers \in Answerings : \A place \in Places(config.usb) : \A answer \in SUBSET AllModules :
            [p \in DOMAIN answers \cup {place} |-> IF p = place THEN answer ELSE answers[p]] \in Answerings
  BY PartialFunctions, Zenon DEF Answerings

LEMMA InitInv == Init => IInv
  <1> SUFFICES ASSUME Init PROVE IInv
    OBVIOUS
  <1> USE DEF Init
  <1>1. TypeOK
    <2>1. \A k \in Askers : DOMAIN search[k].left = {} /\ DOMAIN search[k].answers = {}
      BY DEF Idle, Listed
    <2>2. bound \in [Devices -> SUBSET Bindable]
      OBVIOUS
    <2> QED BY <2>1, <2>2, ConstantsAssumption DEF TypeOK, ConstantsAssumption, NoScan, Between
  <1>2. ShapeOK
    BY ReadsKnown, LeftsKnown DEF ShapeOK, NoScan, Between, NoUse
  <1>3. StackOK /\ SinceOK /\ ReadOK /\ StorageSpared /\ WaitOK
    BY DEF StackOK, SinceOK, ReadOK, StorageSpared, WaitOK, NoScan, Between
  <1>4. SearchOK
    <2>1. Idle \in [left : Lefts, answers : Answerings, asking : BOOLEAN]
      BY LeftsKnown, AnsweringsKnown DEF Idle, Listed
    <2>2. DOMAIN Idle.answers = {}
      BY DEF Idle, Listed
    <2> QED BY <2>1, <2>2 DEF SearchOK
  <1>5. VerdictOK /\ ListOK
    BY DEF VerdictOK, ListOK
  <1> QED BY <1>1, <1>2, <1>3, <1>4, <1>5 DEF IInv

\* Mounts and maps that the host may have: what is used is there, once.
There(b, maps) == IF Home[b] = None THEN b \in maps ELSE Home[b] \in present
Fitting(mounts, maps) ==
    /\ mounts \subseteq Blocks /\ maps \subseteq {b \in Blocks : Parts[b] # {}}
    /\ \A b \in maps : \A s \in Parts[b] : {h \in maps : s \in Parts[h]} = {b} /\ s \notin mounts
    /\ \A b \in mounts : There(b, maps)
    /\ \A h \in maps : \A s \in Parts[h] : There(s, maps)

\* What is untouched stays true.
LEMMA SearchKept ==
    ASSUME IInv, UNCHANGED <<config, search, known, raced>>
    PROVE  SearchOK'
  <1>1. SearchOK
    BY DEF IInv
  <1>2. Answerings' = Answerings
    BY DEF Answerings
  <1> QED BY <1>1, <1>2, Zenon DEF SearchOK

LEMMA VerdictOKKept == ASSUME IInv, UNCHANGED <<config, known, raced, verdict>> PROVE VerdictOK'
  <1>1. VerdictOK
    BY DEF IInv
  <1>2. \A d, answers : Decided(d, answers)' <=> Decided(d, answers)
    BY Zenon DEF Decided
  <1>3. VerdictOK'
    BY <1>1, <1>2, Zenon DEF VerdictOK
  <1> QED BY <1>3

LEMMA JudgingKept ==
    ASSUME IInv, UNCHANGED <<config, search, known, raced, verdict>>
    PROVE  SearchOK' /\ VerdictOK'
  BY SearchKept, VerdictOKKept

\* What a change of the mounts and maps leaves true of a scan.
LEMMA HostUsesKeeps ==
    ASSUME IInv, NEW mounts, NEW hidden, NEW maps, HostUses(mounts, hidden, maps),
           Fitting(mounts, maps), hidden \subseteq mounts
    PROVE  IInv'
  <1>1. /\ mounted' = mounts /\ mapped' = maps /\ uses' = uses + 1 /\ uses < MaxUses
        /\ anonymous' = hidden
        /\ UNCHANGED <<config, present, bound, scan, search, known, raced, verdict, pciList>>
        /\ since' = IF scan.dev = None THEN since
                    ELSE [always |-> since.always \cap Uses(scan.dev, mounts \ hidden, maps),
                          never |-> since.never /\ Uses(scan.dev, mounts \ hidden, maps) = {}]
    BY Zenon DEF HostUses, judging
  <1>2. /\ TypeOK /\ ShapeOK /\ StackOK /\ SinceOK /\ ReadOK /\ StorageSpared
        /\ WaitOK /\ SearchOK /\ VerdictOK /\ ListOK
    BY DEF IInv
  <1> USE DEF Fitting
  <1>3. TypeOK'
    <2>1. /\ config' \in Configs /\ present' \subseteq Devices /\ mounted' \subseteq Blocks
          /\ mapped' \subseteq {b \in Blocks : Parts[b] # {}} /\ anonymous' \subseteq mounted'
      BY <1>1, <1>2 DEF TypeOK
    <2>2. \A b \in mapped' : \A s \in Parts[b] : Holders(s)' = {b} /\ s \notin mounted'
      BY <1>1 DEF Holders
    <2>3. uses' \in 0..MaxUses
      BY <1>1, <1>2, ConstantsAssumption DEF TypeOK, ConstantsAssumption
    <2> QED BY <1>1, <1>2, <2>1, <2>2, <2>3 DEF TypeOK
  <1>4. /\ since'.always \subseteq since.always /\ since'.always \subseteq Blocks
        /\ since'.never \in BOOLEAN /\ (since'.never => since.never)
        /\ since' \in [always : SUBSET Blocks, never : BOOLEAN]
        /\ scan.dev # None => /\ since'.always \subseteq Uses(scan.dev, mounts \ hidden, maps)
                              /\ since'.never => Uses(scan.dev, mounts \ hidden, maps) = {}
    BY <1>1, <1>2 DEF ShapeOK
  <1>5. ShapeOK'
    BY <1>1, <1>2, <1>4 DEF ShapeOK
  <1>6. StackOK'
    BY <1>1 DEF StackOK, Exists, There
  <1>7. SinceOK'
    BY <1>1, <1>2, <1>4 DEF SinceOK, Shown
  <1>8. ReadOK'
    BY <1>1, <1>2, <1>4 DEF ReadOK
  <1>9. StorageSpared'
    BY <1>1, <1>2, <1>4 DEF StorageSpared
  <1>10. WaitOK' /\ ListOK'
    BY <1>1, <1>2 DEF WaitOK, ListOK
  <1>11. SearchOK' /\ VerdictOK'
    BY <1>1, JudgingKept
  <1> QED BY <1>3, <1>5, <1>6, <1>7, <1>8, <1>9, <1>10, <1>11 DEF IInv

\* What is left to show of the types after a step like that.
LEMMA ElsewhereTypes ==
    ASSUME TypeOK, Elsewhere, present' \subseteq Devices, bound' \in [Devices -> SUBSET Bindable],
           verdict' \in [Devices -> {None} \cup [rule : 0..Len(config.usb), drivers : SUBSET Bindable]],
           \A k \in Askers : /\ DOMAIN search'[k].left \subseteq Devices
                             /\ DOMAIN search'[k].answers \subseteq Places(config.usb)
    PROVE  TypeOK'
  <1>1. /\ uses < MaxUses /\ uses' = uses + 1
        /\ UNCHANGED <<config, mounted, anonymous, mapped, scan, since, known, raced, pciList>>
    BY DEF Elsewhere
  <1>2. uses' \in 0..MaxUses
    BY <1>1, ConstantsAssumption DEF TypeOK, ConstantsAssumption
  <1>3. \A b \in mapped' : \A s \in Parts[b] : Holders(s)' = {b} /\ s \notin mounted'
    BY <1>1 DEF TypeOK, Holders
  <1>4. /\ config' \in Configs /\ mounted' \subseteq Blocks /\ anonymous' \subseteq mounted'
        /\ mapped' \subseteq {b \in Blocks : Parts[b] # {}}
        /\ raced' \subseteq Modaliases
        /\ known' \in [Modaliases -> {None} \cup SUBSET UNION {Modules[m] : m \in Modaliases}]
    BY <1>1 DEF TypeOK
  <1>5. /\ scan'.pc \in {"idle", "next", "resolve", "blocks", "excluded", "offered"}
        /\ scan'.todo \subseteq DOMAIN Order
        /\ (scan'.dev = None) <=> scan'.pc \in {"idle", "next"}
        /\ scan'.dev # None => scan'.dev \in Devices
        /\ scan'.unread \cup scan'.active \cup DOMAIN scan'.read \subseteq Blocks
        /\ scan'.unread \cap DOMAIN scan'.read = {}
    BY <1>1 DEF TypeOK
  <1>6. /\ verdict' \in [Devices -> {None} \cup [rule : 0..Len(config'.usb), drivers : SUBSET Bindable]]
        /\ \A k \in Askers : /\ DOMAIN search'[k].left \subseteq Devices
                             /\ DOMAIN search'[k].answers \subseteq Places(config'.usb)
    BY <1>1
  <1> QED BY <1>2, <1>3, <1>4, <1>5, <1>6, Zenon DEF TypeOK

\* Nothing of the scan changes meanwhile.
LEMMA ElsewhereKeeps ==
    ASSUME IInv, Elsewhere, TypeOK', StackOK', WaitOK', SearchOK', VerdictOK'
    PROVE  IInv'
  <1>1. UNCHANGED <<config, mounted, anonymous, mapped, scan, since, pciList>>
    BY DEF Elsewhere
  <1>2. ShapeOK' /\ SinceOK' /\ ReadOK' /\ StorageSpared' /\ ListOK'
    BY <1>1 DEF IInv, ShapeOK, SinceOK, Shown, ReadOK, StorageSpared, ListOK
  <1> QED BY <1>2 DEF IInv

LEMMA HostInv == ASSUME IInv, Host PROVE IInv'
  <1>1. /\ TypeOK /\ ShapeOK /\ StackOK /\ SinceOK /\ ReadOK /\ StorageSpared
        /\ WaitOK /\ SearchOK /\ VerdictOK /\ ListOK
    BY DEF IInv
  <1>2. /\ mounted \subseteq Blocks /\ mapped \subseteq {b \in Blocks : Parts[b] # {}}
        /\ anonymous \subseteq mounted
        /\ \A b \in mapped : \A s \in Parts[b] : {h \in mapped : s \in Parts[h]} = {b} /\ s \notin mounted
        /\ present \subseteq Devices
    BY <1>1 DEF TypeOK, Holders
  <1>3. /\ \A b \in mounted : IF Home[b] = None THEN b \in mapped ELSE Home[b] \in present
        /\ \A h \in mapped : \A s \in Parts[h] :
                IF Home[s] = None THEN s \in mapped ELSE Home[s] \in present
    BY <1>1 DEF StackOK, Exists
  <1>4. ASSUME NEW b \in Blocks, Mount(b) PROVE IInv'
    <2>1. /\ \E hidden \in {anonymous, anonymous \cup {b}} : HostUses(mounted \cup {b}, hidden, mapped)
          /\ IF Home[b] = None THEN b \in mapped ELSE Home[b] \in present
          /\ \A h \in mapped : b \notin Parts[h]
      BY <1>4 DEF Mount, Exists, Holders
    <2>2. mounted \cup {b} \in SUBSET Blocks /\ mapped \in SUBSET {c \in Blocks : Parts[c] # {}}
      BY <1>2
    <2>3. \A c \in mapped : \A s \in Parts[c] :
              {h \in mapped : s \in Parts[h]} = {c} /\ s \notin mounted \cup {b}
      BY <1>2, <2>1
    <2>4. \A c \in mounted \cup {b} : IF Home[c] = None THEN c \in mapped ELSE Home[c] \in present
      BY <1>3, <2>1
    <2>5. Fitting(mounted \cup {b}, mapped)
      BY <1>3, <2>2, <2>3, <2>4 DEF Fitting, There
    <2>6. \A hidden \in {anonymous, anonymous \cup {b}} : hidden \subseteq mounted \cup {b}
      BY <1>2
    <2> QED BY <2>1, <2>5, <2>6, HostUsesKeeps
  <1>5. ASSUME NEW b \in Blocks, Unmount(b) PROVE IInv'
    <2>1. HostUses(mounted \ {b}, anonymous \ {b}, mapped) /\ anonymous \ {b} \subseteq mounted \ {b}
      BY <1>2, <1>5 DEF Unmount
    <2>2. /\ mounted \ {b} \in SUBSET Blocks /\ mapped \in SUBSET {c \in Blocks : Parts[c] # {}}
          /\ \A c \in mounted \ {b} : c \in mounted
      BY <1>2
    <2>3. \A c \in mapped : \A s \in Parts[c] :
              {h \in mapped : s \in Parts[h]} = {c} /\ s \notin mounted \ {b}
      BY <1>2
    <2>4. \A c \in mounted \ {b} : IF Home[c] = None THEN c \in mapped ELSE Home[c] \in present
      BY <1>3
    <2>5. Fitting(mounted \ {b}, mapped)
      BY <1>3, <2>2, <2>3, <2>4 DEF Fitting, There
    <2> QED BY <2>1, <2>5, HostUsesKeeps
  <1>6. ASSUME NEW b \in Blocks, Map(b) PROVE IInv'
    <2>1. /\ HostUses(mounted, anonymous, mapped \cup {b})
          /\ Parts[b] # {} /\ b \notin mapped
          /\ \A s \in Parts[b] : /\ IF Home[s] = None THEN s \in mapped ELSE Home[s] \in present
                                 /\ s \notin mounted /\ \A h \in mapped : s \notin Parts[h]
      BY <1>6 DEF Map, Exists, Holders
    <2>2. mapped \cup {b} \in SUBSET {c \in Blocks : Parts[c] # {}} /\ mounted \in SUBSET Blocks
      BY <1>2, <2>1
    <2>3. \A c \in mapped \cup {b} : \A s \in Parts[c] :
              {h \in mapped \cup {b} : s \in Parts[h]} = {c} /\ s \notin mounted
      <3> TAKE c \in mapped \cup {b}
      <3> TAKE s \in Parts[c]
      <3>1. CASE c = b
        BY <2>1, <3>1
      <3>2. CASE c # b
        <4>1. {h \in mapped : s \in Parts[h]} = {c} /\ s \notin mounted /\ c \in mapped
          BY <1>2, <3>2
        <4>2. s \notin Parts[b]
          BY <2>1, <4>1
        <4> QED BY <4>1, <4>2
      <3> QED BY <3>1, <3>2
    <2>4. \A c \in mounted : IF Home[c] = None THEN c \in mapped \cup {b} ELSE Home[c] \in present
      BY <1>3
    <2>5. \A h \in mapped \cup {b} : \A s \in Parts[h] :
                IF Home[s] = None THEN s \in mapped \cup {b} ELSE Home[s] \in present
      BY <1>3, <2>1
    <2>6. Fitting(mounted, mapped \cup {b})
      BY <2>2, <2>3, <2>4, <2>5 DEF Fitting, There
    <2> QED BY <1>2, <2>1, <2>6, HostUsesKeeps
  <1>7. ASSUME NEW b \in Blocks, Unmap(b) PROVE IInv'
    <2>1. /\ HostUses(mounted, anonymous, mapped \ {b}) /\ b \in mapped
          /\ b \notin mounted /\ \A h \in mapped : b \notin Parts[h]
      BY <1>7 DEF Unmap, Holders
    <2>2. mapped \ {b} \in SUBSET {c \in Blocks : Parts[c] # {}} /\ mounted \in SUBSET Blocks
      BY <1>2
    <2>3. \A c \in mapped \ {b} : \A s \in Parts[c] :
              {h \in mapped \ {b} : s \in Parts[h]} = {c} /\ s \notin mounted
      BY <1>2
    <2>4. \A c \in mounted : IF Home[c] = None THEN c \in mapped \ {b} ELSE Home[c] \in present
      BY <1>3, <2>1
    <2>5. \A h \in mapped \ {b} : \A s \in Parts[h] :
                IF Home[s] = None THEN s \in mapped \ {b} ELSE Home[s] \in present
      BY <1>3, <2>1
    <2>6. Fitting(mounted, mapped \ {b})
      BY <2>2, <2>3, <2>4, <2>5 DEF Fitting, There
    <2> QED BY <1>2, <2>1, <2>6, HostUsesKeeps
  <1>8. ASSUME NEW d \in Devices, Plug(d) PROVE IInv'
    <2>1. /\ present' = present \cup {d}
          /\ UNCHANGED <<bound, search, verdict>>
          /\ Elsewhere
      BY <1>8 DEF Plug
    <2>2. present' \subseteq Devices /\ \A b \in Blocks : Exists(b) => Exists(b)'
      BY <1>2, <2>1 DEF Exists, Elsewhere
    <2>3. StackOK'
      BY <1>3, <2>1 DEF StackOK, Exists, Elsewhere
    <2>4. SearchOK' /\ VerdictOK'
      BY <2>1, JudgingKept DEF Elsewhere
    <2>5. TypeOK'

      <3>1. /\ bound \in [Devices -> SUBSET Bindable]
            /\ verdict \in [Devices -> {None} \cup [rule : 0..Len(config.usb), drivers : SUBSET Bindable]]
            /\ \A k \in Askers : /\ DOMAIN search[k].left \subseteq Devices
                                 /\ DOMAIN search[k].answers \subseteq Places(config.usb)
        BY <1>1, Zenon DEF TypeOK
      <3> QED BY <1>1, <1>2, <2>1, <2>2, <3>1, ElsewhereTypes
    <2>6. WaitOK'
      BY <1>1, <2>1 DEF WaitOK, Elsewhere
    <2> QED BY <2>1, <2>3, <2>4, <2>5, <2>6, ElsewhereKeeps
  <1>9. ASSUME NEW d \in Devices, Unplug(d) PROVE IInv'
    <2>1. /\ present' = present \ Below[d] /\ Uses(d, mounted, mapped) = {}
          /\ bound' = [e \in Devices |-> IF e \in Below[d] THEN {} ELSE bound[e]]
          /\ verdict' = [e \in Devices |-> IF e \in Below[d] THEN None ELSE verdict[e]]
          /\ search' = search /\ Elsewhere
      BY <1>9 DEF Unplug
    <2>2. StackOK'
      <3>1. \A b \in Blocks : Home[b] \in Below[d] => b \in DisksOf(d)
        BY DEF DisksOf
      <3>2. \A b \in DisksOf(d) : b \notin mounted /\ \A h \in mapped : b \notin Parts[h]
        <4>1. mapped \in SUBSET Blocks
          BY <1>2
        <4> QED BY <2>1, <4>1, UsesOfDisk
      <3>3. \A h \in mapped : \A s \in Parts[h] : s \in Blocks
        BY <1>2, BlocksKnown
      <3>4. mounted' = mounted /\ mapped' = mapped
        BY <2>1 DEF Elsewhere
      <3> QED BY <1>2, <1>3, <2>1, <3>1, <3>2, <3>3, <3>4 DEF StackOK, Exists
    <2>3. /\ present' \subseteq Devices /\ bound' \in [Devices -> SUBSET Bindable]
          /\ verdict' \in [Devices -> {None} \cup [rule : 0..Len(config.usb), drivers : SUBSET Bindable]]
      <3> DEFINE V == [rule : 0..Len(config.usb), drivers : SUBSET Bindable]
      <3>1. /\ bound \in [Devices -> SUBSET Bindable] /\ verdict \in [Devices -> {None} \cup V]
        BY <1>1 DEF TypeOK
      <3> HIDE DEF V
      <3>2. bound' \in [Devices -> SUBSET Bindable] /\ verdict' \in [Devices -> {None} \cup V]
        BY <2>1, <3>1
      <3> QED BY <1>2, <2>1, <3>2 DEF V
    <2>4. TypeOK'
      <3>1. \A k \in Askers : /\ DOMAIN search[k].left \subseteq Devices
                              /\ DOMAIN search[k].answers \subseteq Places(config.usb)
        BY <1>1, Zenon DEF TypeOK
      <3> QED BY <1>1, <2>1, <2>3, <3>1, ElsewhereTypes
    <2>5. SearchOK'
      BY <2>1, SearchKept DEF Elsewhere
    <2>6. VerdictOK'
      <3> SUFFICES ASSUME NEW e \in Devices, verdict'[e] # None, Modalias[e] \notin raced'
                   PROVE  \E answers : Decided(e, answers)'
        BY DEF VerdictOK
      <3>1. verdict'[e] = verdict[e] /\ raced' = raced /\ known' = known /\ config' = config
        BY <2>1 DEF Elsewhere
      <3>2. PICK answers : Decided(e, answers)
        BY <1>1, <3>1 DEF VerdictOK
      <3>3. Decided(e, answers)'
        BY <3>1, <3>2, Zenon DEF Decided
      <3> QED BY <3>3
    <2>7. WaitOK'
      BY <1>1, <2>1 DEF WaitOK, Elsewhere
    <2> QED BY <2>1, <2>2, <2>4, <2>5, <2>6, <2>7, ElsewhereKeeps
  <1>10. ASSUME NEW d \in Devices, Rebind(d) PROVE IInv'
    <2>1. UNCHANGED <<present, search, verdict>> /\ Elsewhere
      BY <1>10 DEF Rebind
    <2>2. bound' \in [Devices -> SUBSET Bindable]
      <3>1. PICK S \in SUBSET Drivers[d] : bound' = [bound EXCEPT ![d] = S]
        BY <1>10 DEF Rebind
      <3>2. S \in SUBSET Bindable
        BY DEF Bindable
      <3> QED BY <1>1, <3>1, <3>2 DEF TypeOK
    <2>3. StackOK'
      BY <1>3, <2>1 DEF StackOK, Exists, Elsewhere
    <2>4. SearchOK' /\ VerdictOK'
      BY <2>1, JudgingKept DEF Elsewhere
    <2>5. TypeOK'

      <3>1. /\ bound \in [Devices -> SUBSET Bindable]
            /\ verdict \in [Devices -> {None} \cup [rule : 0..Len(config.usb), drivers : SUBSET Bindable]]
            /\ \A k \in Askers : /\ DOMAIN search[k].left \subseteq Devices
                                 /\ DOMAIN search[k].answers \subseteq Places(config.usb)
        BY <1>1, Zenon DEF TypeOK
      <3> QED BY <1>1, <1>2, <2>1, <2>2, <3>1, ElsewhereTypes
    <2>6. WaitOK'
      BY <1>1, <2>1 DEF WaitOK, Elsewhere
    <2> QED BY <2>1, <2>3, <2>4, <2>5, <2>6, ElsewhereKeeps
  <1> QED BY <1>4, <1>5, <1>6, <1>7, <1>8, <1>9, <1>10 DEF Host

---------------------------------------------------------------------------
(* The steps of the scan.                                                   *)

\* The conjuncts of TypeOK that are about the host, and those about the scan.
HostTypes ==
    /\ config \in Configs
    /\ present \subseteq Devices /\ mounted \subseteq Blocks /\ anonymous \subseteq mounted
    /\ mapped \subseteq {b \in Blocks : Parts[b] # {}}
    /\ \A b \in mapped : \A s \in Parts[b] : Holders(s) = {b} /\ s \notin mounted
    /\ bound \in [Devices -> SUBSET Bindable]
    /\ uses \in 0..MaxUses
ScanTypes ==
    /\ (scan.dev = None) <=> scan.pc \in {"idle", "next"}
    /\ scan.unread \cap DOMAIN scan.read = {}
VerdictTypes ==
    /\ known \in [Modaliases -> {None} \cup SUBSET UNION {Modules[m] : m \in Modaliases}]
    /\ raced \subseteq Modaliases
    /\ verdict \in [Devices -> {None} \cup [rule : 0..Len(config.usb), drivers : SUBSET Bindable]]

LEMMA TypesJoin ==
    /\ TypeOK /\ ShapeOK => HostTypes /\ ScanTypes /\ VerdictTypes
    /\ HostTypes' /\ ScanTypes' /\ VerdictTypes' /\ ShapeOK' /\ SearchOK' => TypeOK'
  <1>1. ASSUME ShapeOK'
        PROVE  /\ scan'.pc \in {"idle", "next", "resolve", "blocks", "excluded", "offered"}
               /\ scan'.todo \subseteq DOMAIN Order
               /\ scan'.dev # None => scan'.dev \in Devices
               /\ scan'.unread \cup scan'.active \cup DOMAIN scan'.read \subseteq Blocks
    BY <1>1, ReadsKnown DEF ShapeOK
  <1>2. ASSUME SearchOK'
        PROVE  \A k \in Askers : /\ DOMAIN search'[k].left \subseteq Devices
                                 /\ DOMAIN search'[k].answers \subseteq Places(config'.usb)
    <2> TAKE k \in Askers
    <2>1. search'[k].left \in Lefts /\ search'[k].answers \in Answerings'
      BY <1>2 DEF SearchOK
    <2>2. \A answers \in Answerings' : DOMAIN answers \subseteq Places(config'.usb)
      BY PartialFunctions, Zenon DEF Answerings
    <2> QED BY <2>1, <2>2, LeftsKnown
  <1>3. ASSUME TypeOK, ShapeOK PROVE HostTypes /\ ScanTypes /\ VerdictTypes
    BY <1>3 DEF TypeOK, HostTypes, ScanTypes, VerdictTypes
  <1>4. ASSUME HostTypes', ScanTypes', VerdictTypes', ShapeOK', SearchOK' PROVE TypeOK'
    BY <1>1, <1>2, <1>4 DEF TypeOK, HostTypes, ScanTypes, VerdictTypes
  <1> QED BY <1>3, <1>4

\* What a step of the daemon leaves alone.
LEMMA HostKept ==
    ASSUME IInv, UNCHANGED <<config, host>>
    PROVE  HostTypes' /\ StackOK' /\ UNCHANGED <<mounted, anonymous, mapped, bound, present>>
  <1>1. UNCHANGED <<config, present, mounted, anonymous, mapped, bound, uses>>
    BY DEF host
  <1> QED BY <1>1 DEF IInv, TypeOK, HostTypes, StackOK, Exists, Holders

LEMMA VerdictsKept ==
    ASSUME IInv, UNCHANGED <<config, known, raced, search, verdict>>
    PROVE  VerdictTypes' /\ VerdictOK' /\ SearchOK'
  <1>1. VerdictTypes'
    BY DEF IInv, TypeOK, VerdictTypes
  <1> QED BY <1>1, JudgingKept

LEMMA ListKept == ASSUME IInv, UNCHANGED <<config, pciList>> PROVE ListOK'
  BY DEF IInv, ListOK

\* A step that leaves no device being looked at.
LEMMA NotLooking ==
    ASSUME IInv, UNCHANGED <<config, host>>, VerdictTypes', VerdictOK', SearchOK', ListOK', ShapeOK',
           scan'.pc \in {"idle", "next"}, scan'.dev = None, scan'.unread \cap DOMAIN scan'.read = {},
           scan'.pc = "next" => search'[Scanner] = Idle
    PROVE  IInv'
  <1>1. HostTypes' /\ StackOK'
    BY HostKept
  <1>2. TypeOK'
    BY <1>1, TypesJoin DEF ScanTypes
  <1>3. SinceOK' /\ ReadOK' /\ StorageSpared' /\ WaitOK'
    BY DEF SinceOK, ReadOK, StorageSpared, WaitOK
  <1> QED BY <1>1, <1>2, <1>3 DEF IInv

LEMMA ScanStartInv == ASSUME IInv, ScanStart PROVE IInv'
  <1>1. /\ pciList' = <<>> /\ UNCHANGED <<config, host, since, search, known, raced, verdict>>
        /\ search[Scanner] = Idle
        /\ scan' = Between("next", {i \in DOMAIN Order : Order[i] \in present}, <<>>)
    BY DEF ScanStart, judging
  <1>2. scan' = [pc |-> "next", todo |-> {i \in DOMAIN Order : Order[i] \in present}, dev |-> None,
                 active |-> {}, unread |-> {}, read |-> <<>>, found |-> <<>>]
    BY <1>1 DEF Between
  <1>3. ShapeOK'
    <2>1. since' = since /\ ShapeOK
      BY <1>1 DEF IInv
    <2>2. {i \in DOMAIN Order : Order[i] \in present} \in SUBSET DOMAIN Order
      OBVIOUS
    <2> QED BY <1>2, <2>1, <2>2, ReadsKnown, LeftsKnown DEF ShapeOK
  <1>4. ListOK'
    BY <1>1 DEF ListOK
  <1>5. scan'.pc = "next" /\ scan'.dev = None /\ scan'.unread = {}
    BY <1>2
  <1> QED BY <1>1, <1>3, <1>4, <1>5, VerdictsKept, NotLooking

LEMMA ListPciInv == ASSUME IInv, ListPci PROVE IInv'
  <1>1. /\ scan.pc = "idle" /\ pciList' = PciListings[config]
        /\ UNCHANGED <<config, host, scan, since, search, known, raced, verdict>>
    BY DEF ListPci, judging
  <1>2. config \in Configs /\ ShapeOK /\ ScanTypes
    BY TypesJoin DEF IInv, TypeOK
  <1>3. ListOK'
    BY <1>1, <1>2 DEF ListOK, PciListings
  <1>4. ShapeOK'
    BY <1>1, <1>2 DEF ShapeOK
  <1>5. scan'.pc = "idle" /\ scan'.dev = None /\ scan'.unread \cap DOMAIN scan'.read = {}
    BY <1>1, <1>2 DEF ScanTypes
  <1> QED BY <1>1, <1>3, <1>4, <1>5, VerdictsKept, NotLooking

LEMMA ScanNextInv == ASSUME IInv, ScanNext PROVE IInv'
  <1>1. UNCHANGED <<config, host, pciList, known, raced, verdict>> /\ scan.pc = "next"
    BY DEF ScanNext, Scan
  <1>2. /\ ShapeOK /\ ScanTypes /\ HostTypes /\ scan.dev = None
        /\ SearchOK /\ search[Scanner] = Idle /\ Scanner \in Askers
    BY <1>1, TypesJoin, ConstantsAssumption DEF IInv, ScanTypes, WaitOK, ConstantsAssumption
  <1>3. HostTypes' /\ StackOK' /\ ListOK'
    BY <1>1, HostKept, ListKept
  <1>4. UNCHANGED <<mounted, anonymous, mapped>>
    BY <1>1, HostKept
  <1>5. ASSUME NEW i \in scan.todo,
               scan' = [scan EXCEPT !.pc = "resolve", !.dev = Order[i], !.todo = @ \ {i},
                                    !.active = ActiveStorage],
               since' = [always |-> Uses(Order[i], Shown, mapped),
                         never |-> Uses(Order[i], Shown, mapped) = {}],
               UNCHANGED search
        PROVE  IInv'
    <2> DEFINE d == Order[i]
    <2>1. d \in Devices /\ d # None
      BY <1>2, ConstantsAssumption DEF ShapeOK, ConstantsAssumption
    <2>2. Shown \subseteq Blocks /\ mapped \in SUBSET Blocks /\ ActiveStorage = Shown
      BY <1>2 DEF HostTypes, Shown, ActiveStorage
    <2>3. \A x \in Uses(d, Shown, mapped) : x \in Shown \cup mapped
      BY <2>1, <2>2, UsesOnTop
    <2>4. /\ scan'.pc = "resolve" /\ scan'.dev = d /\ scan'.active = Shown
          /\ scan'.unread = scan.unread /\ scan'.read = scan.read
          /\ since'.always = Uses(d, Shown, mapped)
          /\ since'.never <=> Uses(d, Shown, mapped) = {}
      BY <1>2, <1>5, <2>2 DEF ShapeOK
    <2>5. ShapeOK'
      <3>1. since' \in [always : SUBSET Blocks, never : BOOLEAN]
        BY <1>5, <2>2, <2>3
      <3>2. scan' \in [pc : {"idle", "next", "resolve", "blocks", "excluded", "offered"},
                 todo : SUBSET DOMAIN Order, dev : Devices \cup {None},
                 active : SUBSET Blocks, unread : SUBSET Blocks, read : Reads, found : Lefts]
        BY <1>2, <1>5, <2>1, <2>2 DEF ShapeOK
      <3> QED BY <3>1, <3>2 DEF ShapeOK
    <2>6. TypeOK' /\ WaitOK' /\ SearchOK' /\ VerdictOK'
      <3>1. VerdictTypes' /\ VerdictOK' /\ SearchOK'
        BY <1>1, <1>5, VerdictsKept
      <3> QED BY <1>2, <1>3, <1>5, <2>1, <2>4, <2>5, <3>1, TypesJoin DEF ScanTypes, WaitOK
    <2>7. SinceOK'
      <3>1. \A x \in Uses(d, Shown, mapped) : Parts[x] = {} => x \in Shown
        BY <1>2, <2>3 DEF HostTypes
      <3>2. Uses(d, Shown, mapped) = {} => Shown \cap DisksOf(d) = {}
        BY <2>1, <2>2, UsesOfDisk
      <3>3. Shown' = Shown
        BY <1>4 DEF Shown
      <3> HIDE DEF d
      <3> QED BY <1>4, <2>4, <3>1, <3>2, <3>3 DEF SinceOK
    <2>8. ReadOK' /\ StorageSpared'
      BY <2>4 DEF ReadOK, StorageSpared
    <2> QED BY <1>3, <2>5, <2>6, <2>7, <2>8 DEF IInv
  <1>6. ASSUME NEW i \in scan.todo, scan' = [scan EXCEPT !.todo = @ \ {i}], UNCHANGED <<since, search>>
        PROVE  IInv'
    <2>1. scan'.pc = "next" /\ scan'.dev = None /\ scan'.unread \cap DOMAIN scan'.read = {}
      BY <1>1, <1>2, <1>6 DEF ShapeOK, ScanTypes
    <2>2. ShapeOK'
      BY <1>2, <1>6 DEF ShapeOK
    <2>3. VerdictTypes' /\ VerdictOK' /\ SearchOK'
      BY <1>1, <1>6, VerdictsKept
    <2> QED BY <1>1, <1>2, <1>3, <1>6, <2>1, <2>2, <2>3, NotLooking
  <1>7. ASSUME scan' = NoScan, UNCHANGED since,
               search' = [search EXCEPT ![Scanner] = Listed(scan.found)]
        PROVE  IInv'
    <2>1. scan'.pc = "idle" /\ scan'.dev = None /\ scan'.unread \cap DOMAIN scan'.read = {}
      BY <1>7 DEF NoScan, Between
    <2>2. ShapeOK'
      BY <1>2, <1>7, ReadsKnown, LeftsKnown DEF ShapeOK, NoScan, Between
    <2>3. /\ search'[Scanner] = [left |-> scan.found, answers |-> <<>>, asking |-> FALSE]
          /\ \A k \in Askers : k # Scanner => search'[k] = search[k]
          /\ DOMAIN search' = Askers
      <3> DEFINE rec == Listed(scan.found)
      <3>1. search' = [search EXCEPT ![Scanner] = rec]
        BY <1>7
      <3>2. rec = [left |-> scan.found, answers |-> <<>>, asking |-> FALSE]
        BY DEF Listed
      <3>3. DOMAIN search = Askers
        BY <1>2 DEF SearchOK
      <3> HIDE DEF rec
      <3> QED BY <1>2, <3>1, <3>2, <3>3
    <2>4. SearchOK'
      <3>1. scan.found \in Lefts /\ <<>> \in Answerings /\ Answerings' = Answerings
        BY <1>1, <1>2, AnsweringsKnown DEF ShapeOK, Answerings
      <3>2. search' \in [Askers -> [left : Lefts, answers : Answerings, asking : BOOLEAN]]
        <4> DEFINE R == [left : Lefts, answers : Answerings, asking : BOOLEAN]
        <4>1. search'[Scanner] \in R /\ search \in [Askers -> R]
          BY <1>2, <2>3, <3>1 DEF SearchOK
        <4>2. search' = [search EXCEPT ![Scanner] = search'[Scanner]]
          BY <1>2, <1>7, <2>3 DEF SearchOK
        <4> HIDE DEF R
        <4>3. search' \in [Askers -> R]
          BY <4>1, <4>2
        <4> QED BY <4>3 DEF R
      <3>3. DOMAIN search'[Scanner].answers = {}
        BY <2>3
      <3> QED BY <1>1, <1>2, <2>3, <3>1, <3>2, <3>3 DEF SearchOK
    <2>5. VerdictTypes'
      BY <1>1 DEF IInv, TypeOK, VerdictTypes
    <2>6. VerdictOK'
      BY <1>1, VerdictOKKept
    <2> QED BY <1>1, <1>3, <2>1, <2>2, <2>4, <2>5, <2>6, NotLooking
  <1> QED BY <1>5, <1>6, <1>7 DEF ScanNext

LEMMA ScanResolveInv == ASSUME IInv, ScanResolve PROVE IInv'
  <1>1. /\ UNCHANGED <<config, host, pciList, search, known, raced, verdict>> /\ scan.pc = "resolve"
        /\ scan' = IF scan.dev \in present
                   THEN [scan EXCEPT !.pc = "blocks", !.unread = {b \in Blocks : Exists(b)},
                                     !.read = <<>>]
                   ELSE NoScan
        /\ since' = IF scan.dev \in present THEN since ELSE NoUse
    BY DEF ScanResolve, Scan
  <1>2. /\ ShapeOK /\ ScanTypes /\ HostTypes /\ TypeOK /\ StackOK
        /\ scan.dev # None /\ scan.dev \in Devices
    BY <1>1, TypesJoin DEF IInv, ScanTypes, TypeOK
  <1>3. HostTypes' /\ StackOK' /\ VerdictTypes' /\ VerdictOK' /\ SearchOK' /\ WaitOK' /\ ListOK'
    BY <1>1, HostKept, VerdictsKept, ListKept DEF IInv, WaitOK
  <1>4. UNCHANGED <<mounted, mapped>> /\ Shown' = Shown
    BY <1>1, HostKept DEF Shown
  <1>5. CASE scan.dev \in present
    <2>1. /\ scan'.pc = "blocks" /\ scan'.dev = scan.dev /\ scan'.active = scan.active
          /\ scan'.unread = {b \in Blocks : Exists(b)} /\ scan'.read = <<>> /\ since' = since
      BY <1>1, <1>2, <1>5 DEF ShapeOK
    <2>2. ShapeOK'
      <3>1. {b \in Blocks : Exists(b)} \in SUBSET Blocks
        OBVIOUS
      <3> QED BY <1>1, <1>2, <1>5, <2>1, <3>1, ReadsKnown DEF ShapeOK
    <2>3. TypeOK'
      BY <1>2, <1>3, <2>1, <2>2, TypesJoin DEF ScanTypes
    <2>4. SinceOK' /\ StorageSpared'
      BY <1>2, <1>4, <2>1 DEF IInv, SinceOK, StorageSpared
    <2>5. ReadOK'
      <3>1. ASSUME NEW x \in since.always, NEW b \in DisksOf(scan.dev), x \in Top(b)
            PROVE  b \in scan'.unread
        <4>1. x \in Uses(scan.dev, Shown, mapped)
          BY <1>2 DEF IInv, SinceOK
        <4>2. Exists(b) /\ b \in Blocks
          BY <1>2, <3>1, <4>1, UseShows, BlocksKnown
        <4> QED BY <2>1, <4>2
      <3>2. DOMAIN scan'.read = {}
        BY <2>1
      <3> QED BY <2>1, <3>1, <3>2 DEF ReadOK
    <2> QED BY <1>3, <2>2, <2>3, <2>4, <2>5 DEF IInv
  <1>6. CASE scan.dev \notin present
    <2>1. scan'.pc = "idle" /\ scan'.dev = None /\ scan'.unread \cap DOMAIN scan'.read = {}
      BY <1>1, <1>6 DEF NoScan, Between
    <2>2. ShapeOK'
      BY <1>1, <1>6, ReadsKnown, LeftsKnown DEF ShapeOK, NoScan, Between, NoUse
    <2> QED BY <1>1, <1>3, <2>1, <2>2, NotLooking
  <1> QED BY <1>5, <1>6

LEMMA ReadsExtend ==
    ASSUME NEW read \in Reads, NEW b \in Blocks, NEW slaves \in SUBSET Blocks, NEW held \in BOOLEAN
    PROVE  [x \in DOMAIN read \cup {b} |->
                IF x = b THEN [slaves |-> slaves, held |-> held] ELSE read[x]] \in Reads
  <1> DEFINE Entry == [slaves : SUBSET Blocks, held : BOOLEAN]
             more == [x \in DOMAIN read \cup {b} |->
                        IF x = b THEN [slaves |-> slaves, held |-> held] ELSE read[x]]
  <1>1. PICK S \in SUBSET Blocks : read \in [S -> Entry]
    BY DEF Reads
  <1>2. [slaves |-> slaves, held |-> held] \in Entry
    OBVIOUS
  <1>3. \A x \in S : read[x] \in Entry
    BY <1>1
  <1>4. S \cup {b} \in SUBSET Blocks /\ DOMAIN read = S
    BY <1>1
  <1>5. more \in [S \cup {b} -> Entry]
    <2> HIDE DEF Entry
    <2> QED BY <1>2, <1>3, <1>4
  <1>6. \E T \in SUBSET Blocks : more \in [T -> Entry]
    <2> HIDE DEF more, Entry
    <2> QED BY <1>4, <1>5
  <1> QED BY <1>6 DEF Reads

LEMMA ScanBlockInv == ASSUME IInv, ScanBlock PROVE IInv'
  <1>1. UNCHANGED <<config, host, pciList, search, known, raced, verdict, since>> /\ scan.pc = "blocks"
    BY DEF ScanBlock, Scan
  <1>2. PICK b \in scan.unread :
          scan' = [scan EXCEPT !.unread = @ \ {b},
                    !.read = IF ~Exists(b) THEN @
                             ELSE [x \in DOMAIN @ \cup {b} |->
                                     IF x = b THEN [slaves |-> Slaves(b), held |-> Holders(b) # {}]
                                     ELSE @[x]]]
    BY DEF ScanBlock
  <1> DEFINE d == scan.dev
             more == [x \in DOMAIN scan.read \cup {b} |->
                        IF x = b THEN [slaves |-> Slaves(b), held |-> Holders(b) # {}]
                        ELSE scan.read[x]]
  <1>3. /\ ShapeOK /\ ScanTypes /\ HostTypes /\ TypeOK /\ StackOK /\ SinceOK /\ ReadOK
        /\ d # None /\ d \in Devices
    BY <1>1, TypesJoin DEF IInv, ScanTypes, TypeOK
  <1>4. HostTypes' /\ StackOK' /\ VerdictTypes' /\ VerdictOK' /\ SearchOK' /\ WaitOK' /\ ListOK'
    BY <1>1, HostKept, VerdictsKept, ListKept DEF IInv, WaitOK
  <1>5. UNCHANGED <<mounted, mapped>> /\ Shown' = Shown
    BY <1>1, HostKept DEF Shown
  <1>6. /\ b \in Blocks /\ b \notin DOMAIN scan.read /\ Slaves(b) \in SUBSET Blocks
        /\ scan.read \in Reads
    BY <1>3, BlocksKnown DEF ShapeOK, ScanTypes, Slaves
  <1>7. /\ scan'.pc = "blocks" /\ scan'.dev = d /\ scan'.active = scan.active
        /\ scan'.unread = scan.unread \ {b}
        /\ scan'.read = IF ~Exists(b) THEN scan.read ELSE more
    BY <1>1, <1>2, <1>3 DEF ShapeOK
  <1>8. more \in Reads
    <2>1. (Holders(b) # {}) \in BOOLEAN
      OBVIOUS
    <2> QED BY <1>6, <2>1, ReadsExtend
  <1>9. /\ DOMAIN more = DOMAIN scan.read \cup {b}
        /\ more[b].slaves = Slaves(b) /\ (more[b].held <=> Holders(b) # {})
        /\ \A c \in DOMAIN scan.read : more[c] = scan.read[c]
    BY <1>6
  <1> HIDE DEF more, d
  <1>10. ShapeOK'
    <2>1. scan' = [pc |-> "blocks", todo |-> scan.todo, dev |-> scan.dev, active |-> scan.active,
                   unread |-> scan.unread \ {b}, read |-> IF ~Exists(b) THEN scan.read ELSE more,
                   found |-> scan.found]
      BY <1>1, <1>2, <1>3 DEF ShapeOK, more
    <2> QED BY <1>1, <1>3, <1>6, <1>8, <2>1 DEF ShapeOK
  <1>11. scan'.unread \cap DOMAIN scan'.read = {}
    BY <1>3, <1>7, <1>9 DEF ScanTypes
  <1>12. TypeOK'
    BY <1>1, <1>3, <1>4, <1>7, <1>10, <1>11, TypesJoin DEF ScanTypes, d
  <1>13. SinceOK' /\ StorageSpared'
    BY <1>1, <1>3, <1>5, <1>7 DEF SinceOK, StorageSpared, d
  <1>14. ASSUME NEW x \in since.always, NEW c \in DisksOf(d), x \in Top(c)
         PROVE  /\ c \in scan'.unread \cup DOMAIN scan'.read
                /\ c \in DOMAIN scan'.read => (x = c /\ c \in scan.active) \/ scan'.read[c].held
    <2>1. /\ c \in scan.unread \cup DOMAIN scan.read
          /\ c \in DOMAIN scan.read => (x = c /\ c \in scan.active) \/ scan.read[c].held
      BY <1>1, <1>3, <1>14 DEF ReadOK, d
    <2>2. x \in Uses(d, Shown, mapped) /\ (Parts[x] = {} => x \in scan.active)
      BY <1>3 DEF SinceOK, d
    <2>3. Exists(c) /\ ((x = c /\ Parts[x] = {}) \/ Holders(c) # {})
      BY <1>3, <1>14, <2>2, UseShows
    <2>4. CASE c = b
      BY <1>7, <1>9, <2>2, <2>3, <2>4
    <2>5. CASE c # b
      BY <1>7, <1>9, <2>1, <2>5
    <2> QED BY <2>4, <2>5
  <1>15. ASSUME since.never, NEW c \in DOMAIN scan'.read
         PROVE  /\ scan'.read[c].slaves \cap DisksOf(d) = {}
                /\ c \in DisksOf(d) => ~scan'.read[c].held
    <2>1. \A e \in DOMAIN scan.read : /\ scan.read[e].slaves \cap DisksOf(d) = {}
                                      /\ e \in DisksOf(d) => ~scan.read[e].held
      BY <1>1, <1>3, <1>15 DEF ReadOK, d
    <2>2. Uses(d, Shown, mapped) = {} /\ mapped \in SUBSET Blocks
      BY <1>3, <1>15 DEF SinceOK, HostTypes, d
    <2>3. \A e \in DisksOf(d) : \A h \in mapped : e \notin Parts[h]
      BY <1>3, <2>2, UsesOfDisk
    <2>4. Slaves(b) \cap DisksOf(d) = {} /\ (b \in DisksOf(d) => Holders(b) = {})
      BY <2>3 DEF Slaves, Holders
    <2> QED BY <1>7, <1>9, <2>1, <2>4
  <1>16. ReadOK'
    BY <1>1, <1>7, <1>14, <1>15 DEF ReadOK
  <1> QED BY <1>4, <1>10, <1>12, <1>13, <1>16 DEF IInv

\* The decision: what was read shows a use that has lasted, and shows none of a
\* device that has not been used.
LEMMA BacksRight ==
    ASSUME IInv, scan.pc = "blocks", scan.unread = {}
    PROVE  /\ since.always # {} => Backs(scan.dev, scan.read, scan.active)
           /\ since.never => ~Backs(scan.dev, scan.read, scan.active)
  <1> DEFINE d == scan.dev
             read == scan.read
             own == {b \in DOMAIN read : Home[b] \in Below[d]}
             slaves == [b \in DOMAIN read |-> read[b].slaves]
  <1>1. /\ ShapeOK /\ TypeOK /\ SinceOK /\ ReadOK /\ d # None /\ d \in Devices
        /\ mapped \in SUBSET Blocks /\ read \in Reads /\ DOMAIN read \subseteq Blocks
    BY ReadsKnown DEF IInv, TypeOK, ShapeOK
  <1>2. own \subseteq DisksOf(d) /\ \A b \in DisksOf(d) : b \in DOMAIN read => b \in own
    BY <1>1 DEF DisksOf
  <1>3. IsFiniteSet(DOMAIN slaves) /\ DOMAIN slaves = DOMAIN read
    BY <1>1, BlocksKnown, FS_Subset
  <1>4. Backs(d, read, scan.active) <=> \/ \E b \in own : read[b].held
                                        \/ Resting(own, slaves) \cap scan.active # {}
    BY DEF Backs
  <1>5. ASSUME NEW x \in since.always PROVE Backs(d, read, scan.active)
    <2>1. x \in Uses(d, Shown, mapped)
      BY <1>1 DEF SinceOK
    <2>2. PICK b \in DisksOf(d) : x \in Top(b)
      BY <1>1, <2>1, UsesOnTop
    <2>3. b \in DOMAIN read /\ ((x = b /\ b \in scan.active) \/ read[b].held)
      BY <1>1, <2>2 DEF ReadOK
    <2>4. b \in own
      BY <1>2, <2>3
    <2>5. own \subseteq Resting(own, slaves)
      <3> HIDE DEF own, slaves
      <3> QED BY <1>3, RestingExtends DEF Grown
    <2> HIDE DEF own, slaves, read, d
    <2> QED BY <1>4, <2>3, <2>4, <2>5
  <1>6. ASSUME since.never PROVE ~Backs(d, read, scan.active)
    <2>1. /\ \A b \in DOMAIN read : /\ read[b].slaves \cap DisksOf(d) = {}
                                    /\ b \in DisksOf(d) => ~read[b].held
          /\ scan.active \cap DisksOf(d) = {}
      BY <1>1, <1>6 DEF ReadOK, SinceOK
    <2>2. \A b \in DOMAIN slaves : slaves[b] \cap own # {} => b \in own
      BY <1>2, <2>1
    <2>3. Resting(own, slaves) \subseteq own
      <3> HIDE DEF own, slaves
      <3> QED BY <1>3, <2>2, RestingLeast
    <2>4. \A b \in own : b \in DOMAIN read
      OBVIOUS
    <2> HIDE DEF own, slaves, read, d
    <2> QED BY <1>2, <1>4, <2>1, <2>3, <2>4
  <1> QED BY <1>5, <1>6

LEMMA ScanDecideInv == ASSUME IInv, ScanDecide PROVE IInv'
  <1>1. /\ UNCHANGED <<config, host, pciList, search, known, raced, verdict, since>>
        /\ scan.pc = "blocks" /\ scan.unread = {}
        /\ scan' = [scan EXCEPT !.pc = IF Backs(scan.dev, scan.read, scan.active)
                                       THEN "excluded" ELSE "offered"]
    BY DEF ScanDecide, Scan
  <1>2. ShapeOK /\ ScanTypes /\ SinceOK
    BY TypesJoin DEF IInv
  <1>3. HostTypes' /\ StackOK' /\ VerdictTypes' /\ VerdictOK' /\ SearchOK' /\ WaitOK' /\ ListOK'
    BY <1>1, HostKept, VerdictsKept, ListKept DEF IInv, WaitOK
  <1>4. UNCHANGED <<mounted, mapped>> /\ Shown' = Shown
    BY <1>1, HostKept DEF Shown
  <1>5. /\ scan'.pc = (IF Backs(scan.dev, scan.read, scan.active) THEN "excluded" ELSE "offered")
        /\ scan'.dev = scan.dev /\ scan'.unread = scan.unread /\ scan'.read = scan.read
        /\ scan'.active = scan.active
    BY <1>1, <1>2 DEF ShapeOK
  <1>6. ShapeOK'
    BY <1>1, <1>2 DEF ShapeOK
  <1>7. TypeOK'
    BY <1>1, <1>2, <1>3, <1>5, <1>6, TypesJoin DEF ScanTypes
  <1>8. SinceOK'
    BY <1>1, <1>2, <1>4, <1>5 DEF SinceOK
  <1>9. StorageSpared'
    BY <1>1, <1>5, BacksRight DEF StorageSpared
  <1>10. ReadOK'
    BY <1>5 DEF ReadOK
  <1> QED BY <1>3, <1>6, <1>7, <1>8, <1>9, <1>10 DEF IInv

\* The device is left.
LEMMA LeftShape ==
    ASSUME NEW found
    PROVE  Left(found) = [pc |-> "next", todo |-> scan.todo, dev |-> None, active |-> {},
                          unread |-> {}, read |-> <<>>, found |-> found]
  BY DEF Left, Between

LEMMA ExcludedInv == ASSUME IInv, Excluded PROVE IInv'
  <1>1. /\ UNCHANGED <<config, host, pciList, search, known, raced>> /\ scan.pc = "excluded"
        /\ scan' = Left(scan.found)
        /\ verdict' = [verdict EXCEPT ![scan.dev] = None] /\ since' = NoUse
    BY DEF Excluded, Scan
  <1>2. ShapeOK /\ ScanTypes /\ VerdictTypes /\ VerdictOK /\ search[Scanner] = Idle
    BY <1>1, TypesJoin DEF IInv, WaitOK
  <1>3. ListOK' /\ SearchOK'
    BY <1>1, ListKept, SearchKept
  <1>4. scan' = [pc |-> "next", todo |-> scan.todo, dev |-> None, active |-> {},
                 unread |-> {}, read |-> <<>>, found |-> scan.found]
    BY <1>1, LeftShape
  <1>5. ShapeOK'
    BY <1>1, <1>2, <1>4, ReadsKnown DEF ShapeOK, NoUse
  <1>6. VerdictTypes'
    <2> DEFINE V == [rule : 0..Len(config.usb), drivers : SUBSET Bindable]
    <2>1. verdict \in [Devices -> {None} \cup V]
      BY <1>2 DEF VerdictTypes
    <2> HIDE DEF V
    <2>2. verdict' \in [Devices -> {None} \cup V]
      BY <1>1, <2>1
    <2> QED BY <1>1, <1>2, <2>2 DEF VerdictTypes, V
  <1>7. VerdictOK'
    <2> SUFFICES ASSUME NEW e \in Devices, verdict'[e] # None, Modalias[e] \notin raced'
                 PROVE  \E answers : Decided(e, answers)'
      BY DEF VerdictOK
    <2>1. verdict'[e] = verdict[e] /\ raced' = raced /\ known' = known /\ config' = config
      BY <1>1, <1>2 DEF VerdictTypes
    <2>2. PICK answers : Decided(e, answers)
      BY <1>2, <2>1 DEF VerdictOK
    <2>3. Decided(e, answers)'
      BY <2>1, <2>2, Zenon DEF Decided
    <2> QED BY <2>3
  <1>8. scan'.pc = "next" /\ scan'.dev = None /\ scan'.unread \cap DOMAIN scan'.read = {}
    BY <1>4
  <1> QED BY <1>1, <1>2, <1>3, <1>5, <1>6, <1>7, <1>8, NotLooking

LEMMA OfferedInv == ASSUME IInv, Offered PROVE IInv'
  <1> DEFINE found == [d \in DOMAIN scan.found \cup {scan.dev} |->
                            IF d = scan.dev THEN bound[d] ELSE scan.found[d]]
  <1>1. /\ UNCHANGED <<config, host, pciList, search, known, raced, verdict>> /\ scan.pc = "offered"
        /\ scan' = Left(found)
        /\ since' = NoUse
    BY DEF Offered, Scan
  <1>2. /\ ShapeOK /\ ScanTypes /\ HostTypes /\ search[Scanner] = Idle
        /\ scan.dev \in Devices
    BY <1>1, TypesJoin DEF IInv, WaitOK, TypeOK
  <1>3. ListOK' /\ VerdictTypes' /\ VerdictOK' /\ SearchOK'
    BY <1>1, ListKept, VerdictsKept
  <1>4. scan' = [pc |-> "next", todo |-> scan.todo, dev |-> None, active |-> {},
                 unread |-> {}, read |-> <<>>, found |-> found]
    <2> HIDE DEF found
    <2> QED BY <1>1, LeftShape
  <1>5. found \in Lefts
    <2>1. bound[scan.dev] \in SUBSET Bindable /\ scan.found \in Lefts
      BY <1>2 DEF HostTypes, ShapeOK
    <2>2. found = [d \in DOMAIN scan.found \cup {scan.dev} |->
                        IF d = scan.dev THEN bound[scan.dev] ELSE scan.found[d]]
      OBVIOUS
    <2>3. [d \in DOMAIN scan.found \cup {scan.dev} |->
                IF d = scan.dev THEN bound[scan.dev] ELSE scan.found[d]] \in Lefts
      BY <1>2, <2>1, LeftsKnown
    <2> QED BY <2>2, <2>3
  <1> HIDE DEF found
  <1>6. ShapeOK'
    <2>1. since' \in [always : SUBSET Blocks, never : BOOLEAN]
      BY <1>1 DEF NoUse
    <2>2. /\ scan.todo \in SUBSET DOMAIN Order /\ scan.unread \in SUBSET Blocks
          /\ <<>> \in Reads
      BY <1>2, ReadsKnown DEF ShapeOK
    <2> QED BY <1>4, <1>5, <2>1, <2>2 DEF ShapeOK
  <1>7. scan'.pc = "next" /\ scan'.dev = None /\ scan'.unread \cap DOMAIN scan'.read = {}
    BY <1>4
  <1> QED BY <1>1, <1>2, <1>3, <1>6, <1>7, NotLooking

---------------------------------------------------------------------------
(* The verdict.                                                             *)

\* Rules of a configuration are lists of objects.
LEMMA RulesKnown ==
    ASSUME NEW c \in Configs, NEW rules \in {c.usb, c.pci}
    PROVE  /\ IsList(rules)
           /\ \A i \in DOMAIN rules : \A key \in {"allow", "deny"} : IsList(Entries(rules[i], key))
           /\ \A i \in DOMAIN rules : IsObject(rules[i])
           /\ \A i \in DOMAIN rules : \A key \in {"allow", "deny"} :
                \A j \in DOMAIN Entries(rules[i], key) : IsObject(Entries(rules[i], key)[j])
  BY ConfigsAssumption DEF ConfigsAssumption

\* A step of a search leaves the rest alone.
LEMMA SearchStep ==
    ASSUME IInv, UNCHANGED <<config, host, scan, since, pciList>>,
           VerdictTypes', VerdictOK', SearchOK', scan.pc # "idle" => search'[Scanner] = search[Scanner]
    PROVE  IInv'
  <1>1. HostTypes' /\ StackOK' /\ UNCHANGED <<mounted, anonymous, mapped>>
    BY HostKept
  <1>2. ShapeOK' /\ ScanTypes' /\ ReadOK' /\ StorageSpared'
    BY TypesJoin DEF IInv, ShapeOK, ScanTypes, ReadOK, StorageSpared
  <1>3. SinceOK'
    BY <1>1 DEF IInv, SinceOK, Shown
  <1>4. WaitOK' /\ ListOK'
    BY DEF IInv, WaitOK, ListOK
  <1>5. TypeOK'
    BY <1>1, <1>2, TypesJoin
  <1> QED BY <1>1, <1>2, <1>3, <1>4, <1>5 DEF IInv

\* A task whose scan is on has none to judge.
LEMMA ScannerIdle ==
    ASSUME IInv, NEW k \in Askers, NEW d \in Devices, IsFirst(d, DOMAIN search[k].left)
    PROVE  scan.pc # "idle" => k # Scanner
  BY DEF IInv, WaitOK, IsFirst, Idle, Listed

\* Only one device is the first.
LEMMA OneFirst ==
    ASSUME NEW S, NEW d, NEW e, IsFirst(d, S), IsFirst(e, S)
    PROVE  d = e
  <1>1. PICK i \in DOMAIN Order : Order[i] = d /\ \A n \in 1..(i - 1) : Order[n] \notin S
    BY DEF IsFirst
  <1>2. PICK j \in DOMAIN Order : Order[j] = e /\ \A n \in 1..(j - 1) : Order[n] \notin S
    BY DEF IsFirst
  <1>3. d \in S /\ e \in S
    BY DEF IsFirst
  <1>4. i \in Nat /\ j \in Nat /\ i > 0 /\ j > 0
    <2>1. Order \in Seq(Devices)
      BY ConstantsAssumption DEF ConstantsAssumption
    <2> QED BY <2>1
  <1>5. ~(i < j)
    <2>1. i < j => i \in 1..(j - 1)
      BY <1>4
    <2> QED BY <1>1, <1>2, <1>3, <2>1
  <1>6. ~(j < i)
    <2>1. j < i => j \in 1..(i - 1)
      BY <1>4
    <2> QED BY <1>1, <1>2, <1>3, <2>1
  <1> QED BY <1>1, <1>2, <1>4, <1>5, <1>6

Searches == [left : Lefts, answers : Answerings, asking : BOOLEAN]

\* A question is answered.
LEMMA AnsweredGives ==
    ASSUME IInv, NEW k \in Askers, NEW d \in Devices, NEW place \in Asked(k, d),
           NEW answer \in SUBSET AllModules, Answered(k, place, answer)
    PROVE  /\ search' \in [Askers -> Searches]
           /\ \A e \in Askers : e # k => search'[e] = search[e]
           /\ search'[k].left = search[k].left
           /\ DOMAIN search'[k].answers = DOMAIN search[k].answers \cup {place}
           /\ search'[k].answers[place] = answer
           /\ \A p \in DOMAIN search[k].answers : p # place =>
                search'[k].answers[p] = search[k].answers[p]
  <1> DEFINE more == [p \in DOMAIN search[k].answers \cup {place} |->
                        IF p = place THEN answer ELSE search[k].answers[p]]
             new == [left |-> search[k].left, answers |-> more, asking |-> FALSE]
  <1>1. search \in [Askers -> Searches] /\ search[k] \in Searches
    BY DEF IInv, SearchOK, Searches
  <1>2. search' = [search EXCEPT ![k] = new]
    BY Zenon DEF Answered
  <1>3. place \in Places(config.usb)
    BY DEF Asked, Open
  <1>4. more \in Answerings
    <2>1. search[k].answers \in Answerings
      BY <1>1 DEF Searches
    <2> QED BY <1>3, <2>1, AnsweringsKnown, Zenon
  <1>5. /\ DOMAIN more = DOMAIN search[k].answers \cup {place}
        /\ more[place] = answer
        /\ \A p \in DOMAIN search[k].answers : p # place => more[p] = search[k].answers[p]
    OBVIOUS
  <1>6. new \in Searches /\ new.left = search[k].left /\ new.answers = more
    <2> HIDE DEF more
    <2> QED BY <1>1, <1>4 DEF Searches
  <1> HIDE DEF new, more
  <1> QED BY <1>1, <1>2, <1>5, <1>6

LEMMA LookUpInv ==
    ASSUME IInv, NEW k \in Askers, NEW d \in Devices, LookUp(k, d)
    PROVE  IInv'
  <1> DEFINE m == Modalias[d]
  <1>1. /\ UNCHANGED <<config, host, scan, since, pciList, known, raced, verdict>>
        /\ IsFirst(d, DOMAIN search[k].left)
    BY DEF LookUp, Judging
  <1>2. PICK place \in Asked(k, d) :
            IF known[m] # None THEN Answered(k, place, known[m])
            ELSE search' = [search EXCEPT ![k].asking = TRUE]
    BY DEF LookUp
  <1>3. SearchOK /\ VerdictTypes /\ m \in Modaliases
    BY TypesJoin DEF IInv, Modaliases
  <1>4. VerdictTypes' /\ VerdictOK' /\ Answerings' = Answerings
    BY <1>1, <1>3, VerdictOKKept DEF VerdictTypes, Answerings
  <1>5. CASE known[m] # None
    <2>1. known[m] \in SUBSET AllModules
      BY <1>3, <1>5 DEF VerdictTypes, AllModules
    <2> HIDE DEF m
    <2>2. /\ search' \in [Askers -> Searches]
          /\ \A e \in Askers : e # k => search'[e] = search[e]
          /\ search'[k].left = search[k].left
          /\ DOMAIN search'[k].answers = DOMAIN search[k].answers \cup {place}
          /\ search'[k].answers[place] = known[m]
          /\ \A p \in DOMAIN search[k].answers : p # place =>
                search'[k].answers[p] = search[k].answers[p]
      BY <1>2, <1>5, <2>1, AnsweredGives
    <2>3. ASSUME NEW e \in Devices, IsFirst(e, DOMAIN search[k].left), Modalias[e] \notin raced,
                 NEW p \in DOMAIN search'[k].answers
          PROVE  known[Modalias[e]] # None /\ search'[k].answers[p] = known[Modalias[e]]
      <3>1. e = d
        BY <1>1, <2>3, OneFirst
      <3>2. \A q \in DOMAIN search[k].answers : search[k].answers[q] = known[m]
        BY <1>3, <2>3, <3>1 DEF SearchOK, m
      <3> QED BY <1>5, <2>2, <2>3, <3>1, <3>2 DEF m
    <2>4. SearchOK'
      BY <1>1, <1>3, <1>4, <2>2, <2>3 DEF SearchOK, Searches
    <2> QED BY <1>1, <1>4, <2>2, <2>4, ScannerIdle, SearchStep, ConstantsAssumption DEF ConstantsAssumption
  <1>6. CASE known[m] = None
    <2>1. search \in [Askers -> Searches]
      BY <1>3 DEF SearchOK, Searches
    <2> DEFINE new == [search[k] EXCEPT !.asking = TRUE]
    <2>2. search' = [search EXCEPT ![k] = new]
      BY <1>2, <1>6
    <2>3. new.left = search[k].left /\ new.answers = search[k].answers
      BY <2>1 DEF Searches
    <2>4. new \in Searches
      BY <2>1 DEF Searches
    <2> HIDE DEF new
    <2>5. /\ search' \in [Askers -> Searches]
          /\ \A e \in Askers : e # k => search'[e] = search[e]
          /\ search'[k].left = search[k].left /\ search'[k].answers = search[k].answers
      BY <2>1, <2>2, <2>3, <2>4
    <2>6. SearchOK'
      BY <1>1, <1>3, <1>4, <2>5 DEF SearchOK, Searches
    <2> QED BY <1>1, <1>4, <2>5, <2>6, ScannerIdle, SearchStep, ConstantsAssumption DEF ConstantsAssumption
  <1> QED BY <1>5, <1>6

\* The cache takes the answer.  What has been told or decided by another answer
\* is about a modalias that two tasks have asked for.
LEMMA LearnInv ==
    ASSUME IInv, NEW k \in Askers, NEW d \in Devices, Learn(k, d)
    PROVE  IInv'
  <1> DEFINE m == Modalias[d]
             All == {None} \cup SUBSET AllModules
  <1>1. /\ UNCHANGED <<config, host, scan, since, pciList, verdict>>
        /\ IsFirst(d, DOMAIN search[k].left)
    BY DEF Learn, Judging
  <1>2. PICK place \in Asked(k, d), answer \in SUBSET Modules[m] :
            /\ known' = [known EXCEPT ![m] = answer]
            /\ raced' = IF known[m] \in {None, answer} THEN raced ELSE raced \cup {m}
            /\ Answered(k, place, answer)
    BY DEF Learn, Learnt
  <1>3. /\ SearchOK /\ VerdictOK /\ VerdictTypes /\ m \in Modaliases
        /\ known \in [Modaliases -> All] /\ Answerings' = Answerings
    BY <1>1, TypesJoin DEF IInv, Modaliases, VerdictTypes, AllModules, Answerings
  <1>4. answer # None /\ answer \in SUBSET AllModules
    BY <1>3, ConstantsAssumption DEF ConstantsAssumption, AllModules
  <1> HIDE DEF m
  <1>5. /\ known' \in [Modaliases -> All] /\ known'[m] = answer
        /\ \A n \in Modaliases : n # m => known'[n] = known[n]
    <2>1. answer \in All
      BY <1>4
    <2> HIDE DEF All
    <2> QED BY <1>2, <1>3, <2>1
  <1>6. /\ raced \subseteq raced' /\ raced' \subseteq Modaliases
        /\ m \notin raced' => known[m] \in {None, answer}
    BY <1>2, <1>3 DEF VerdictTypes
  <1>7. ASSUME NEW n \in Modaliases, n \notin raced', known[n] # None
        PROVE  known'[n] = known[n]
    BY <1>5, <1>6, <1>7
  <1>8. VerdictTypes'
    BY <1>1, <1>3, <1>5, <1>6 DEF VerdictTypes, AllModules
  <1>9. VerdictOK'
    <2> SUFFICES ASSUME NEW e \in Devices, verdict'[e] # None, Modalias[e] \notin raced'
                 PROVE  \E answers : Decided(e, answers)'
      BY DEF VerdictOK
    <2>1. verdict' = verdict /\ config' = config /\ Modalias[e] \notin raced /\ Modalias[e] \in Modaliases
      BY <1>1, <1>6 DEF Modaliases
    <2>2. PICK answers : Decided(e, answers)
      BY <1>3, <2>1 DEF VerdictOK
    <2>3. ASSUME NEW p \in DOMAIN answers
          PROVE  known'[Modalias[e]] # None /\ answers[p] = known'[Modalias[e]]
      <3>1. known[Modalias[e]] # None /\ answers[p] = known[Modalias[e]]
        BY <2>2 DEF Decided
      <3> QED BY <1>7, <2>1, <3>1
    <2>4. Decided(e, answers)'
      BY <2>1, <2>2, <2>3, Zenon DEF Decided
    <2> QED BY <2>4
  <1>10. /\ search' \in [Askers -> Searches]
         /\ \A e \in Askers : e # k => search'[e] = search[e]
         /\ search'[k].left = search[k].left
         /\ DOMAIN search'[k].answers = DOMAIN search[k].answers \cup {place}
         /\ search'[k].answers[place] = answer
         /\ \A p \in DOMAIN search[k].answers : p # place =>
               search'[k].answers[p] = search[k].answers[p]
    BY <1>2, <1>4, AnsweredGives
  <1>11. ASSUME NEW t \in Askers, NEW e \in Devices, IsFirst(e, DOMAIN search'[t].left),
                Modalias[e] \notin raced', NEW p \in DOMAIN search'[t].answers
         PROVE  known'[Modalias[e]] # None /\ search'[t].answers[p] = known'[Modalias[e]]
    <2>1. IsFirst(e, DOMAIN search[t].left) /\ Modalias[e] \notin raced /\ Modalias[e] \in Modaliases
      BY <1>6, <1>10, <1>11 DEF Modaliases
    <2>2. CASE p \in DOMAIN search[t].answers /\ search'[t].answers[p] = search[t].answers[p]
      <3>1. known[Modalias[e]] # None /\ search[t].answers[p] = known[Modalias[e]]
        BY <1>3, <2>1, <2>2 DEF SearchOK
      <3> QED BY <1>7, <1>11, <2>1, <2>2, <3>1
    <2>3. CASE t = k /\ p = place
      <3>1. e = d
        BY <1>1, <2>1, <2>3, OneFirst
      <3> QED BY <1>4, <1>5, <1>10, <2>3, <3>1 DEF m
    <2> QED BY <1>10, <1>11, <2>2, <2>3
  <1>12. SearchOK'
    <2>1. search' \in [Askers -> [left : Lefts, answers : Answerings', asking : BOOLEAN]]
      BY <1>3, <1>10 DEF Searches
    <2>2. \A t \in Askers : \A e \in Devices :
              IsFirst(e, DOMAIN search'[t].left) /\ Modalias[e] \notin raced' =>
                  \A p \in DOMAIN search'[t].answers :
                      /\ known'[Modalias[e]] # None
                      /\ search'[t].answers[p] = known'[Modalias[e]]
      BY <1>11
    <2> QED BY <2>1, <2>2, Zenon DEF SearchOK
  <1>13. scan.pc # "idle" => search'[Scanner] = search[Scanner]
    BY <1>1, <1>10, ScannerIdle, ConstantsAssumption DEF ConstantsAssumption
  <1> QED BY <1>1, <1>8, <1>9, <1>12, <1>13, SearchStep

LEMMA JudgeInv ==
    ASSUME IInv, NEW k \in Askers, NEW d \in Devices, Judge(k, d)
    PROVE  IInv'
  <1> DEFINE me == search[k]
             device == Seen(d, me.left[d])
             ruling == [rule |-> UsbRule(config.usb, device, me.answers), drivers |-> me.left[d]]
             rest == [e \in DOMAIN me.left \ {d} |-> me.left[e]]
             new == Listed(rest)
             V == [rule : 0..Len(config.usb), drivers : SUBSET Bindable]
  <1>1. /\ UNCHANGED <<config, host, scan, since, pciList, known, raced>>
        /\ IsFirst(d, DOMAIN me.left) /\ Open(config.usb, device, me.answers) = {}
        /\ search' = [search EXCEPT ![k] = new]
        /\ verdict' = IF d \in present THEN [verdict EXCEPT ![d] = ruling] ELSE verdict
    BY Zenon DEF Judge, Judging
  <1>2. /\ SearchOK /\ VerdictOK /\ VerdictTypes /\ Answerings' = Answerings
        /\ search \in [Askers -> Searches] /\ me \in Searches /\ config \in Configs
    BY <1>1, TypesJoin DEF IInv, SearchOK, Searches, Answerings, TypeOK
  <1>3. me.left \in Lefts /\ me.answers \in Answerings /\ d \in DOMAIN me.left
    BY <1>1, <1>2 DEF Searches, IsFirst
  <1>4. new \in Searches /\ DOMAIN new.answers = {}
    <2>1. rest \in Lefts
      BY <1>3, LeftsKnown
    <2> HIDE DEF rest
    <2> QED BY <2>1, AnsweringsKnown DEF Searches, Listed
  <1>5. me.left[d] \in SUBSET Bindable
    BY <1>3, LeftsKnown
  <1>6. ruling \in V
    <2>1. UsbRule(config.usb, device, me.answers) \in 0..Len(config.usb)
      BY <1>2, RulesKnown, UsbRuleFirst
    <2> HIDE DEF device, me
    <2> QED BY <1>5, <2>1
  <1>7. DOMAIN me.answers \subseteq Places(config.usb)
    BY <1>3, AnsweringsKnown
  <1>8. ruling.drivers = me.left[d] /\ ruling.rule = UsbRule(config.usb, device, me.answers)
    OBVIOUS
  <1> HIDE DEF new, ruling
  <1>9. /\ search' \in [Askers -> Searches]
        /\ \A t \in Askers : search'[t] = IF t = k THEN new ELSE search[t]
    BY <1>1, <1>2, <1>4
  <1>10. SearchOK'
    BY <1>1, <1>2, <1>4, <1>9 DEF SearchOK, Searches
  <1>11. \A e \in Devices : verdict'[e] = IF e = d /\ d \in present THEN ruling ELSE verdict[e]
    BY <1>1, <1>2 DEF VerdictTypes
  <1>12. VerdictTypes'
    <2>1. verdict \in [Devices -> {None} \cup V]
      BY <1>2 DEF VerdictTypes
    <2> HIDE DEF V
    <2>2. verdict' \in [Devices -> {None} \cup V]
      BY <1>1, <1>6, <2>1
    <2> QED BY <1>1, <1>2, <2>2 DEF VerdictTypes, V
  <1>13. VerdictOK'
    <2> SUFFICES ASSUME NEW e \in Devices, verdict'[e] # None, Modalias[e] \notin raced'
                 PROVE  \E answers : Decided(e, answers)'
      BY DEF VerdictOK
    <2>1. raced' = raced /\ known' = known /\ config' = config
      BY <1>1
    <2>2. CASE e = d /\ d \in present
      <3>1. verdict'[e] = ruling
        BY <1>11, <2>2
      <3>2. Open(config.usb, Seen(e, verdict'[e].drivers), me.answers) = {}
        BY <1>1, <1>8, <2>2, <3>1
      <3>3. verdict'[e].rule = UsbRule(config.usb, Seen(e, verdict'[e].drivers), me.answers)
        BY <1>8, <2>2, <3>1
      <3>4. \A place \in DOMAIN me.answers : /\ known[Modalias[e]] # None
                                            /\ me.answers[place] = known[Modalias[e]]
        BY <1>1, <1>2, <2>1, <2>2 DEF SearchOK
      <3>5. PICK answers : answers = me.answers
        OBVIOUS
      <3>6. /\ DOMAIN answers \subseteq Places(config.usb)
            /\ Open(config.usb, Seen(e, verdict'[e].drivers), answers) = {}
            /\ verdict'[e].rule = UsbRule(config.usb, Seen(e, verdict'[e].drivers), answers)
            /\ \A place \in DOMAIN answers : /\ known[Modalias[e]] # None
                                             /\ answers[place] = known[Modalias[e]]
        BY <1>7, <3>2, <3>3, <3>4, <3>5
      <3>7. Decided(e, answers)'
        BY <2>1, <3>6, Zenon DEF Decided
      <3> QED BY <3>7
    <2>3. CASE ~(e = d /\ d \in present)
      <3>1. verdict'[e] = verdict[e]
        BY <1>11, <2>3
      <3>2. PICK answers : Decided(e, answers)
        BY <1>2, <2>1, <3>1 DEF VerdictOK
      <3>3. Decided(e, answers)'
        BY <2>1, <3>1, <3>2, Zenon DEF Decided
      <3> QED BY <3>3
    <2> QED BY <2>2, <2>3
  <1> QED BY <1>1, <1>9, <1>10, <1>12, <1>13, ScannerIdle, SearchStep, ConstantsAssumption
          DEF ConstantsAssumption

\* Another task begins to judge: it has been told nothing.
LEMMA ListUsbInv ==
    ASSUME IInv, NEW k \in Askers, ListUsb(k)
    PROVE  IInv'
  <1>1. /\ k # Scanner /\ search[k] = Idle /\ Elsewhere /\ UNCHANGED <<present, bound, verdict>>
    BY DEF ListUsb
  <1>2. PICK S \in Lists :
            search' = [search EXCEPT ![k] = Listed([d \in S |-> bound[d]])]
    BY DEF ListUsb
  <1> DEFINE left == [d \in S |-> bound[d]]
             new == Listed(left)
  <1>3. TypeOK /\ StackOK /\ WaitOK /\ SearchOK /\ VerdictTypes
    BY TypesJoin DEF IInv
  <1>4. config' = config /\ known' = known /\ raced' = raced /\ Answerings' = Answerings
    BY <1>1 DEF Elsewhere, Answerings
  <1>5. search \in [Askers -> Searches]
    BY <1>3 DEF SearchOK, Searches
  <1>6. left \in Lefts
    <2>1. S \in SUBSET Devices
      BY ConstantsAssumption DEF ConstantsAssumption
    <2>2. \A d \in S : bound[d] \in SUBSET Bindable
      BY <1>3, <2>1 DEF TypeOK
    <2>3. left \in [S -> SUBSET Bindable]
      BY <2>2
    <2> HIDE DEF left
    <2> QED BY <2>1, <2>3, PartialFunctions, Zenon DEF Lefts
  <1>7. search' = [search EXCEPT ![k] = new]
    BY <1>2
  <1>8. new \in Searches /\ DOMAIN new.answers = {}
    <2> HIDE DEF left
    <2> QED BY <1>6, AnsweringsKnown DEF Searches, Listed
  <1> HIDE DEF new
  <1>9. /\ search' \in [Askers -> Searches]
        /\ \A t \in Askers : search'[t] = IF t = k THEN new ELSE search[t]
    BY <1>5, <1>7, <1>8
  <1>10. SearchOK'
    BY <1>3, <1>4, <1>8, <1>9 DEF SearchOK, Searches
  <1>11. VerdictOK'
    BY <1>1, <1>4, VerdictOKKept
  <1>12. StackOK' /\ WaitOK'
    <2>1. Scanner \in Askers
      BY ConstantsAssumption DEF ConstantsAssumption
    <2> QED BY <1>1, <1>3, <1>9, <2>1 DEF StackOK, WaitOK, Exists, Elsewhere
  <1>13. TypeOK'
    <2>1. /\ present \subseteq Devices /\ bound \in [Devices -> SUBSET Bindable]
          /\ verdict \in [Devices -> {None} \cup [rule : 0..Len(config.usb), drivers : SUBSET Bindable]]
      BY <1>3, Zenon DEF TypeOK
    <2>2. \A t \in Askers : search'[t].left \in Lefts /\ search'[t].answers \in Answerings
      BY <1>9 DEF Searches
    <2>3. \A t \in Askers : /\ DOMAIN search'[t].left \subseteq Devices
                            /\ DOMAIN search'[t].answers \subseteq Places(config.usb)
      BY <2>2, LeftsKnown, AnsweringsKnown
    <2> QED BY <1>1, <1>3, <2>1, <2>3, ElsewhereTypes
  <1> QED BY <1>1, <1>10, <1>11, <1>12, <1>13, ElsewhereKeeps

LEMMA SearchInv == ASSUME IInv, Search PROVE IInv'
  BY LookUpInv, LearnInv, JudgeInv, ListUsbInv DEF Search

LEMMA NextInv == IInv /\ [Next]_vars => IInv'
  <1> SUFFICES ASSUME IInv, [Next]_vars PROVE IInv'
    OBVIOUS
  <1>1. CASE Next
    BY <1>1, HostInv, ScanStartInv, ScanNextInv, ScanResolveInv, ScanBlockInv, ScanDecideInv,
       ExcludedInv, OfferedInv, SearchInv, ListPciInv DEF Next
  <1>2. CASE UNCHANGED vars
    <2>1. UNCHANGED <<config, host, scan, since, search, known, raced, verdict, pciList>>
      BY <1>2 DEF vars, judging
    <2>2. VerdictTypes' /\ VerdictOK' /\ SearchOK'
      BY <2>1, VerdictsKept
    <2> QED BY <2>1, <2>2, SearchStep
  <1> QED BY <1>1, <1>2

THEOREM Invariant == Spec => []IInv
  BY InitInv, NextInv, PTL DEF Spec

\* The types of the state: above all, that a scan reads only blocks that were
\* there, and that every verdict is a rule of the configuration.
THEOREM TypeCorrect == Spec => []TypeOK
  <1>1. IInv => TypeOK
    BY DEF IInv
  <1> QED BY <1>1, Invariant, PTL

\* scan_usb never offers a device of which a mount under its own number, or a
\* virtual device, has shown a use from the reading of the mounts on, through
\* however many layers of virtual devices, and leaves out none of which nothing
\* has.  A mount that shows a number of its own counts only for what carries it.
THEOREM UsedSpared == Spec => []StorageSpared
  <1>1. IInv => StorageSpared
    BY DEF IInv
  <1> QED BY <1>1, Invariant, PTL

---------------------------------------------------------------------------
(* What the rule of a device says of it.                                    *)

LEMMA ValueSays ==
    ASSUME NEW node, IsObject(node), NEW key
    PROVE  /\ Value(node, key) # None <=> Stated(node, key) /\ node[key] # Bad
           /\ Value(node, key) # None => Value(node, key) = node[key]
  BY ValuesAssumption DEF ValuesAssumption, IsObject, Value, Stated

LEMMA EnabledOff == ASSUME NEW node, IsObject(node) PROVE Enabled(node) <=> ~Off(node)
  <1>1. None # TRUE /\ None # FALSE /\ Bad # TRUE /\ Bad # FALSE
    BY ValuesAssumption DEF ValuesAssumption
  <1> QED BY <1>1 DEF Enabled, Off, Value, Stated

\* A selector that is plain matches a device just if it names it.
LEMMA SelectorNames ==
    ASSUME NEW s, IsObject(s), Plain(s), NEW d, NEW modules
    PROVE  SelectorMatches(s, d, modules) <=> Names(s, d, modules)
  <1> DEFINE stated == {k \in DOMAIN s : s[k] # Bad}
             interface(i) == [interfaceClass |-> i.class, interfaceSubclass |-> i.subclass]
             ofClass(i) == Says(s, interface(i), {"interfaceClass"} \cup ({"interfaceSubclass"} \cap stated))
             Ids == Says(s, d, {"vendorId", "productId"})
             Place1 == Says(s, d, {"bus", "port"})
             Vendor == "vendorName" \in stated /\ d.vendorName \in s.vendorName
             Class == Says(s, d, {"deviceClass"})
             Kind == /\ Class /\ Says(s, d, {"deviceSubclass"} \cap stated)
             Part == ~Class /\ \E i \in d.interfaces : ofClass(i)
             Driver == /\ "driverPath" \in stated /\ (d.drivers \cup modules) \cap s.driverPath # {}
                       /\ \A i \in d.interfaces : i.class \in Vague
             Removable == "removable" \in stated => d.removable \in s.removable
             Any == Ids \/ Place1 \/ Vendor \/ Kind \/ Part
  <1>1. \A key : /\ Value(s, key) # None <=> key \in stated
                 /\ Value(s, key) # None => Value(s, key) = s[key]
                 /\ key \in stated <=> Stated(s, key) /\ s[key] # Bad
    BY ValueSays DEF Stated
  <1>2. Names(s, d, modules) <=> ~Off(s) /\ Removable /\ (Any \/ Driver)
    BY DEF Names
  <1>3. Enabled(s) <=> ~Off(s)
    BY EnabledOff
  <1>4. "driverPath" \in stated => ~Off(s) /\ Removable
    BY DEF Plain, Off
  <1>5. Same(s, "vendorId", d.vendorId) /\ Same(s, "productId", d.productId) <=> Ids
    BY <1>1 DEF Same, Says
  <1>6. Fits(s, "vendorName", d.vendorName) <=> Vendor
    BY <1>1 DEF Fits
  <1>7. Alike(s, "bus", d.bus) /\ Alike(s, "port", d.port) <=> Place1
    BY <1>1 DEF Alike, Says, Plain, Stated
  <1>8. Same(s, "deviceClass", d.deviceClass) <=> Class
    BY <1>1 DEF Same, Says
  <1>9. Agrees(s, "deviceSubclass", d.deviceSubclass) <=> Says(s, d, {"deviceSubclass"} \cap stated)
    BY <1>1 DEF Agrees, Says
  <1>10. \A i : Same(s, "interfaceClass", i.class) /\ Agrees(s, "interfaceSubclass", i.subclass) <=> ofClass(i)
    BY <1>1 DEF Same, Agrees, Says
  <1>11. (Value(s, "removable") # None => Fits(s, "removable", d.removable)) <=> Removable
    BY <1>1 DEF Fits
  <1>12. UsbSelectorMatches(s, d) <=> ~Off(s) /\ Removable /\ Any
    <2> HIDE DEF stated, ofClass, Ids, Place1, Vendor, Class, Removable
    <2> QED BY <1>3, <1>5, <1>6, <1>7, <1>8, <1>9, <1>10, <1>11 DEF UsbSelectorMatches
  <1>13. SelectorMatches(s, d, modules) <=> UsbSelectorMatches(s, d) \/ Driver
    BY <1>1 DEF SelectorMatches, Undecided
  <1> HIDE DEF stated, Any, Driver, Removable
  <1> QED BY <1>2, <1>4, <1>12, <1>13 DEF Driver

\* One rule: it wins just if it is on, names a VM, allows and does not deny.
Named(r, key, device, modules) ==
    \E i \in DOMAIN Entries(r, key) : Names(r[key][i], device, modules)
Wants(r, device, modules) ==
    /\ ~Off(r)
    /\ ("targetVm" \in DOMAIN r /\ r.targetVm # Bad) \/ Entries(r, "allowedVms") # <<>>
    /\ Named(r, "allow", device, modules) /\ ~Named(r, "deny", device, modules)

\* The same answer at every place.
Everywhere(rules, modules) == [place \in Places(rules) |-> modules]

LEMMA WinsWants ==
    ASSUME NEW rules, NEW i \in DOMAIN rules, IsObject(rules[i]), NEW device, NEW modules,
           \A key \in {"allow", "deny"} : \A j \in DOMAIN Entries(rules[i], key) :
                IsObject(Entries(rules[i], key)[j]) /\ Plain(rules[i][key][j])
    PROVE  Wins(rules, i, device, Everywhere(rules, modules)) <=> Wants(rules[i], device, modules)
  <1> DEFINE r == rules[i]
             answers == Everywhere(rules, modules)
             Hit(key) == Hits(rules, i, key, device, answers) # {}
  <1>1. ASSUME NEW key \in {"allow", "deny"} PROVE Hit(key) <=> Named(r, key, device, modules)
    <2>1. ASSUME NEW j \in DOMAIN Entries(r, key)
          PROVE  SelectorMatches(r[key][j], device, Answer(answers, <<i, key, j>>)) <=>
                 Names(r[key][j], device, modules)
      <3>1. Entries(r, key) = r[key]
        BY <2>1, EntriesOfKey
      <3>2. IsObject(r[key][j]) /\ Plain(r[key][j])
        BY <1>1, <2>1, <3>1
      <3>3. Answer(answers, <<i, key, j>>) = modules
        BY <1>1, <2>1, PlacesOfList DEF Answer, Everywhere
      <3> QED BY <3>2, <3>3, SelectorNames
    <2>2. Hit(key) <=> \E j \in DOMAIN Entries(r, key) :
                          SelectorMatches(r[key][j], device, Answer(answers, <<i, key, j>>))
      BY DEF Hits
    <2> QED BY <2>1, <2>2 DEF Named
  <1>2. RuleMatches(rules, i, device, answers) <=> ~Off(r) /\ Hit("allow") /\ ~Hit("deny")
    <2>1. Enabled(r) <=> ~Off(r)
      BY EnabledOff
    <2> QED BY <2>1 DEF RuleMatches
  <1>3. NamesVm(r) <=> ("targetVm" \in DOMAIN r /\ r.targetVm # Bad) \/ Entries(r, "allowedVms") # <<>>
    BY ValueSays DEF NamesVm, Stated
  <1> HIDE DEF Hit, answers
  <1> QED BY <1>1, <1>2, <1>3 DEF Wins, Wants, answers

\* Whoever else asks, a verdict is the first rule that wants the device with the
\* drivers it had, by all that is known now of its modules, as long as no two
\* tasks that asked at once were answered differently.
THEOREM RuleChosen == Spec => []UsbRuleChosen
  <1>1. ASSUME IInv PROVE UsbRuleChosen
    <2> DEFINE rules == config.usb
               device(d) == Seen(d, verdict[d].drivers)
               modules(d) == Cached(known, Modalias[d])
    <2>1. config \in Configs /\ VerdictOK
      BY <1>1 DEF IInv, TypeOK
    <2>2. /\ IsList(rules)
          /\ \A i \in DOMAIN rules : IsObject(rules[i])
          /\ \A i \in DOMAIN rules : \A key \in {"allow", "deny"} : IsList(Entries(rules[i], key))
          /\ \A i \in DOMAIN rules : \A key \in {"allow", "deny"} :
                \A j \in DOMAIN Entries(rules[i], key) : IsObject(Entries(rules[i], key)[j])
      BY <2>1, RulesKnown
    <2>3. ASSUME NEW d \in Devices, verdict[d] # None, Modalias[d] \notin raced,
                 \A i \in DOMAIN rules : \A key \in {"allow", "deny"} :
                    \A j \in DOMAIN Entries(rules[i], key) : Plain(rules[i][key][j])
          PROVE  /\ verdict[d].rule # 0 => Wants(rules[verdict[d].rule], device(d), modules(d))
                 /\ \A i \in DOMAIN rules :
                        Wants(rules[i], device(d), modules(d)) => verdict[d].rule \in 1..i
      <3> DEFINE all == Everywhere(rules, modules(d))
      <3>1. PICK answers : Decided(d, answers)
        BY <2>1, <2>3 DEF VerdictOK
      <3>2. Agreeing(answers, all)
        <4> SUFFICES ASSUME NEW place \in DOMAIN answers
                     PROVE  Answer(all, place) = answers[place]
          BY DEF Agreeing
        <4>1. place \in Places(rules) /\ known[Modalias[d]] # None /\ answers[place] = known[Modalias[d]]
          BY <3>1 DEF Decided
        <4> QED BY <4>1 DEF Answer, Everywhere, Cached
      <3>3. UsbRule(rules, device(d), all) = UsbRule(rules, device(d), answers)
        <4>1. Open(rules, device(d), answers) = {}
          BY <3>1 DEF Decided
        <4> HIDE DEF rules, device, all
        <4> QED BY <2>2, <3>2, <4>1, UsbRuleAnswered
      <3>4. verdict[d].rule = UsbRule(rules, device(d), all)
        BY <3>1, <3>3 DEF Decided
      <3>5. \A i \in DOMAIN rules : Wins(rules, i, device(d), all) <=> Wants(rules[i], device(d), modules(d))
        <4> HIDE DEF device, modules
        <4> QED BY <2>2, <2>3, WinsWants
      <3> HIDE DEF rules, all, device, modules
      <3> QED BY <2>2, <3>4, <3>5, UsbRuleFirst
    <2> QED BY <2>3, Zenon DEF UsbRuleChosen, Wants, Named
  <1> QED BY <1>1, Invariant, PTL

---------------------------------------------------------------------------
(* The list of PCI devices.                                                 *)

\* pci_devices sorts by order, then by address.
PciBefore(rules, a, b) ==
    LET r == PciRule(rules, PciDesc[a])  t == PciRule(rules, PciDesc[b])
    IN  r.order < t.order \/ (r.order = t.order /\ a < b)

LEMMA PciSorted ==
    ASSUME NEW c \in Configs, NEW list, list = PciListing(c.pci)
    PROVE  \A x, y \in DOMAIN list :
                LET p == list[x]  q == list[y] IN
                /\ p.address \in PciDevices /\ x \in Nat
                /\ p.rule = PciRule(c.pci, PciDesc[p.address]).rule /\ p.rule # 0
                /\ x # y => p.address # q.address
                /\ PciBefore(c.pci, p.address, q.address) => x < y
  <1> DEFINE rules == c.pci
             rule == [a \in PciDevices |-> PciRule(rules, PciDesc[a])]
             all  == {a \in PciDevices :
                        /\ rule[a].rule # 0
                        /\ Value(rules[rule[a].rule], "pciIommuSkipIfShared") = TRUE => a \notin Shared}
             before(a, b) == rule[a].order < rule[b].order \/ (rule[a].order = rule[b].order /\ a < b)
             place == [a \in all |-> 1 + Cardinality({b \in all : before(b, a)})]
             R == {p \in all \X all : before(p[1], p[2])}
  <1>1. list = [i \in 1..Cardinality(all) |->
                    LET a == CHOOSE x \in all : place[x] = i IN [address |-> a, rule |-> rule[a].rule]]
    BY Zenon DEF PciListing
  <1>2. PciDevices \subseteq Nat /\ IsFiniteSet(PciDevices) /\ IsFiniteSet(all)
    <2>1. PciDevices \subseteq Nat /\ IsFiniteSet(PciDevices)
      BY ConstantsAssumption DEF ConstantsAssumption
    <2>2. all \in SUBSET PciDevices
      OBVIOUS
    <2> QED BY <2>1, <2>2, FS_Subset
  <1>3. /\ IsList(rules)
        /\ \A i \in DOMAIN rules : IsList(Entries(rules[i], "allow"))
    BY RulesKnown
  <1>4. \A a \in all : rule[a].order \in Nat /\ a \in Nat
    <2> TAKE a \in all
    <2>1. a \in PciDevices /\ rule[a] = PciRule(rules, PciDesc[a]) /\ rule[a].rule # 0
      OBVIOUS
    <2>2. PciRule(rules, PciDesc[a]).order \in Nat
      <3> HIDE DEF rule, rules
      <3> QED BY <1>3, <2>1, PciOrder
    <2> QED BY <1>2, <2>1, <2>2
  <1>5. \A a, b \in all : <<a, b>> \in R <=> before(a, b)
    OBVIOUS
  <1>6. ASSUME NEW a \in all PROVE place[a] = Place(all, R, a)
    <2>1. {b \in all : before(b, a)} = {b \in all : <<b, a>> \in R}
      BY <1>5
    <2> QED BY <2>1 DEF Place
  <1> HIDE DEF rule, all, place, R
  <1>7. /\ \A a \in all : <<a, a>> \notin R
        /\ \A a, b, d \in all : <<a, b>> \in R /\ <<b, d>> \in R => <<a, d>> \in R
        /\ \A a, b \in all : a # b => <<a, b>> \in R \/ <<b, a>> \in R
    BY <1>4, <1>5
  <1>8. /\ Cardinality(all) \in Nat
        /\ \A a, b \in all : <<a, b>> \in R => place[a] < place[b]
        /\ \A i \in 1..Cardinality(all) : \E a \in all : place[a] = i
    <2>1. /\ Cardinality(all) \in Nat
          /\ \A a, b \in all : <<a, b>> \in R <=> Place(all, R, a) < Place(all, R, b)
          /\ \A i \in 1..Cardinality(all) : \E a \in all : Place(all, R, a) = i
      BY <1>2, <1>7, Sorted
    <2> QED BY <1>6, <2>1
  <1> DEFINE at(i) == CHOOSE x \in all : place[x] = i
  <1>9. \A i \in 1..Cardinality(all) :
            /\ at(i) \in all /\ place[at(i)] = i
            /\ list[i].address = at(i) /\ list[i].rule = rule[at(i)].rule
    BY <1>1, <1>8
  <1>10. DOMAIN list = 1..Cardinality(all)
    BY <1>1
  <1>11. \A a \in all : a \in PciDevices /\ rule[a] = PciRule(rules, PciDesc[a]) /\ rule[a].rule # 0
    BY DEF all, rule
  <1>12. \A a, b \in all : PciBefore(rules, a, b) <=> before(a, b)
    BY <1>11 DEF PciBefore
  <1> HIDE DEF at, before, rules
  <1>13. ASSUME NEW x \in 1..Cardinality(all), NEW y \in 1..Cardinality(all)
         PROVE  /\ list[x].address \in PciDevices /\ x \in Nat
                /\ list[x].rule = PciRule(rules, PciDesc[list[x].address]).rule /\ list[x].rule # 0
                /\ x # y => list[x].address # list[y].address
                /\ PciBefore(rules, list[x].address, list[y].address) => x < y
    <2>1. /\ at(x) \in all /\ place[at(x)] = x /\ list[x].address = at(x) /\ list[x].rule = rule[at(x)].rule
          /\ at(y) \in all /\ place[at(y)] = y /\ list[y].address = at(y)
      BY <1>9
    <2>2. PciBefore(rules, at(x), at(y)) => x < y
      BY <1>5, <1>8, <1>12, <2>1
    <2> QED BY <1>8, <1>11, <2>1, <2>2
  <1> QED BY <1>10, <1>13 DEF rules

\* pci_devices lists every device once, in the order of the rules and of their
\* entries, but for devices that an earlier rule allows and denies.
THEOREM ListInOrder == Spec => []PciListed
  <1>1. ASSUME IInv PROVE PciListed
    <2> DEFINE rules == config.pci
               allows(i, a) == FirstMatch(Entries(rules[i], "allow"), PciDesc[a])
    <2>1. config \in Configs /\ pciList \in {<<>>, PciListing(rules)}
      BY <1>1 DEF IInv, TypeOK, ListOK
    <2>2. CASE pciList = <<>>
      BY <2>2 DEF PciListed
    <2>3. CASE pciList = PciListing(rules)
      <3>1. /\ IsList(rules)
            /\ \A i \in DOMAIN rules : IsList(Entries(rules[i], "allow"))
        BY <2>1, RulesKnown
      <3>2. ASSUME NEW x \in DOMAIN pciList, NEW y \in DOMAIN pciList
            PROVE  LET p == pciList[x]  q == pciList[y] IN
                   /\ x # y => p.address # q.address
                   /\ (p.rule < q.rule /\ \A i \in 1..p.rule :
                           Enabled(rules[i]) => allows(i, q.address) = 0) => x < y
                   /\ (p.rule = q.rule /\ \A i \in 1..(p.rule - 1) :
                           Enabled(rules[i]) => allows(i, p.address) = 0 /\ allows(i, q.address) = 0) =>
                       (allows(p.rule, p.address) < allows(q.rule, q.address) => x < y)
        <4> DEFINE a == pciList[x].address
                   b == pciList[y].address
                   r == PciRule(rules, PciDesc[a])
                   t == PciRule(rules, PciDesc[b])
        <4>1. /\ pciList[x].rule = r.rule /\ r.rule # 0
              /\ pciList[y].rule = t.rule /\ t.rule # 0
              /\ x # y => a # b
              /\ PciBefore(rules, a, b) => x < y
          BY <2>1, <2>3, PciSorted
        <4>2. r.order < t.order => x < y
          BY <4>1 DEF PciBefore
        <4> HIDE DEF rules
        <4>3. /\ (r.rule < t.rule /\ \A k \in 1..r.rule : Enabled(rules[k]) => allows(k, b) = 0) =>
                    r.order < t.order
              /\ (r.rule = t.rule /\ \A k \in 1..(r.rule - 1) :
                        Enabled(rules[k]) => allows(k, a) = 0 /\ allows(k, b) = 0) =>
                    (allows(r.rule, a) < allows(r.rule, b) => r.order < t.order)
          BY <3>1, <4>1, PciOrder
        <4> HIDE DEF a, b, r, t, allows
        <4> QED BY <4>1, <4>2, <4>3 DEF a, b
      <3> QED BY <3>2 DEF PciListed
    <2> QED BY <2>1, <2>2, <2>3
  <1> QED BY <1>1, Invariant, PTL
=============================================================================
