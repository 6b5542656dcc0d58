--------------------------- MODULE StateFileProofs ---------------------------
(***************************************************************************)
(* The state file is never unreadable, and it implements DurableStore, for *)
(* any set of states.                                                      *)
(***************************************************************************)
EXTENDS StateFile, TLAPS

\* Between two steps of a save the temporary file is what the step left, and
\* it reaches the state file only when it is complete and on the disk.
Saving == /\ pc = "sync" => tmp = mem
          /\ pc = "rename" => tmp = mem /\ synced

\* A dead daemon holds no state and is in no save.
Dead == ~alive => pc = "idle" /\ mem = Empty

IInv == TypeOK /\ NeverDiscarded /\ Saving /\ Dead

\* The state file starts out absent.
LEMMA InitIInv == Init => IInv
  BY ConstantsAssumption
     DEF ConstantsAssumption, Init, IInv, TypeOK, NeverDiscarded, Saving, Dead, Contents, Pcs

\* Every step of a save, every failure, kill and power loss keeps IInv.
LEMMA StepIInv == IInv /\ [Next]_vars => IInv'
<1> SUFFICES ASSUME IInv, [Next]_vars PROVE IInv'
  OBVIOUS
<1> USE ConstantsAssumption
        DEF ConstantsAssumption, IInv, TypeOK, NeverDiscarded, Saving, Dead, Contents, Pcs
<1>1. ASSUME NEW m \in States, Change(m) PROVE IInv'
  BY <1>1 DEF Change
<1>2. CASE Create
  BY <1>2 DEF Create, Running
<1>3. CASE Write
  BY <1>3 DEF Write, Running
<1>4. CASE Sync
  BY <1>4 DEF Sync, Running
<1>5. CASE Rename
  BY <1>5 DEF Rename, Running
<1>6. CASE SaveFails
  BY <1>6 DEF SaveFails
<1>7. CASE Flush
  BY <1>7 DEF Flush
<1>8. CASE Kill
  BY <1>8 DEF Kill
<1>9. CASE PowerLoss
  BY <1>9 DEF PowerLoss
<1>10. CASE Load
  BY <1>10 DEF Load, Loaded
<1>11. CASE UNCHANGED vars
  BY <1>11 DEF vars
<1> QED
  BY <1>1, <1>2, <1>3, <1>4, <1>5, <1>6, <1>7, <1>8, <1>9, <1>10, <1>11 DEF Next

THEOREM Invariance == Spec => []IInv
  BY InitIInv, StepIInv, PTL DEF Spec

\* The state keeps its types: what is in memory, in the temporary file, in the
\* file and on the disk (State::save, State::load).
THEOREM TypeCorrect == Spec => []TypeOK
<1>1. IInv => TypeOK
  BY DEF IInv
<1> QED
  BY <1>1, Invariance, PTL

\* load() never meets a file it has to discard (State::load, State::save).
THEOREM FileReadable == Spec => []NeverDiscarded
<1>1. IInv => NeverDiscarded
  BY DEF IInv
<1> QED
  BY <1>1, Invariance, PTL

\* A step of save() is a step of the store or none: only the rename saves.
LEMMA StepRefines == IInv /\ [Next]_vars => [Store!Next]_(Store!storeVars)
<1> SUFFICES ASSUME IInv, [Next]_vars PROVE [Store!Next]_(Store!storeVars)
  OBVIOUS
<1> USE ConstantsAssumption DEF ConstantsAssumption, Store!storeVars
<1>1. ASSUME NEW m \in States, Change(m) PROVE Store!Next
  BY <1>1 DEF Change, Store!Next, Store!Change
<1>2. CASE Create \/ Write \/ Sync \/ SaveFails
  BY <1>2 DEF Create, Write, Sync, SaveFails, Running
<1>3. CASE Rename
  <2>1. tmp = mem /\ synced /\ mem \in States /\ alive
    BY <1>3 DEF Rename, Running, IInv, TypeOK, Saving
  <2>2. Loaded(file') = mem /\ Loaded(durable') \in {Loaded(durable), mem}
    BY <1>3, <2>1 DEF Rename, Loaded
  <2>3. Store!Save
    BY <1>3, <2>1, <2>2 DEF Rename, Running, Store!Save
  <2> QED
    BY <2>3 DEF Store!Next
<1>4. CASE Flush
  BY <1>4 DEF Flush, Store!Next, Store!CatchUp
<1>5. CASE Kill
  BY <1>5 DEF Kill, Store!Next, Store!Stop
<1>6. CASE PowerLoss
  BY <1>6 DEF PowerLoss, Store!Next, Store!Stop
<1>7. CASE Load
  BY <1>7 DEF Load, Store!Next, Store!Restart
<1>8. CASE UNCHANGED vars
  BY <1>8 DEF vars
<1> QED
  BY <1>1, <1>2, <1>3, <1>4, <1>5, <1>6, <1>7, <1>8 DEF Next

\* save() and load() implement the store: a save is all or nothing, and a
\* restart finds the last completed one.
THEOREM SaveIsAtomic == Spec => AtomicSave
<1>1. Init => Store!Init
  BY ConstantsAssumption DEF ConstantsAssumption, Init, Store!Init, Loaded
<1> QED
  BY <1>1, StepRefines, Invariance, PTL DEF Spec, AtomicSave, Store!Spec
=============================================================================
