----------------------------- MODULE StateFile -----------------------------
(***************************************************************************)
(* How State::save puts the persistent state into its file and State::load *)
(* gets it back (src/src/state.rs): a temporary file is truncated, written *)
(* and synced, and then renamed over the state file.  Every step may fail, *)
(* the daemon may be killed between any two of them, and the machine may   *)
(* lose power.                                                             *)
(*                                                                         *)
(* Contents are abstract: a state, or Garbage for anything that does not   *)
(* parse, an unfinished write included.  The file system keeps what was    *)
(* synced; what was not synced may be anything after a power loss, and a   *)
(* rename, whose directory nobody syncs, may or may not have reached the   *)
(* disk.  The state lock is held during a save, so saves do not overlap.   *)
(***************************************************************************)
CONSTANTS
    States,    \* values of the persistent state
    Empty,     \* PersistentState::default()
    Garbage,   \* contents that do not parse
    Absent     \* no such file

ASSUME ConstantsAssumption ==
    /\ Empty \in States
    /\ Garbage \notin States /\ Absent \notin States /\ Garbage # Absent

VARIABLES
    mem,     \* State::persistent
    pc,      \* the step of save() that comes next
    tmp,     \* contents of the temporary file
    synced,  \* and whether they are on the disk
    file,    \* contents of the state file
    durable, \* what the state file holds on the disk
    alive    \* the daemon runs

vars == <<mem, pc, tmp, synced, file, durable, alive>>

Contents == States \cup {Garbage, Absent}
Pcs      == {"idle", "write", "sync", "rename"}

---------------------------------------------------------------------------

Running(p) == alive /\ pc = p /\ UNCHANGED <<mem, alive>>

\* The daemon changes the state in memory, under the state lock.
Change(m) ==
    /\ alive /\ pc = "idle"
    /\ mem' = m
    /\ UNCHANGED <<pc, tmp, synced, file, durable, alive>>

\* create and truncate.
F_Create ==                \* the state file itself
    /\ Running("idle")
    /\ file' = Garbage /\ pc' = "write"
    /\ UNCHANGED <<tmp, synced, durable>>
Create ==
    /\ Running("idle")
    /\ tmp' = Garbage /\ synced' = FALSE
    /\ pc' = "write"
    /\ UNCHANGED <<file, durable>>

Write ==
    /\ Running("write")
    /\ tmp' = mem /\ synced' = FALSE
    /\ pc' = "sync"
    /\ UNCHANGED <<file, durable>>

\* (Faulty variants, named F_..., show which property notices the fault.)
F_Sync == Running("sync") /\ pc' = "rename" /\ UNCHANGED <<tmp, synced, file, durable>>
Sync ==
    /\ Running("sync")
    /\ synced' = TRUE
    /\ pc' = "rename"
    /\ UNCHANGED <<tmp, file, durable>>

\* The state file is replaced at once; the disk follows when it will.
Rename ==
    /\ Running("rename")
    /\ file' = tmp /\ tmp' = Absent
    /\ durable' \in IF synced THEN {durable, tmp} ELSE {durable, tmp, Garbage}
    /\ pc' = "idle"
    /\ UNCHANGED synced

\* A step errs, and save() returns; what it did stays.
SaveFails ==
    /\ alive /\ pc # "idle"
    /\ pc' = "idle"
    /\ UNCHANGED <<mem, tmp, synced, file, durable, alive>>

\* The disk catches up with the renames.
Flush ==
    /\ durable # file /\ durable' = file
    /\ UNCHANGED <<mem, pc, tmp, synced, file, alive>>

\* The process dies; the file system stays as it is.
Kill ==
    /\ alive /\ alive' = FALSE
    /\ pc' = "idle" /\ mem' = Empty
    /\ UNCHANGED <<tmp, synced, file, durable>>

\* The machine dies: the disk is what remains.
PowerLoss ==
    /\ alive' = FALSE /\ pc' = "idle" /\ mem' = Empty
    /\ file' = durable /\ UNCHANGED durable
    /\ tmp' \in IF synced THEN {tmp, Absent} ELSE {tmp, Absent, Garbage}
    /\ UNCHANGED synced

\* Contents that do not parse are discarded.
F_Loaded(c) == c           \* without a look at them
Loaded(c) == IF c \in States THEN c ELSE Empty

Load ==
    /\ ~alive /\ alive' = TRUE
    /\ mem' = Loaded(file)
    /\ UNCHANGED <<pc, tmp, synced, file, durable>>

Init ==
    /\ mem = Empty /\ pc = "idle" /\ tmp = Absent /\ synced = TRUE
    /\ file = Absent /\ durable = Absent /\ alive = TRUE

Next == \/ \E m \in States : Change(m)
        \/ Create \/ Write \/ Sync \/ Rename \/ SaveFails \/ Flush
        \/ Kill \/ PowerLoss \/ Load

Spec == Init /\ [][Next]_vars

---------------------------------------------------------------------------
(* Properties.                                                             *)

\* The types of the state.
TypeOK ==
    /\ mem \in States /\ pc \in Pcs
    /\ tmp \in Contents /\ file \in Contents /\ durable \in Contents
    /\ synced \in BOOLEAN /\ alive \in BOOLEAN

\* load() never has to discard the state, neither after a kill nor after a
\* power loss in the middle of a save: the file is a complete state or absent.
NeverDiscarded == file # Garbage /\ durable # Garbage

\* save() is all or nothing, and a restart gets the last completed save back
\* (after a power loss, perhaps an earlier one): the file implements the store.
Store == INSTANCE DurableStore
             WITH stored <- Loaded(file), disk <- Loaded(durable), running <- alive

AtomicSave == Store!Spec
=============================================================================
