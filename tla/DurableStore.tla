---------------------------- MODULE DurableStore ----------------------------
(***************************************************************************)
(* What DeviceManager expects of the persistent state (src/src/state.rs):  *)
(* a value in memory and a stored value; a save replaces the stored value  *)
(* by the one in memory, all of it or nothing; a restart gets the stored   *)
(* value back, or, after the machine lost its power, perhaps the one the   *)
(* disk had before the latest saves.  StateFile implements it.             *)
(***************************************************************************)
CONSTANTS States, Empty

VARIABLES
    mem,     \* the value in memory
    stored,  \* what a restart of the daemon finds
    disk,    \* what a restart of the machine finds
    running

storeVars == <<mem, stored, disk, running>>

Change(m) == running /\ mem' = m /\ UNCHANGED <<stored, disk, running>>

\* Without a sync of the directory the disk may stay behind.
Save ==
    /\ running /\ stored' = mem
    /\ disk' \in {disk, mem}
    /\ UNCHANGED <<mem, running>>

CatchUp == disk' = stored /\ UNCHANGED <<mem, stored, running>>

\* The memory is gone until the next start.
Stop == /\ running' = FALSE /\ mem' = Empty
        /\ stored' \in {stored, disk} /\ UNCHANGED disk

Restart == /\ ~running /\ running' = TRUE
           /\ mem' = stored /\ UNCHANGED <<stored, disk>>

Init == mem = Empty /\ stored = Empty /\ disk = Empty /\ running = TRUE

Next == \/ \E m \in States : Change(m)
        \/ Save \/ CatchUp \/ Stop \/ Restart

Spec == Init /\ [][Next]_storeVars
=============================================================================
