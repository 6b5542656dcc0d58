---------------------------- MODULE MCStateFile ----------------------------
(* Three states of which one is the default: an old, a newer and no state.  *)
EXTENDS StateFile
CONSTANTS m1, m2

=============================================================================
