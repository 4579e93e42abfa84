------------------------------ MODULE MCLeases ------------------------------
(***************************************************************************)
(* Small instances of Leases for TLC.                                      *)
(***************************************************************************)
EXTENDS Leases, TLC

CONSTANTS r1, r2, i1, noitem, norun

OnOneItem == [r \in Runs |-> i1]
AnyRun    == Permutations(Runs)          \* sound: the runs are on one item, or on none
=============================================================================
