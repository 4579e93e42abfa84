------------------------------ MODULE MCLedger ------------------------------
(***************************************************************************)
(* Small instances of Ledger for TLC.                                      *)
(***************************************************************************)
EXTENDS Ledger, TLC

CONSTANTS r1, r2

AnyRun  == Permutations(Runs)       \* sound: nothing tells the turns apart
=============================================================================
