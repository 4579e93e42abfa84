----------------------------- MODULE RunnerView -----------------------------
(***************************************************************************)
(* What the engine may count on of its runner (application/ports.rs,       *)
(* `WorkerAdapter`): a turn it started runs until it ends one way or       *)
(* another, or the runner is made to forget it.  A turn nobody started     *)
(* never ends, and an end, once told, does not become another.             *)
(***************************************************************************)
CONSTANTS Runs, Ends

VARIABLE view        \* of each turn: "Gone", "Running", or how it ended

ViewInit == view = [r \in Runs |-> "Gone"]

Begins(r)    == view[r] = "Gone" /\ view' = [view EXCEPT ![r] = "Running"]
Ended(r, how) == view[r] = "Running" /\ view' = [view EXCEPT ![r] = how]
Forgotten(S) == view' = [r \in Runs |-> IF r \in S THEN "Gone" ELSE view[r]]

ViewNext == \/ \E r \in Runs : Begins(r) \/ \E how \in Ends : Ended(r, how)
            \/ \E S \in SUBSET Runs : Forgotten(S)

ViewSpec == ViewInit /\ [][ViewNext]_view
=============================================================================
