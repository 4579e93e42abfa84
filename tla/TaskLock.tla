------------------------------ MODULE TaskLock ------------------------------
(***************************************************************************)
(* What the scheduler promises of a task: its turns are a lock.  A task is *)
(* held by one turn at a time; a turn takes it once, keeps it through its  *)
(* retries and HQ's restarts, and once over never has it again.  Many      *)
(* tasks may change hands in one step (the kill switch ends every turn).   *)
(* Turns implements this module.                                           *)
(***************************************************************************)
CONSTANTS Tasks, Runs

VARIABLES
  holding,   \* the turns that hold each task: none, or one
  over       \* the turns on a task that have ended

lockVars == <<holding, over>>

LockInit ==
  /\ holding = [t \in Tasks |-> {}]
  /\ over = {}

LockNext ==
  /\ holding' \in [Tasks -> {{}} \cup {{r} : r \in Runs}]
  /\ over' = over \cup UNION {holding[t] \ holding'[t] : t \in Tasks}
  /\ \A t \in Tasks : (holding'[t] \ holding[t]) \cap over' = {}

LockSpec == LockInit /\ [][LockNext]_lockVars
=============================================================================
