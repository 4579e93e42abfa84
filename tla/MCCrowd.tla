------------------------------ MODULE MCCrowd ------------------------------
(***************************************************************************)
(* Three small instances of Turns for TLC, explored one at a time, chosen  *)
(* at the beginning, while the others stand: what stands under the owner's *)
(* own hand (the .cfg's constants), an item in the loops, and a queue of   *)
(* unlike turns at a runner that is short of places.                       *)
(***************************************************************************)
EXTENDS MCTurns

CONSTANTS x, y       \* the two members of the loops and of the queue, told apart

VARIABLES
  part,                                                  \* the part explored
  turnsIn, wakesIn, taskIn, memberIn, stopped1, drain1,  \* the loops'
  looked1, onHold1, broke1, runner1, at1, left1, look1, restarts1,
  turnsOf, wakesOf, taskOf, memberOf, stopped2, drain2,  \* the queue's
  looked2, onHold2, broke2, runner2, at2, left2, look2, restarts2

hand  == vars
loops == <<turnsIn, wakesIn, taskIn, memberIn, stopped1, drain1, looked1, onHold1, broke1,
           runner1, at1, left1, look1, restarts1>>
queue == <<turnsOf, wakesOf, taskOf, memberOf, stopped2, drain2, looked2, onHold2, broke2,
           runner2, at2, left2, look2, restarts2>>

Two  == {x, y}
Both == {t1, t2}
AtX(tasks) == [t \in tasks |-> x]
L == INSTANCE Turns WITH
       runs <- turnsIn, wakes <- wakesIn, task <- taskIn, member <- memberIn,
       stopped <- stopped1, drain <- drain1, looked <- looked1, onHold <- onHold1,
       broke <- broke1, runner <- runner1, at <- at1, left <- left1, look <- look1,
       restarts <- restarts1,
       Members <- Two, Slots <- [m \in Two |-> 1], Brain <- [m \in Two |-> "house"],
       Holder <- AtX(Tasks), ProjectTasks <- {t1}, MaxIds <- 2, MaxRestarts <- 0,
       Raised <- Two \X {t1} \X {"Recovery", "Mentioned"}, Outcomes <- {"Succeeded"},
       Acts <- {"handup", "recover", "nothing", "followup", "board", "backoff", "owner"}
Q == INSTANCE Turns WITH
       runs <- turnsOf, wakes <- wakesOf, task <- taskOf, member <- memberOf,
       stopped <- stopped2, drain <- drain2, looked <- looked2, onHold <- onHold2,
       broke <- broke2, runner <- runner2, at <- at2, left <- left2, look <- look2,
       restarts <- restarts2,
       Members <- Two, Slots <- [m \in Two |-> 1], Tasks <- Both, Capacity <- 2,
       Brain <- [m \in Two |-> IF m = x THEN "house" ELSE "cloud"], Holder <- AtX(Both),
       Urgency <- [t \in Both \cup {none} |-> IF t = t1 THEN 0 ELSE 1],
       ProjectTasks <- {t2}, MaxIds <- 3, MaxRestarts <- 0,
       Raised <- {<<x, t1, "Assigned">>, <<y, t2, "Assigned">>, <<x, none, "CheckBack">>},
       Outcomes <- {"Succeeded"}, Acts <- {"project", "money", "rebrain", "abort"}

Beginning == part \in {"hand", "loops", "queue"} /\ Init /\ L!Init /\ Q!Init
Going ==
  \/ part = "hand"  /\ Next   /\ UNCHANGED <<part, loops, queue>>
  \/ part = "loops" /\ L!Next /\ UNCHANGED <<part, hand, queue>>
  \/ part = "queue" /\ Q!Next /\ UNCHANGED <<part, hand, loops>>
Explored == Beginning /\ [][Going]_<<part, hand, loops, queue>>

\* What is asked of the loops and of the queue, as Turns states it.
QueueKept == Q!RoomKept /\ Q!OneLiveTurn /\ L!OneLiveTurn
=============================================================================
