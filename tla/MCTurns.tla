------------------------------ MODULE MCTurns ------------------------------
(***************************************************************************)
(* Small instances of Turns for TLC: the functions and sets the .cfg files *)
(* give to its constants.                                                  *)
(***************************************************************************)
EXTENDS Turns, TLC

CONSTANTS a, b, z, t1, t2, none, nobody

Alike       == Permutations(Members)      \* sound where the instance tells no member apart

House       == [m \in Members |-> "house"]
NobodyHolds == [t \in Tasks |-> nobody]
OneSlot     == [m \in Members |-> 1]
AllTheSame  == [t \in Abouts |-> 1]

OnT1          == Members \X {t1} \X {"Assigned"}
News          == Members \X {t1} \X {"Assigned", "OwnerReplied"}

\* Where what must happen is asked, the team is drained and stopped, but not both at once.
OneStandstill == Init /\ [][Next /\ ~(stopped' /\ drain')]_vars /\ Fairness
=============================================================================
