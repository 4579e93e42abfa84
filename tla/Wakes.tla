------------------------------- MODULE Wakes -------------------------------
(***************************************************************************)
(* Who is woken, about what, and whether a turn already covers it: the     *)
(* vocabulary of wakes and turns, and the one decision about a wake        *)
(* (domains/team/src/domain/wakes.rs and runs.rs).                         *)
(*                                                                         *)
(* The module is pure: the situation a wake meets is built by Turns, which *)
(* owns the state.                                                         *)
(***************************************************************************)
EXTENDS Integers

\* A turn: live until it has ended one way or another.
Live  == {"Queued", "Running", "RetryWaiting"}
Ended == {"Succeeded", "Failed", "Stopped", "TimedOut"}

\* What became of a wake. "None" is an id not yet given out.
Receipts == {"None", "Queued", "Folded", "Held", "Refused", "Started", "Finished"}

\* At most this many retries after a turn fails, and how many interruptions by
\* the platform are forgiven.
MostRetries == 2
MostQuiet   == 1

\* The reasons a wake is raised for, and the classes the decision reads.
Reasons == {"Assigned", "Mentioned", "OwnerReplied", "ProposalDecided", "SentBack",
            "CheckDone", "WaitFinished", "SubtasksFinished", "WaitDropped",
            "ReviewRequested", "Continued", "CheckBack", "Alarm", "Downtime",
            "Recovery", "AssignmentRecovery", "Retry"}

BringsNews         == Reasons \ {"Recovery", "AssignmentRecovery", "Retry"}
ReachesReview      == {"OwnerReplied", "ProposalDecided", "SentBack", "CheckDone"}
ReachesBlockedItem == {"OwnerReplied", "ProposalDecided", "WaitFinished",
                       "SubtasksFinished", "WaitDropped"}
OnAClock           == {"CheckBack", "Alarm"}

(***************************************************************************)
(* The decision.  A situation `s` has the fields of the code's struct: the *)
(* rules that turn a wake away, whether it is about a task, whether this   *)
(* member already has one held there, and the live turns it meets, each    *)
(* [run, member, foldable].  "Duplicate" is the refusal of a second held   *)
(* wake, told apart because a wake being released ignores it.              *)
(***************************************************************************)
TurnedAway(s) ==
  \/ s.stopped \/ s.paused \/ s.furloughed \/ s.nothingToDo
  \/ s.waitsForReview \/ s.projectPaused \/ s.wokenForNothing \/ s.blockedForTheOwner

FirstOwn(m, s) ==
  LET own == {t \in s.live : t.member = m}
  IN  CHOOSE t \in own : \A u \in own : t.run <= u.run

\* (Mutants: a task is worked by whoever is woken; a wake is held however many are.)
DecideNeverHolds(m, s) ==
  IF TurnedAway(s) THEN "Refuse"
  ELSE IF \E t \in s.live : t.member = m /\ FirstOwn(m, s).foldable THEN "Fold" ELSE "Queue"

DecideHoldsAgain(m, s) ==
  IF TurnedAway(s) THEN "Refuse"
  ELSE IF \E t \in s.live : t.member = m /\ FirstOwn(m, s).foldable THEN "Fold"
  ELSE IF s.live # {} THEN "Hold" ELSE "Queue"

Decide(m, s) ==
  LET waits == IF s.alreadyHeld THEN "Duplicate" ELSE "Hold"
  IN  IF TurnedAway(s) THEN "Refuse"
      ELSE IF \E t \in s.live : t.member = m
           THEN IF FirstOwn(m, s).foldable THEN "Fold"
                ELSE IF s.aboutATask THEN waits ELSE "Queue"
           ELSE IF s.live # {} THEN waits ELSE "Queue"

\* Of a run's attempts, those that count against its retries.
OwnAttempts(attempts, interrupted) ==
  LET quiet == IF interrupted < MostQuiet THEN interrupted ELSE MostQuiet
  IN  IF attempts > quiet THEN attempts - quiet ELSE 0

\* Whether a turn that failed is tried again.  (Mutant: once more.)
TriedOnceMore(own) == own <= MostRetries + 1

TriedAgain(own) == own <= MostRetries

\* Whose it was that a turn did not finish well.
FaultOf(liveness) == IF liveness \in {"Gone", "Vanished"} THEN "Platform" ELSE "Worker"
=============================================================================
